----------------------------- MODULE RoutinePool -----------------------------
(***************************************************************************)
(* RoutinePool of lib/threading/routinepool.go.  workerPool is a channel   *)
(* of capacity maxIdle holding the task channels of parked workers; a      *)
(* worker's taskChannel is unbuffered.  Run takes a parked worker's        *)
(* channel (a receive from workerPool) and sends the task on it, or, when  *)
(* the pool is empty, starts a new worker with the task.  After each task  *)
(* a worker resets its idle timer and selects between parking itself (a    *)
(* send to workerPool) and the timer.  Workers are numbered in the order   *)
(* they start; task t is the t-th Run.                                     *)
(***************************************************************************)
EXTENDS Integers, Sequences, FiniteSets

CONSTANTS
    Callers,   \* goroutines calling Run
    MaxIdle,   \* pool.maxIdle (maxIdleRoutines = 4 in the code)
    MaxTasks   \* bound: Run calls in all

ASSUME MaxIdle \in Nat \ {0} /\ MaxTasks \in Nat

Workers == 1..MaxTasks   \* a Run starts at most one worker
Tasks == 1..MaxTasks

VARIABLES
    pool,       \* rp.workerPool: the parked workers' channels, in order
    wpc,        \* wpc[w]: "unused", "running", "select", "parked", "exited"
    reused,     \* reused[w]: w ran a task it received from the pool
    task,       \* task[w]: the task w runs or last ran
    ran,        \* ran[t]: times task t has run
    submitted,  \* Run calls so far
    cpc,        \* cpc[c]: "idle", or "send" while c sends on a worker's channel
    target,     \* target[c]: the worker whose channel c took, 0 for none
    ctask       \* ctask[c]: the task c is sending

vars == <<pool, wpc, reused, task, ran, submitted, cpc, target, ctask>>

\* A mutant of Run's receive from workerPool that leaves the channel there.
takeHeadNoRemove(p) == p

\* <-rp.workerPool: the oldest parked channel leaves the buffer.
takeHead(p) == Tail(p)

\* A mutant of the idle timer that also fires for a parked worker.
mayExitParked(w) ==
    /\ wpc[w] \in {"select", "parked"}
    /\ Len(pool) >= MaxIdle \/ reused[w]

\* The timer case of the worker's select can be chosen: the pool is full,
\* so the send blocks until idleTime runs out; or a task received from the
\* pool ran longer than idleTime and timer.Reset left the old tick in
\* timer.C.  A parked worker is blocked in <-w.taskChannel, not selecting.
mayExit(w) ==
    /\ wpc[w] = "select"
    /\ Len(pool) >= MaxIdle \/ reused[w]

-----------------------------------------------------------------------------
Init ==
    /\ pool = <<>>
    /\ wpc = [w \in Workers |-> "unused"]
    /\ reused = [w \in Workers |-> FALSE]
    /\ task = [w \in Workers |-> 0]
    /\ ran = [t \in Tasks |-> 0]
    /\ submitted = 0
    /\ cpc = [c \in Callers |-> "idle"]
    /\ target = [c \in Callers |-> 0]
    /\ ctask = [c \in Callers |-> 0]

\* Run(task): the select takes a parked channel if there is one, else its
\* default starts a new worker with the task and Run returns.
Run(c) ==
    LET t == submitted + 1
        w == CHOOSE x \in Workers : wpc[x] = "unused" /\ \A y \in 1..(x - 1) : wpc[y] # "unused"
    IN
    /\ cpc[c] = "idle"
    /\ submitted < MaxTasks
    /\ submitted' = t
    /\ IF pool # <<>>
       THEN /\ pool' = takeHead(pool)
            /\ cpc' = [cpc EXCEPT ![c] = "send"]
            /\ target' = [target EXCEPT ![c] = Head(pool)]
            /\ ctask' = [ctask EXCEPT ![c] = t]
            /\ UNCHANGED <<wpc, task>>
       ELSE /\ wpc' = [wpc EXCEPT ![w] = "running"]
            /\ task' = [task EXCEPT ![w] = t]
            /\ UNCHANGED <<pool, cpc, target, ctask>>
    /\ UNCHANGED <<reused, ran>>

\* taskChannel <- task meets the parked worker's <-w.taskChannel.
send(c) ==
    LET w == target[c] IN
    /\ cpc[c] = "send"
    /\ wpc[w] = "parked"
    /\ wpc' = [wpc EXCEPT ![w] = "running"]
    /\ task' = [task EXCEPT ![w] = ctask[c]]
    /\ reused' = [reused EXCEPT ![w] = TRUE]
    /\ cpc' = [cpc EXCEPT ![c] = "idle"]
    /\ target' = [target EXCEPT ![c] = 0]
    /\ UNCHANGED <<pool, ran, submitted, ctask>>

\* RunSafe(task) returns; the loop resets the timer and selects.
finish(w) ==
    /\ wpc[w] = "running"
    /\ ran' = [ran EXCEPT ![task[w]] = @ + 1]
    /\ wpc' = [wpc EXCEPT ![w] = "select"]
    /\ UNCHANGED <<pool, reused, task, submitted, cpc, target, ctask>>

\* w.workerPool <- w.taskChannel succeeds while the buffer has room; the
\* worker then blocks receiving its next task.
park(w) ==
    /\ wpc[w] = "select"
    /\ Len(pool) < MaxIdle
    /\ pool' = Append(pool, w)
    /\ wpc' = [wpc EXCEPT ![w] = "parked"]
    /\ UNCHANGED <<reused, task, ran, submitted, cpc, target, ctask>>

\* <-timer.C: the worker's goroutine returns.
timerFires(w) ==
    /\ mayExit(w)
    /\ wpc' = [wpc EXCEPT ![w] = "exited"]
    /\ UNCHANGED <<pool, reused, task, ran, submitted, cpc, target, ctask>>

Next ==
    \/ \E c \in Callers : Run(c) \/ send(c)
    \/ \E w \in Workers : finish(w) \/ park(w) \/ timerFires(w)

\* Goroutines are scheduled, tasks return, and timers fire.
Fairness ==
    /\ \A c \in Callers : WF_vars(send(c))
    /\ \A w \in Workers : WF_vars(finish(w)) /\ WF_vars(park(w)) /\ WF_vars(timerFires(w))

Spec == Init /\ [][Next]_vars
FairSpec == Spec /\ Fairness

-----------------------------------------------------------------------------
\* Type invariant.
TypeOK ==
    /\ pool \in Seq(Workers) /\ Len(pool) <= MaxIdle
    /\ wpc \in [Workers -> {"unused", "running", "select", "parked", "exited"}]
    /\ reused \in [Workers -> BOOLEAN]
    /\ task \in [Workers -> 0..MaxTasks]
    /\ ran \in [Tasks -> Nat]
    /\ submitted \in 0..MaxTasks
    /\ cpc \in [Callers -> {"idle", "send"}]
    /\ target \in [Callers -> 0..MaxTasks]

\* Every channel in workerPool belongs to a distinct parked worker, and a
\* parked worker is either in the pool or the one target of a sending
\* caller: a Run never takes the channel of a worker that has gone, and
\* never two Runs the same worker.
PoolHoldsParkedWorkers ==
    /\ \A i \in 1..Len(pool) : wpc[pool[i]] = "parked"
    /\ \A i, j \in 1..Len(pool) : i # j => pool[i] # pool[j]
    /\ \A w \in Workers :
          wpc[w] = "parked" =>
             Cardinality({i \in 1..Len(pool) : pool[i] = w})
               + Cardinality({c \in Callers : cpc[c] = "send" /\ target[c] = w}) = 1

\* Every task handed to Run runs, exactly once: a send on a parked
\* worker's channel always meets its receive.
EveryTaskRuns == \A t \in Tasks : t <= submitted ~> ran[t] = 1
=============================================================================
