------------------------- MODULE PeriodicalExecutor -------------------------
(***************************************************************************)
(* PeriodicalExecutor of lib/executors/periodicalexecutor.go with a task   *)
(* container.  Callers Add tasks and may ForceFlush; the background        *)
(* goroutine of backgroundFlush selects between the unbuffered commander   *)
(* and the ticker.  Every pe.lock section (addAndCheck, removeAll) is one  *)
(* step; a send on the commander is a rendezvous with a receive of the     *)
(* background select or of a drainCommander loop.  Tasks are numbered in  *)
(* the order they are added.  The container's AddTask asks for a flush     *)
(* once it holds FlushAt tasks (0: never, as metricsContainer does).       *)
(***************************************************************************)
EXTENDS Integers, FiniteSets

CONSTANTS
    Procs,     \* goroutines calling Add and ForceFlush
    MaxTasks,  \* bound: tasks added in all
    FlushAt    \* AddTask returns true at this many tasks; 0 for never

ASSUME MaxTasks \in Nat /\ FlushAt \in Nat

Bg == "background"     \* the goroutine of backgroundFlush
Flushers == Procs \cup {Bg}
Tasks == 1..MaxTasks

VARIABLES
    container,  \* tasks held by the container
    batch,      \* batch[f]: what f's removeAll took and Execute has not run
    executed,   \* executed[t]: times Execute has been given task t
    nextTask,   \* the number of the next task added
    pc,         \* pc[f]: "idle"/"select", "send", "drain", "exec"
    commanded   \* the background loop's commanded flag

vars == <<container, batch, executed, nextTask, pc, commanded>>

\* TaskContainer.AddTask: store the task; true when a flush is wanted.
addTask(c) == FlushAt > 0 /\ Cardinality(c) >= FlushAt

\* A mutant of RemoveAll that hands the tasks out but keeps them.
removeAllKeep(f) ==
    /\ batch' = [batch EXCEPT ![f] = container]
    /\ UNCHANGED container

\* removeAll under pe.lock: the container's RemoveAll empties it.
removeAll(f) ==
    /\ batch' = [batch EXCEPT ![f] = container]
    /\ container' = {}

\* A sender blocked on pe.commander.
senders == {p \in Procs : pc[p] = "send"}

-----------------------------------------------------------------------------
Init ==
    /\ container = {}
    /\ batch = [f \in Flushers |-> {}]
    /\ executed = [t \in Tasks |-> 0]
    /\ nextTask = 1
    /\ pc = [f \in Flushers |-> IF f = Bg THEN "select" ELSE "idle"]
    /\ commanded = FALSE

\* Add: addAndCheck under the lock, then a send on the commander if the
\* container asked for a flush.
Add(p) ==
    /\ pc[p] = "idle"
    /\ nextTask <= MaxTasks
    /\ container' = container \cup {nextTask}
    /\ nextTask' = nextTask + 1
    /\ pc' = [pc EXCEPT ![p] = IF addTask(container') THEN "send" ELSE "idle"]
    /\ UNCHANGED <<batch, executed, commanded>>

\* ForceFlush: flushOnce on the caller's goroutine, from its removeAll.
ForceFlush(p) ==
    /\ pc[p] = "idle"
    /\ removeAll(p)
    /\ pc' = [pc EXCEPT ![p] = "drain"]
    /\ UNCHANGED <<executed, nextTask, commanded>>

\* The background select takes the commander: commanded = true, then
\* flushOnce's removeAll.  The sender's Add returns.
receiveCommand(p) ==
    /\ pc[Bg] = "select" /\ pc[p] = "send"
    /\ removeAll(Bg)
    /\ pc' = [pc EXCEPT ![Bg] = "drain", ![p] = "idle"]
    /\ commanded' = TRUE
    /\ UNCHANGED <<executed, nextTask>>

\* A mutant of the tick case that never clears commanded.
clearCommandedNot == UNCHANGED commanded

\* commanded = false
clearCommanded == commanded' = FALSE

\* The background select takes a tick: it only clears commanded if the
\* last flush was commanded, else it runs flushOnce.
tick ==
    /\ pc[Bg] = "select"
    /\ IF commanded
       THEN /\ clearCommanded
            /\ UNCHANGED <<container, batch, pc>>
       ELSE /\ removeAll(Bg)
            /\ pc' = [pc EXCEPT ![Bg] = "drain"]
            /\ UNCHANGED commanded
    /\ UNCHANGED <<executed, nextTask>>

\* A mutant of drainCommander that returns without draining.
drainNot(f) ==
    /\ pc' = [pc EXCEPT ![f] = "exec"]

\* drainCommander: receive from every blocked sender, one per pass, and
\* return at the select's default once no one is sending.
drain(f) ==
    IF senders # {}
    THEN \E p \in senders : pc' = [pc EXCEPT ![p] = "idle"]
    ELSE pc' = [pc EXCEPT ![f] = "exec"]

drainCommander(f) ==
    /\ pc[f] = "drain"
    /\ drain(f)
    /\ UNCHANGED <<container, batch, executed, nextTask, commanded>>

\* container.Execute(values), outside the lock; then back to the loop.
execute(f) ==
    /\ pc[f] = "exec"
    /\ executed' = [t \in Tasks |-> IF t \in batch[f] THEN executed[t] + 1 ELSE executed[t]]
    /\ batch' = [batch EXCEPT ![f] = {}]
    /\ pc' = [pc EXCEPT ![f] = IF f = Bg THEN "select" ELSE "idle"]
    /\ UNCHANGED <<container, nextTask, commanded>>

Next ==
    \/ \E p \in Procs : Add(p) \/ ForceFlush(p) \/ receiveCommand(p)
    \/ tick
    \/ \E f \in Flushers : drainCommander(f) \/ execute(f)

\* The goroutines run: a flush in progress finishes, and a sender meets
\* a background loop that keeps coming back to its select.
StepFairness ==
    /\ \A f \in Flushers : WF_vars(drainCommander(f)) /\ WF_vars(execute(f))
    /\ \A p \in Procs : WF_vars(receiveCommand(p))

\* ... and the ticker keeps firing.
Fairness == WF_vars(tick) /\ StepFairness

Spec == Init /\ [][Next]_vars
FairSpec == Spec /\ Fairness

-----------------------------------------------------------------------------
\* Type invariant.
TypeOK ==
    /\ container \subseteq Tasks
    /\ batch \in [Flushers -> SUBSET Tasks]
    /\ executed \in [Tasks -> Nat]
    /\ nextTask \in 1..(MaxTasks + 1)
    /\ pc[Bg] \in {"select", "drain", "exec"}
    /\ \A p \in Procs : pc[p] \in {"idle", "send", "drain", "exec"}
    /\ commanded \in BOOLEAN

\* With ForceFlush racing the background flush, every task added is at any
\* moment in exactly one place: the container, one flusher's batch, or
\* executed, and no task is executed twice.
TasksAccounted ==
    \A t \in 1..(nextTask - 1) :
        LET places == {f \in Flushers : t \in batch[f]}
        IN  \/ t \in container /\ places = {} /\ executed[t] = 0
            \/ t \notin container /\ Cardinality(places) = 1 /\ executed[t] = 0
            \/ t \notin container /\ places = {} /\ executed[t] = 1

\* Every task added is eventually executed, by the ticker if nobody asks.
EveryTaskExecuted == \A t \in Tasks : t \in container ~> executed[t] > 0

\* An Add blocked on the commander eventually returns.
EveryAddReturns == \A p \in Procs : pc[p] = "send" ~> pc[p] = "idle"
=============================================================================
