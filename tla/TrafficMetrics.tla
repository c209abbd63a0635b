--------------------------- MODULE TrafficMetrics ---------------------------
(***************************************************************************)
(* The metricsContainer of lib/traffic/metrics.go, the TaskContainer that  *)
(* NewMetrics hands to a PeriodicalExecutor (whose flushing is modelled by *)
(* PeriodicalExecutor).  AddTask collects a task and never asks for a      *)
(* flush, RemoveAll hands the tasks and their total duration out, and      *)
(* Execute turns them into a Report.  A task is its duration in whole      *)
(* milliseconds, and a collection of tasks is a bag of durations.  topK is *)
(* not in this repository: its test asks that it return the k longest     *)
(* tasks, and Execute reads element [0] of the result as the shortest of  *)
(* them, the root of a min-heap of size k.  Of the Report, the four       *)
(* percentiles are kept; Timestamp, Pid, the rate and the average are     *)
(* left out.                                                               *)
(***************************************************************************)
EXTENDS Integers, FiniteSets, Bags, BagsExt, FiniteSetsExt

CONSTANTS
    Durations,  \* task durations, in milliseconds
    Names,      \* metric names given to NewMetrics and SetName
    MaxTasks,   \* bound: tasks in the container
    Sizes       \* how many tasks of one duration the Execute check tries

ASSUME Durations \subseteq Nat \ {0} /\ MaxTasks \in Nat /\ Sizes \subseteq Nat

NoReport == [median |-> 0, top90th |-> 0, top99th |-> 0, top99p9th |-> 0]

\* The tasks of bag b strictly longer than d.
longerThan(b, d) == BagCardinality([e \in {x \in DOMAIN b : x > d} |-> b[e]])

\* topK(tasks, k): the k longest tasks (of each duration, the copies that
\* fewer than k longer tasks outrank).
topK(b, k) ==
    LET kept(d) == Min({b[d], k - longerThan(b, d)})
    IN  [d \in {x \in DOMAIN b : kept(x) > 0} |-> kept(d)]

\* top[0] of a topK result: its shortest task.
first(b) == Min(DOMAIN b)

\* getTopDuration: the longest task, 0 for none.
getTopDuration(b) ==
    LET top == topK(b, 1) IN IF BagCardinality(top) < 1 THEN 0 ELSE first(top)

\* A mutant of Execute that takes the 90th percentile's count as a tenth
\* of the median's instead of a fifth.
ExecuteTenthOfHalf(b) ==
    LET size == BagCardinality(b)
        fiftyPercent == size \div 2
        tenPercent == fiftyPercent \div 10
        onePercent == tenPercent \div 10
        pointOnePercent == onePercent \div 10
        top10pTasks == topK(b, tenPercent)
        top1pTasks == topK(top10pTasks, onePercent)
        median == first(topK(b, fiftyPercent))
        all(d) == [median |-> d, top90th |-> d, top99th |-> d, top99p9th |-> d]
    IN  CASE size = 0 -> NoReport
          [] fiftyPercent = 0 -> all(getTopDuration(b))
          [] tenPercent = 0 -> [all(getTopDuration(b)) EXCEPT !.median = median]
          [] onePercent = 0 ->
               [all(getTopDuration(top10pTasks)) EXCEPT !.median = median,
                                                      !.top90th = first(top10pTasks)]
          [] pointOnePercent = 0 ->
               [median |-> median, top90th |-> first(top10pTasks),
                top99th |-> first(top1pTasks), top99p9th |-> getTopDuration(top1pTasks)]
          [] OTHER ->
               [median |-> median, top90th |-> first(top10pTasks),
                top99th |-> first(top1pTasks),
                top99p9th |-> first(topK(top1pTasks, pointOnePercent))]

\* Execute: the median is the shortest of the longest half (size >> 1);
\* each next percentile keeps a fifth or a tenth of the previous count and
\* takes the shortest of that many longest tasks, drawn from the previous
\* topK result; once a count is 0 the rest are the longest task there.
Execute(b) ==
    LET size == BagCardinality(b)
        fiftyPercent == size \div 2
        tenPercent == fiftyPercent \div 5
        onePercent == tenPercent \div 10
        pointOnePercent == onePercent \div 10
        top10pTasks == topK(b, tenPercent)
        top1pTasks == topK(top10pTasks, onePercent)
        median == first(topK(b, fiftyPercent))
        all(d) == [median |-> d, top90th |-> d, top99th |-> d, top99p9th |-> d]
    IN  CASE size = 0 -> NoReport
          [] fiftyPercent = 0 -> all(getTopDuration(b))
          [] tenPercent = 0 -> [all(getTopDuration(b)) EXCEPT !.median = median]
          [] onePercent = 0 ->
               [all(getTopDuration(top10pTasks)) EXCEPT !.median = median,
                                                      !.top90th = first(top10pTasks)]
          [] pointOnePercent = 0 ->
               [median |-> median, top90th |-> first(top10pTasks),
                top99th |-> first(top1pTasks), top99p9th |-> getTopDuration(top1pTasks)]
          [] OTHER ->
               [median |-> median, top90th |-> first(top10pTasks),
                top99th |-> first(top1pTasks),
                top99p9th |-> first(topK(top1pTasks, pointOnePercent))]

-----------------------------------------------------------------------------
VARIABLES
    tasks,     \* c.tasks, as a bag of durations
    duration,  \* c.duration
    name,      \* c.name
    pair,      \* the tasksDurationPair RemoveAll handed out, not yet executed
    report     \* the last Report Execute logged: [name, percentiles]

vars == <<tasks, duration, name, pair, report>>

\* NewMetrics(name): an empty container.
Init ==
    /\ tasks = EmptyBag
    /\ duration = 0
    /\ name \in Names
    /\ pair = [tasks |-> EmptyBag, duration |-> 0, pending |-> FALSE]
    /\ report = [name |-> name, percentiles |-> NoReport]

\* AddTask (under pe.lock): append the task, add its duration, and never
\* ask for a flush.
AddTask(d) ==
    /\ BagCardinality(tasks) < MaxTasks
    /\ tasks' = BagAdd(tasks, d)
    /\ duration' = duration + d
    /\ UNCHANGED <<name, pair, report>>

\* RemoveAll (under pe.lock): hand out the tasks and the duration, and
\* reset both.
RemoveAll ==
    /\ ~pair.pending
    /\ pair' = [tasks |-> tasks, duration |-> duration, pending |-> TRUE]
    /\ tasks' = EmptyBag
    /\ duration' = 0
    /\ UNCHANGED <<name, report>>

\* Execute(pair), outside the lock: the report reads c.name as it is then.
ExecutePair ==
    /\ pair.pending
    /\ report' = [name |-> name, percentiles |-> Execute(pair.tasks)]
    /\ pair' = [pair EXCEPT !.pending = FALSE]
    /\ UNCHANGED <<tasks, duration, name>>

\* SetName: pe.Sync sets c.name under pe.lock.
SetName(n) ==
    /\ name' = n
    /\ UNCHANGED <<tasks, duration, pair, report>>

Next ==
    \/ \E d \in Durations : AddTask(d)
    \/ RemoveAll \/ ExecutePair
    \/ \E n \in Names : SetName(n)

Spec == Init /\ [][Next]_vars

-----------------------------------------------------------------------------
\* The p-per-mille percentile as its name promises: the shortest of the
\* size * (1000 - p) / 1000 longest tasks (rounded down), or the longest
\* task when that rounds to none; 0 without tasks.
RefPercentile(b, p) ==
    LET k == (BagCardinality(b) * (1000 - p)) \div 1000
    IN  IF BagCardinality(b) = 0 THEN 0
        ELSE Min({d \in DOMAIN b : longerThan(b, d) < Max({k, 1})})

RefReport(b) ==
    [median |-> RefPercentile(b, 500), top90th |-> RefPercentile(b, 900),
     top99th |-> RefPercentile(b, 990), top99p9th |-> RefPercentile(b, 999)]

\* The collections the check tries: every duration in any count of Sizes.
CheckedTasks ==
    {[d \in {x \in Durations : f[x] > 0} |-> f[d]] : f \in [Durations -> Sizes]}

\* Type invariant.
TypeOK ==
    /\ IsABag(tasks) /\ BagCardinality(tasks) <= MaxTasks
    /\ DOMAIN tasks \subseteq Durations /\ duration \in Nat
    /\ name \in Names /\ report.name \in Names

\* For every collection of tasks, from one to thousands, Execute's chain of
\* topK calls over shrinking counts (size >> 1, then / 5, / 10, / 10)
\* reports as median, 90th, 99th and 99.9th percentile exactly the
\* duration the percentile names, and the longest task where the count
\* rounds to none.
ReportMatchesPercentiles ==
    \A b \in CheckedTasks : Execute(b) = RefReport(b)
=============================================================================
