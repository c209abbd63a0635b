-------------------------------- MODULE Logx --------------------------------
(***************************************************************************)
(* Package state of lib/logx/logs.go: the four writers (access, error,     *)
(* slow, stat), stackLog, writeConsole, the sync.Once of the setups and    *)
(* the atomic initialized flag, shared by goroutines calling SetUp, Close  *)
(* and the log functions.  A writer is "nil", "console" (a logWriter on    *)
(* stdout/stderr, whose Close does nothing), "open" (a file logger) or     *)
(* "closed".  The file loggers (NewLogger) are not in this repository:    *)
(* creating one or closing one may fail.  Each atomic load or store, each  *)
(* createOutput and each Close call is one step; formatting is left out.  *)
(***************************************************************************)
EXTENDS Integers, Sequences

CONSTANTS
    Procs   \* goroutines calling SetUp, Close and the log functions

\* The writers, in the order setupWithFiles creates them and Close closes
\* them.
Outs == <<"info", "error", "slow", "stat">>
OutSet == {Outs[i] : i \in 1..4}

\* Config values: Mode, whether Path and ServiceName are set.
Configs == [mode : {"console", "regular", "volume"}, path : BOOLEAN, name : BOOLEAN]

Errors == {"nil", "ErrLogPathNotSet", "ErrLogServiceNameNotSet",
           "ErrLogNotInitialized", "error"}

VARIABLES
    writeConsole,  \* writeConsole
    once,          \* once: "fresh", "running" (a body in progress) or "done"
    initialized,   \* initialized (0 or 1)
    writers,       \* writers[o]: infoLog, errorLog, slowLog, statLog
    stackLog,      \* stackLog is set
    pc,            \* pc[p]: "idle", "consoleOnce", "filesOnce", "create",
                   \*        "closeStore", "closing", "write"
    stage,         \* stage[p]: the writer p creates or closes next (1..4)
    target,        \* target[p]: the writer a log call of p writes to
    ret            \* ret[p]: the error p's last SetUp or Close returned

vars == <<writeConsole, once, initialized, writers, stackLog, pc, stage, target, ret>>

-----------------------------------------------------------------------------
Init ==
    /\ writeConsole = FALSE
    /\ once = "fresh"
    /\ initialized = 0
    /\ writers = [o \in OutSet |-> "nil"]
    /\ stackLog = FALSE
    /\ pc = [p \in Procs |-> "idle"]
    /\ stage = [p \in Procs |-> 1]
    /\ target = [p \in Procs |-> "console"]
    /\ ret = [p \in Procs |-> "nil"]

\* The early returns of setupWithFiles (no Path) and setupWithVolume (no
\* ServiceName; the path it joins is then never empty).
configError(c) ==
    CASE c.mode = "regular" /\ ~c.path -> "ErrLogPathNotSet"
      [] c.mode = "volume" /\ ~c.name -> "ErrLogServiceNameNotSet"
      [] OTHER -> "nil"

\* SetUp(c): console mode sets writeConsole and enters setupWithConsole's
\* once.Do; a file mode returns its config error or enters
\* setupWithFiles' once.Do.
SetUp(p, c) ==
    /\ pc[p] = "idle"
    /\ IF c.mode = "console"
       THEN /\ writeConsole' = TRUE
            /\ pc' = [pc EXCEPT ![p] = "consoleOnce"]
            /\ UNCHANGED ret
       ELSE IF configError(c) # "nil"
       THEN /\ ret' = [ret EXCEPT ![p] = configError(c)]
            /\ UNCHANGED <<writeConsole, pc>>
       ELSE /\ pc' = [pc EXCEPT ![p] = "filesOnce"]
            /\ UNCHANGED <<writeConsole, ret>>
    /\ UNCHANGED <<once, initialized, writers, stackLog, stage, target>>

\* once.Do blocks while another goroutine runs the body.  A used Once
\* returns at once, and SetUp returns nil (setupWithFiles' err is still
\* nil).  setupWithConsole's body runs whole: three console writers,
\* statLog = infoLog, initialized = 1; setupWithFiles' body starts with
\* createOutput(accessFile).
onceDo(p) ==
    /\ pc[p] \in {"consoleOnce", "filesOnce"}
    /\ once # "running"
    /\ IF once = "done"
       THEN /\ pc' = [pc EXCEPT ![p] = "idle"]
            /\ ret' = [ret EXCEPT ![p] = "nil"]
            /\ UNCHANGED <<once, initialized, writers, stage>>
       ELSE IF pc[p] = "consoleOnce"
       THEN /\ once' = "done"
            /\ writers' = [o \in OutSet |-> "console"]
            /\ initialized' = 1
            /\ pc' = [pc EXCEPT ![p] = "idle"]
            /\ ret' = [ret EXCEPT ![p] = "nil"]
            /\ UNCHANGED stage
       ELSE /\ once' = "running"
            /\ pc' = [pc EXCEPT ![p] = "create"]
            /\ stage' = [stage EXCEPT ![p] = 1]
            /\ UNCHANGED <<initialized, writers, ret>>
    /\ UNCHANGED <<writeConsole, stackLog, target>>

\* A mutant of the end of setupWithFiles' body that stores initialized
\* before statLog is created.
publishEarly(p, ok) == ok /\ stage[p] >= 3

\* The body reaches atomic.StoreUint32(&initialized, 1) after the fourth
\* createOutput succeeded.
publish(p, ok) == ok /\ stage[p] = 4

\* createOutput for the next writer: the writer variable gets the result
\* (nil on an error), and an error ends the body with the Once used up.
\* After the fourth, stackLog is created and initialized is stored.
createOutput(p, ok) ==
    LET o == Outs[stage[p]]
        last == ~ok \/ stage[p] = 4
    IN
    /\ pc[p] = "create"
    /\ writers' = [writers EXCEPT ![o] = IF ok THEN "open" ELSE "nil"]
    /\ stackLog' = (stackLog \/ (ok /\ stage[p] = 4))
    /\ initialized' = IF publish(p, ok) THEN 1 ELSE initialized
    /\ once' = IF last THEN "done" ELSE once
    /\ pc' = [pc EXCEPT ![p] = IF last THEN "idle" ELSE "create"]
    /\ stage' = [stage EXCEPT ![p] = IF last THEN 1 ELSE @ + 1]
    /\ ret' = [ret EXCEPT ![p] = IF ok THEN "nil" ELSE "error"]
    /\ UNCHANGED <<writeConsole, target>>

\* Close: nil in console mode, ErrLogNotInitialized before initialization;
\* otherwise go on to store 0 (a separate atomic step).
closeBegin(p) ==
    /\ pc[p] = "idle"
    /\ IF writeConsole
       THEN /\ ret' = [ret EXCEPT ![p] = "nil"] /\ UNCHANGED pc
       ELSE IF initialized = 0
       THEN /\ ret' = [ret EXCEPT ![p] = "ErrLogNotInitialized"] /\ UNCHANGED pc
       ELSE /\ pc' = [pc EXCEPT ![p] = "closeStore"] /\ UNCHANGED ret
    /\ UNCHANGED <<writeConsole, once, initialized, writers, stackLog, stage, target>>

\* atomic.StoreUint32(&initialized, 0), before any writer is closed.
closeStore(p) ==
    /\ pc[p] = "closeStore"
    /\ initialized' = 0
    /\ pc' = [pc EXCEPT ![p] = "closing"]
    /\ stage' = [stage EXCEPT ![p] = 1]
    /\ UNCHANGED <<writeConsole, once, writers, stackLog, target, ret>>

\* Close of the next non-nil writer; an error returns at once and leaves
\* the writers after it open.  A console writer's Close does nothing.
closeWriter(p, ok) ==
    LET o == Outs[stage[p]]
        last == ~ok \/ stage[p] = 4
    IN
    /\ pc[p] = "closing"
    /\ ok \/ writers[o] \in {"open", "closed"}
    /\ writers' = IF writers[o] = "open" /\ ok THEN [writers EXCEPT ![o] = "closed"]
                  ELSE writers
    /\ pc' = [pc EXCEPT ![p] = IF last THEN "idle" ELSE "closing"]
    /\ stage' = [stage EXCEPT ![p] = IF last THEN 1 ELSE @ + 1]
    /\ ret' = [ret EXCEPT ![p] = IF ok THEN "nil" ELSE "error"]
    /\ UNCHANGED <<writeConsole, once, initialized, stackLog, target>>

\* infoSync, errorSync, slowSync, statSync: the atomic load picks the
\* console (log.Print) or the package writer, read right after it.
\* Severe's stackSync picks stackLog ("stack") the same way.
logLoad(p, o) ==
    /\ pc[p] = "idle"
    /\ target' = [target EXCEPT ![p] = IF initialized = 0 THEN "console" ELSE o]
    /\ pc' = [pc EXCEPT ![p] = "write"]
    /\ UNCHANGED <<writeConsole, once, initialized, writers, stackLog, stage, ret>>

\* output / outputError, or stackLog.Errorf: the Write itself (to a closed
\* file, it is lost).
\* The writer chosen is local to the call and dropped afterwards.
logWrite(p) ==
    /\ pc[p] = "write"
    /\ pc' = [pc EXCEPT ![p] = "idle"]
    /\ target' = [target EXCEPT ![p] = "console"]
    /\ UNCHANGED <<writeConsole, once, initialized, writers, stackLog, stage, ret>>

Next ==
    \E p \in Procs :
        \/ \E c \in Configs : SetUp(p, c)
        \/ onceDo(p)
        \/ \E ok \in BOOLEAN : createOutput(p, ok) \/ closeWriter(p, ok)
        \/ closeBegin(p) \/ closeStore(p)
        \/ \E o \in OutSet \cup {"stack"} : logLoad(p, o)
        \/ logWrite(p)

Spec == Init /\ [][Next]_vars

-----------------------------------------------------------------------------
\* Type invariant.
TypeOK ==
    /\ writeConsole \in BOOLEAN /\ stackLog \in BOOLEAN
    /\ once \in {"fresh", "running", "done"}
    /\ initialized \in {0, 1}
    /\ writers \in [OutSet -> {"nil", "console", "open", "closed"}]
    /\ pc \in [Procs -> {"idle", "consoleOnce", "filesOnce", "create",
                         "closeStore", "closing", "write"}]
    /\ stage \in [Procs -> 1..4]
    /\ target \in [Procs -> OutSet \cup {"console", "stack"}]
    /\ ret \in [Procs -> Errors]

\* Whatever SetUp, Close and log calls interleave (a failed createOutput,
\* two Closes, a console SetUp racing a file one), while initialized is
\* 1 every writer a log call may pick is set and not closed, and a log
\* call that picked one of the four package writers found it set (stackLog
\* is left out: a console SetUp never sets it): the store of
\* initialized comes after the last createOutput, and Close clears it
\* before it closes anything.
InitializedWritersOpen ==
    /\ initialized = 1 => \A o \in OutSet : writers[o] \in {"console", "open"}
    /\ \A p \in Procs : pc[p] = "write" /\ target[p] \in OutSet =>
           writers[target[p]] # "nil"
=============================================================================
