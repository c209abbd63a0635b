----------------------------- MODULE Publisher -----------------------------
(***************************************************************************)
(* The etcd Publisher of lib/etcd/publisher.go, as rpcx.NewRpcPubServer    *)
(* uses it (no WithId: the key is prefix/lease), together with the part of *)
(* etcd it talks to.  The record s holds                                   *)
(*   s.leases     leases etcd holds (granted, not revoked, not expired)    *)
(*   s.keys       leases whose key prefix/lease is in the store            *)
(*   s.grants     leases granted so far; the n-th grant is lease n         *)
(*   s.lease      c.lease (0 is clientv3.NoLease)                          *)
(*   s.fullKey    c.fullKey, named by its lease (0: not yet set)           *)
(*   s.calls      KeepAlive calls that created a client; client n is the   *)
(*                n-th                                                     *)
(*   s.open       clients created and not closed                           *)
(*   s.renews     client -> the lease its cli.KeepAlive renews (0: none)   *)
(*   s.notifiers  clients held by DeadNotify goroutines                    *)
(*   s.g          the keepAliveAsync goroutine: pc "none", "loop",         *)
(*                "paused" or "done"; its cli; the lease of its renewal    *)
(*                channel ch                                               *)
(* KeepAlive runs as one step: its network calls race nothing but the     *)
(* TTL, and the goroutine it starts is the only one that reads pauseChan,  *)
(* resumeChan and quit.  The keepAliveAsync goroutine that calls it (on    *)
(* renewal-channel close or on Resume) returns, closing its client, in     *)
(* the same step.                                                          *)
(***************************************************************************)
EXTENDS Integers, FiniteSets, TLC

CONSTANTS
    MaxTriggers,   \* bound: lease outages plus Resume calls
    MaxPauses      \* bound: Pause calls

ASSUME MaxTriggers \in Nat /\ MaxPauses \in Nat

NoLease == 0

\* How KeepAlive ends: clientv3.New fails, Grant fails, the Put fails,
\* cli.KeepAlive fails, or the goroutine starts.
Outcomes == {"newFail", "grantFail", "putFail", "keepAliveFail", "ok"}

VARIABLES
    s,         \* the publisher and its etcd state (see above)
    quit,      \* c.quit closed (Stop)
    pausing,   \* a Pause() caller blocked on the unbuffered pauseChan
    resuming,  \* a Resume() caller blocked on the unbuffered resumeChan
    pauses,    \* Pause calls so far
    triggers,  \* outages plus Resume calls so far
    proc,      \* "running", or "exited" after a termination signal
    started    \* the first KeepAlive: "pending", "ok" or "failed"

vars == <<s, quit, pausing, resuming, pauses, triggers, proc, started>>

\* Leases some open client keeps alive.
renewedLeases(st) == {st.renews[c] : c \in st.open} \cap st.leases

\* etcd drops the keys attached to a lease with the lease.
dropLease(st, l) == [st EXCEPT !.leases = @ \ {l}, !.keys = @ \ {l}]

\* revoke: cli.Revoke(c.lease); an error is only logged.
revoke(st, ok) == IF ok THEN dropLease(st, st.lease) ELSE st

\* A mutant of the deferred cli.Close() that leaves the client open.
closeClientNoop(st, c) == st

\* defer cli.Close(): the client stops renewing.
closeClient(st, c) == [st EXCEPT !.open = @ \ {c}]

\* A mutant of register that takes the lease id without counting the grant.
registerNoCount(st, o) ==
    LET l == st.grants + 1
    IN  IF o = "grantFail" THEN [st EXCEPT !.lease = NoLease]
        ELSE [st EXCEPT !.leases  = @ \cup {l},
                        !.keys    = IF o = "putFail" THEN @ ELSE @ \cup {l},
                        !.lease   = l,
                        !.fullKey = l]

\* register: Grant a lease (c.lease becomes NoLease if that fails), set
\* c.fullKey from it, Put the key under it unless the Put fails.
register(st, o) ==
    LET l == st.grants + 1
    IN  IF o = "grantFail" THEN [st EXCEPT !.lease = NoLease]
        ELSE [st EXCEPT !.grants  = l,
                        !.leases  = @ \cup {l},
                        !.keys    = IF o = "putFail" THEN @ ELSE @ \cup {l},
                        !.lease   = l,
                        !.fullKey = l]

\* A mutant of KeepAlive whose renewal keeps the lease c.lease held
\* before register replaced it.
keepAliveOldLease(st, o) ==
    IF o = "newFail" THEN st
    ELSE LET c   == st.calls + 1
             st1 == register([st EXCEPT !.calls = c, !.open = @ \cup {c},
                                        !.renews = @ @@ (c :> NoLease)], o)
         IN  CASE o \in {"grantFail", "putFail"} -> st1
               [] o = "keepAliveFail" ->
                    [st1 EXCEPT !.notifiers = @ \cup {c}]
               [] OTHER ->
                    [st1 EXCEPT !.notifiers = @ \cup {c},
                                !.renews[c] = st.lease,
                                !.g = [pc |-> "loop", cli |-> c, ch |-> st1.lease]]

\* KeepAlive: clientv3.New, register, DeadNotify (a goroutine holding the
\* client), then keepAliveAsync: cli.KeepAlive(c.lease) and the goroutine.
\* Every error returns early; the client is never closed on those paths.
keepAlive(st, o) ==
    IF o = "newFail" THEN st
    ELSE LET c   == st.calls + 1
             st1 == register([st EXCEPT !.calls = c, !.open = @ \cup {c},
                                        !.renews = @ @@ (c :> NoLease)], o)
         IN  CASE o \in {"grantFail", "putFail"} -> st1
               [] o = "keepAliveFail" ->
                    [st1 EXCEPT !.notifiers = @ \cup {c}]
               [] OTHER ->
                    [st1 EXCEPT !.notifiers = @ \cup {c},
                                !.renews[c] = st1.lease,
                                !.g = [pc |-> "loop", cli |-> c, ch |-> st1.lease]]

\* The goroutine returns: its deferred cli.Close() runs.
goroutineReturns(st, g) == [closeClient(st, g.cli) EXCEPT !.g.pc = "done"]

\* KeepAlive called from a goroutine that then returns: if KeepAlive
\* started a new goroutine, s.g is that one.
retryAndReturn(st, o) ==
    LET st1 == closeClient(st, st.g.cli)
        st2 == keepAlive(st1, o)
    IN  IF o = "ok" THEN st2 ELSE [st2 EXCEPT !.g.pc = "done"]

Running == proc = "running"

-----------------------------------------------------------------------------
Init ==
    /\ s = [leases |-> {}, keys |-> {}, grants |-> 0, lease |-> NoLease,
            fullKey |-> 0, calls |-> 0, open |-> {}, renews |-> <<>>,
            notifiers |-> {}, g |-> [pc |-> "none", cli |-> 0, ch |-> NoLease]]
    /\ quit = FALSE
    /\ pausing = FALSE
    /\ resuming = FALSE
    /\ pauses = 0
    /\ triggers = 0
    /\ proc = "running"
    /\ started = "pending"

\* keepAliveServer.Start: the first KeepAlive; an error stops the server.
Start ==
    /\ Running /\ started = "pending"
    /\ \E o \in Outcomes :
          /\ s' = keepAlive(s, o)
          /\ started' = IF o = "ok" THEN "ok" ELSE "failed"
    /\ UNCHANGED <<quit, pausing, resuming, pauses, triggers, proc>>

\* etcd loses a renewed lease (the client could not reach it for a TTL):
\* the lease and its key go, and the renewal channel will close.
Outage(l) ==
    /\ triggers < MaxTriggers
    /\ l \in renewedLeases(s)
    /\ s' = dropLease(s, l)
    /\ triggers' = triggers + 1
    /\ UNCHANGED <<quit, pausing, resuming, pauses, proc, started>>

\* A lease nobody renews reaches its TTL.
Expire(l) ==
    /\ l \in s.leases \ renewedLeases(s)
    /\ s' = dropLease(s, l)
    /\ UNCHANGED <<quit, pausing, resuming, pauses, triggers, proc, started>>

\* The select loop, case ch closed: revoke, KeepAlive once, return.
chClosed ==
    /\ Running /\ s.g.pc = "loop" /\ s.g.ch \notin s.leases
    /\ \E ok \in BOOLEAN, o \in Outcomes : s' = retryAndReturn(revoke(s, ok), o)
    /\ UNCHANGED <<quit, pausing, resuming, pauses, triggers, proc, started>>

\* The select loop, case pauseChan: revoke, then wait in the inner select.
pauseReceived ==
    /\ Running /\ s.g.pc = "loop" /\ pausing
    /\ \E ok \in BOOLEAN : s' = [revoke(s, ok) EXCEPT !.g.pc = "paused"]
    /\ pausing' = FALSE
    /\ UNCHANGED <<quit, resuming, pauses, triggers, proc, started>>

\* The select loop, case quit: revoke and return.
loopQuit ==
    /\ Running /\ s.g.pc = "loop" /\ quit
    /\ \E ok \in BOOLEAN : s' = goroutineReturns(revoke(s, ok), s.g)
    /\ UNCHANGED <<quit, pausing, resuming, pauses, triggers, proc, started>>

\* The inner select, case resumeChan: KeepAlive once, return.
resumeReceived ==
    /\ Running /\ s.g.pc = "paused" /\ resuming
    /\ \E o \in Outcomes : s' = retryAndReturn(s, o)
    /\ resuming' = FALSE
    /\ UNCHANGED <<quit, pausing, pauses, triggers, proc, started>>

\* The inner select, case quit: return (the lease was revoked on pause).
pausedQuit ==
    /\ Running /\ s.g.pc = "paused" /\ quit
    /\ s' = goroutineReturns(s, s.g)
    /\ UNCHANGED <<quit, pausing, resuming, pauses, triggers, proc, started>>

\* Pause(): send on pauseChan, blocking until the loop receives.
Pause ==
    /\ Running /\ started = "ok" /\ ~pausing /\ pauses < MaxPauses
    /\ pausing' = TRUE
    /\ pauses' = pauses + 1
    /\ UNCHANGED <<s, quit, resuming, triggers, proc, started>>

\* Resume(): send on resumeChan, blocking until the inner select receives.
Resume ==
    /\ Running /\ started = "ok" /\ ~resuming /\ triggers < MaxTriggers
    /\ resuming' = TRUE
    /\ triggers' = triggers + 1
    /\ UNCHANGED <<s, quit, pausing, pauses, proc, started>>

\* Stop(), also the wrap-up listener KeepAlive adds: close quit (DoneChan
\* closes once).
Stop ==
    /\ Running /\ started = "ok" /\ ~quit
    /\ quit' = TRUE
    /\ UNCHANGED <<s, pausing, resuming, pauses, triggers, proc, started>>

\* A termination signal reaches the DeadNotify goroutine of client d
\* first: UnReg deletes c.fullKey through d, which panics if d was closed;
\* either way the process ends and every client with it.
Signal(d) ==
    /\ Running /\ d \in s.notifiers
    /\ s' = [s EXCEPT !.keys = IF d \in s.open THEN @ \ {s.fullKey} ELSE @,
                      !.open = {}, !.g.pc = IF @ = "none" THEN @ ELSE "done"]
    /\ proc' = "exited"
    /\ pausing' = FALSE /\ resuming' = FALSE
    /\ UNCHANGED <<quit, pauses, triggers, started>>

Next ==
    \/ Start \/ chClosed \/ pauseReceived \/ loopQuit \/ resumeReceived \/ pausedQuit
    \/ Pause \/ Resume \/ Stop
    \/ \E l \in 1..s.grants : Outage(l) \/ Expire(l)
    \/ \E d \in s.notifiers : Signal(d)

\* The goroutine's selects and etcd's TTL make progress; the server's
\* start, callers, outages and signals are the environment's.
Fairness ==
    /\ WF_vars(chClosed) /\ WF_vars(pauseReceived)
    /\ WF_vars(loopQuit) /\ WF_vars(resumeReceived) /\ WF_vars(pausedQuit)
    /\ \A l \in 1..MaxTriggers + 1 : WF_vars(Expire(l))

Spec == Init /\ [][Next]_vars
FairSpec == Spec /\ Fairness

-----------------------------------------------------------------------------
TypeOK ==
    /\ s.leases \subseteq 1..s.grants
    /\ s.keys \subseteq s.leases
    /\ s.lease \in 0..s.grants /\ s.fullKey \in 0..s.grants
    /\ s.open \subseteq 1..s.calls /\ s.notifiers \subseteq 1..s.calls
    /\ DOMAIN s.renews = 1..s.calls
    /\ s.g.pc \in {"none", "loop", "paused", "done"}
    /\ quit \in BOOLEAN /\ pausing \in BOOLEAN /\ resuming \in BOOLEAN
    /\ proc \in {"running", "exited"}
    /\ started \in {"pending", "ok", "failed"}

\* Spec 8, scenario 5: once Stop() closes quit, or a signal ends the
\* process, the publisher's keys leave the store (revoked by the loop, or
\* expiring once the goroutine's deferred cli.Close() ends the renewal).
StopRemovesKey == (quit \/ proc = "exited") ~> s.keys = {}

\* At most one lease is kept alive, the current one: every goroutine that
\* moves on to a new lease (retry, resume) or stops closes its client.
OneRenewedLease == renewedLeases(s) \subseteq {s.lease}

\* Spec 4.1: "on renewal-channel close, revoke the lease and retry from
\* scratch": once the server has started, while the publisher is neither
\* stopped nor paused nor ended, its key is always eventually back.
KeyRepublished ==
    LET wanted == started = "ok" /\ ~quit /\ Running /\ s.g.pc # "paused"
    IN  [](wanted => <>(s.lease \in s.keys \/ ~wanted))
=============================================================================
