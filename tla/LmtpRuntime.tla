---------------------------- MODULE LmtpRuntime -----------------------------
(***************************************************************************)
(* The listener of the DSN propagator (internal/lmtp/runtime.go): Start,   *)
(* the accept loop, one goroutine per connection, and Close, which callers *)
(* share through one sync.Once.  What a session says is LmtpSession's      *)
(* subject; here it reads, hands transactions to the handler, and ends.    *)
(***************************************************************************)
EXTENDS Integers, FiniteSets

CONSTANTS Conns,            \* connections that clients may open, each once
          NoConn,
          Closers,          \* callers of Close, whose context has a deadline
          MaxConnections    \* server.max_connections

ASSUME RuntimeAssumption ==
    NoConn \notin Conns /\ IsFiniteSet(Conns) /\ MaxConnections \in Nat \ {0}

VARIABLES
    closed, ready,  \* runtimeGuard flags
    listener,       \* "none", "open", "closed"
    cancelled,      \* runContext
    start,          \* Start: "idle", "waiting", "aborting", "ok", "failed"
    accept, cur,    \* the accept loop and the connection in its hands
    conn,           \* each connection's goroutine
    shut,           \* connections whose stream Close has closed
    slots, workers, \* slots taken, WaitGroup counter
    active,         \* runtimeGuard.active
    once,           \* the shutdown: "none", a step, "done"
    bounded,        \* its context has a deadline
    snapshot,       \* the connections it has to close
    drained,        \* its WaitGroup watcher has seen zero
    failed,         \* the error it returns
    cpc             \* callers of Close

guardVars == <<closed, ready, listener, cancelled>>
poolVars  == <<slots, workers, active>>
stopVars  == <<once, bounded, snapshot, drained, failed>>
vars == <<guardVars, start, accept, cur, conn, shut, poolVars, stopVars, cpc>>

(* "slotted" and "registered": admitted, not yet counted by the WaitGroup. *)
HoldsSlot(c) == conn[c] \in {"slotted", "registered", "idle", "reading", "handling", "ending"}

TypeOK ==
    /\ {closed, ready, cancelled, bounded, drained, failed} \subseteq BOOLEAN
    /\ listener \in {"none", "open", "closed"}
    /\ start \in {"idle", "waiting", "aborting", "ok", "failed"}
    /\ accept \in {"none", "begin", "accepting", "slotted", "registered", "exited"}
    /\ cur \in Conns \cup {NoConn}
    /\ conn \in [Conns -> {"none", "queued", "slotted", "registered", "idle", "reading",
                           "handling", "ending", "gone"}]
    /\ shut \subseteq Conns /\ active \subseteq Conns /\ snapshot \subseteq Conns
    /\ slots \in 0..MaxConnections /\ workers \in 0..Cardinality(Conns)
    /\ once \in {"none", "unlisten", "join", "drain", "forced", "cleanup", "done"}
    /\ cpc \in [Closers -> {"idle", "waiting", "returned"}]

Init == /\ closed = FALSE /\ ready = FALSE /\ listener = "none" /\ cancelled = FALSE
        /\ start = "idle" /\ accept = "none" /\ cur = NoConn
        /\ conn = [c \in Conns |-> "none"] /\ shut = {}
        /\ slots = 0 /\ workers = 0 /\ active = {}
        /\ once = "none" /\ bounded = TRUE /\ snapshot = {} /\ drained = FALSE /\ failed = FALSE
        /\ cpc = [q \in Closers |-> "idle"]

Conn(c, step) == conn' = [conn EXCEPT ![c] = step]

(***************************************************************************)
(* Start.                                                                  *)
(***************************************************************************)
(* Under the lock: refuse, or bind and launch the accept loop.             *)
Start == /\ start = "idle"
         /\ \/ /\ ~closed
               /\ start' = "waiting" /\ listener' = "open" /\ accept' = "begin"
            \/ start' = "failed" /\ UNCHANGED <<listener, accept>>
         /\ UNCHANGED <<closed, ready, cancelled, cur, conn, shut, poolVars, stopVars, cpc>>

(* The loop is live: fine if it became ready.                              *)
StartLive == /\ start = "waiting" /\ accept # "begin"
             /\ start' = IF ready THEN "ok" ELSE "aborting"
             /\ UNCHANGED <<guardVars, accept, cur, conn, shut, poolVars, stopVars, cpc>>

(* The caller's context ends first; the close below has no deadline.       *)
StartCancelled == /\ start = "waiting"
                  /\ start' = "aborting"
                  /\ UNCHANGED <<guardVars, accept, cur, conn, shut, poolVars, stopVars, cpc>>

StartAborted == /\ start = "aborting" /\ once = "done"
                /\ start' = "failed"
                /\ UNCHANGED <<guardVars, accept, cur, conn, shut, poolVars, stopVars, cpc>>

(***************************************************************************)
(* The accept loop.                                                        *)
(***************************************************************************)
(* Mutant: the loop does not look at closed before it reports ready.       *)
AcceptBeginUnchecked ==
    /\ accept = "begin"
    /\ ready' = TRUE /\ accept' = "accepting"
    /\ UNCHANGED <<closed, listener, cancelled, start, cur, conn, shut, poolVars, stopVars, cpc>>

AcceptBegin ==
    /\ accept = "begin"
    /\ IF closed THEN accept' = "exited" /\ UNCHANGED ready
                 ELSE accept' = "accepting" /\ ready' = TRUE
    /\ UNCHANGED <<closed, listener, cancelled, start, cur, conn, shut, poolVars, stopVars, cpc>>

(* AcceptUnix returned a connection: take a slot, or drop it.              *)
Accept(c) ==
    /\ accept = "accepting" /\ conn[c] = "queued" /\ listener = "open"
    /\ IF slots < MaxConnections
       THEN /\ slots' = slots + 1 /\ Conn(c, "slotted")
            /\ accept' = "slotted" /\ cur' = c
       ELSE /\ Conn(c, "gone") /\ UNCHANGED <<slots, accept, cur>>
    /\ UNCHANGED <<guardVars, start, shut, workers, active, stopVars, cpc>>

(* admit, under the lock.                                                  *)
admit ==
    /\ accept = "slotted"
    /\ IF closed THEN /\ slots' = slots - 1 /\ Conn(cur, "gone")
                      /\ accept' = "accepting" /\ cur' = NoConn
                      /\ UNCHANGED active
                 ELSE /\ active' = active \cup {cur} /\ Conn(cur, "registered")
                      /\ accept' = "registered" /\ UNCHANGED <<slots, cur>>
    /\ UNCHANGED <<guardVars, start, shut, workers, stopVars, cpc>>

(* workers.Add and the goroutine.                                          *)
Launch == /\ accept = "registered"
          /\ workers' = workers + 1
          /\ Conn(cur, "idle")
          /\ accept' = "accepting" /\ cur' = NoConn
          /\ UNCHANGED <<guardVars, start, shut, slots, active, stopVars, cpc>>

(* The listener is closed, or AcceptUnix fails for good.                   *)
AcceptExit == /\ accept = "accepting"
              /\ accept' = "exited" /\ ready' = FALSE
              /\ UNCHANGED <<closed, listener, cancelled, start, cur, conn, shut, poolVars,
                             stopVars, cpc>>

(***************************************************************************)
(* Sessions.                                                               *)
(***************************************************************************)
Connect(c) == /\ conn[c] = "none" /\ listener = "open"
              /\ Conn(c, "queued")
              /\ UNCHANGED <<guardVars, start, accept, cur, shut, poolVars, stopVars, cpc>>

(* The top of the command loop: a cancelled context ends the session.      *)
SessionLoop(c) == /\ conn[c] = "idle"
                  /\ Conn(c, IF cancelled THEN "ending" ELSE "reading")
                  /\ UNCHANGED <<guardVars, start, accept, cur, shut, poolVars, stopVars, cpc>>

(* A command, a transaction, or the end of the stream.                     *)
SessionRead(c) == /\ conn[c] = "reading"
                  /\ \/ c \notin shut /\ Conn(c, "idle")
                     \/ c \notin shut /\ Conn(c, "handling")
                     \/ Conn(c, "ending")
                  /\ UNCHANGED <<guardVars, start, accept, cur, shut, poolVars, stopVars, cpc>>

(* The handler returned; the reply is lost if the stream is closed.        *)
SessionReply(c) == /\ conn[c] = "handling"
                   /\ Conn(c, IF c \in shut THEN "ending" ELSE "idle")
                   /\ UNCHANGED <<guardVars, start, accept, cur, shut, poolVars, stopVars, cpc>>

(* serve's deferred release: leave active, then the slot and WaitGroup.    *)
SessionEnd(c) ==
    /\ conn[c] = "ending"
    /\ \/ c \in active /\ active' = active \ {c} /\ UNCHANGED <<slots, workers, conn>>
       \/ /\ c \notin active
          /\ slots' = slots - 1 /\ workers' = workers - 1 /\ Conn(c, "gone")
          /\ UNCHANGED active
    /\ UNCHANGED <<guardVars, start, accept, cur, shut, stopVars, cpc>>

(***************************************************************************)
(* Close: the first caller runs shutdown, the others wait for it.          *)
(***************************************************************************)
(* The locked part of shutdown.                                            *)
ShutdownBegin(deadline) ==
    /\ closed' = TRUE /\ ready' = FALSE
    /\ snapshot' = active
    /\ once' = "unlisten" /\ bounded' = deadline
    /\ UNCHANGED <<listener, cancelled, drained, failed>>

Close(q) == /\ cpc[q] = "idle"
            /\ cpc' = [cpc EXCEPT ![q] = "waiting"]
            /\ IF once = "none" THEN ShutdownBegin(TRUE) ELSE UNCHANGED <<guardVars, stopVars>>
            /\ UNCHANGED <<start, accept, cur, conn, shut, poolVars>>

StartAborts == /\ start = "aborting" /\ once = "none"
               /\ ShutdownBegin(FALSE)
               /\ UNCHANGED <<start, accept, cur, conn, shut, poolVars, cpc>>

(* The listener, if there is one, is closed; an error is remembered.       *)
CloseListener == /\ once = "unlisten"
                 /\ IF listener = "open"
                    THEN listener' = "closed" /\ failed' \in {failed, TRUE}
                    ELSE UNCHANGED <<listener, failed>>
                 /\ once' = "join"
                 /\ UNCHANGED <<closed, ready, cancelled, start, accept, cur, conn, shut, poolVars,
                                bounded, snapshot, drained, cpc>>

(* Mutant: shutdown does not wait for the accept loop.                     *)
JoinAcceptSkipped ==
    /\ once = "join" /\ once' = "drain"
    /\ UNCHANGED <<guardVars, start, accept, cur, conn, shut, poolVars, bounded, snapshot,
                   drained, failed, cpc>>

(* Mutant: the wait for the accept loop ignores the deadline.              *)
JoinAcceptUnbounded ==
    /\ once = "join" /\ once' = "drain"
    /\ accept \in {"none", "exited"}
    /\ UNCHANGED <<guardVars, start, accept, cur, conn, shut, poolVars, bounded, snapshot,
                   drained, failed, cpc>>

(* Wait for the accept loop, if there is one, or for the deadline.         *)
JoinAccept ==
    /\ once = "join" /\ once' = "drain"
    /\ \/ accept \in {"none", "exited"} /\ UNCHANGED failed
       \/ bounded /\ accept \notin {"none", "exited"} /\ failed' = TRUE
    /\ UNCHANGED <<guardVars, start, accept, cur, conn, shut, poolVars, bounded, snapshot,
                   drained, cpc>>

(* The goroutine in workers.Wait.                                          *)
WatchWorkers ==
    /\ once \in {"drain", "forced"} /\ ~drained /\ workers = 0
    /\ drained' = TRUE
    /\ UNCHANGED <<guardVars, start, accept, cur, conn, shut, poolVars, once, bounded, snapshot,
                   failed, cpc>>

Drained == /\ once \in {"drain", "forced"} /\ drained
           /\ once' = "cleanup"
           /\ UNCHANGED <<guardVars, start, accept, cur, conn, shut, poolVars, bounded, snapshot,
                          drained, failed, cpc>>

(* Mutant: the deadline cancels the sessions but leaves their streams.     *)
ForceCancelOnly ==
    /\ once = "drain" /\ bounded
    /\ once' = "forced" /\ cancelled' = TRUE
    /\ UNCHANGED <<closed, ready, listener, start, accept, cur, conn, shut, poolVars, bounded,
                   snapshot, drained, failed, cpc>>

(* The deadline: close every stream and cancel the sessions.               *)
ForceStreams ==
    /\ once = "drain" /\ bounded
    /\ once' = "forced" /\ shut' = shut \cup snapshot /\ cancelled' = TRUE
    /\ UNCHANGED <<closed, ready, listener, start, accept, cur, conn, poolVars, bounded,
                   snapshot, drained, failed, cpc>>

(* shutdown_timeout after that, with a handler that still runs.            *)
GiveUp == /\ once = "forced"
          /\ once' = "cleanup" /\ failed' = TRUE
          /\ UNCHANGED <<guardVars, start, accept, cur, conn, shut, poolVars, bounded, snapshot,
                         drained, cpc>>

(* The sessions' context is cancelled and the socket file removed.         *)
Cleanup == /\ once = "cleanup"
           /\ cancelled' = TRUE /\ once' = "done"
           /\ failed' \in (IF listener = "none" THEN {failed} ELSE {failed, TRUE})
           /\ UNCHANGED <<closed, ready, listener, start, accept, cur, conn, shut, poolVars,
                          bounded, snapshot, drained, cpc>>

CloseReturn(q) == /\ cpc[q] = "waiting" /\ once = "done"
                  /\ cpc' = [cpc EXCEPT ![q] = "returned"]
                  /\ UNCHANGED <<guardVars, start, accept, cur, conn, shut, poolVars, stopVars>>

AcceptStep  == AcceptBegin \/ admit \/ Launch \/ AcceptExit \/ \E c \in Conns : Accept(c)
SessionStep(c) == SessionLoop(c) \/ SessionRead(c) \/ SessionEnd(c)
StopStep == \/ CloseListener \/ JoinAccept \/ WatchWorkers \/ Drained \/ ForceStreams
            \/ GiveUp \/ Cleanup

Next == \/ Start \/ StartLive \/ StartCancelled \/ StartAborted \/ StartAborts
        \/ AcceptStep
        \/ \E c \in Conns : Connect(c) \/ SessionStep(c) \/ SessionReply(c)
        \/ \E q \in Closers : Close(q) \/ CloseReturn(q)
        \/ StopStep

Spec == Init /\ [][Next]_vars

(* The shutting goroutine, its watcher and its timers run.  Neither        *)
(* clients nor handlers are assumed to do anything.                        *)
FairSpec == Spec /\ WF_vars(StopStep) /\ \A q \in Closers : WF_vars(CloseReturn(q))

(***************************************************************************)
(* Properties.                                                             *)
(***************************************************************************)
(* ReadyMeansAccepting: the listener reports ready only while the accept   *)
(* loop runs and nobody has begun to close it, however Start and Close     *)
(* interleave and however the loop ends (runtimeGuard.ready).              *)
ReadyMeansAccepting ==
    ready => ~closed /\ accept \in {"accepting", "slotted", "registered"}

(* CleanCloseIsQuiet: when Close reports success nothing is left: the      *)
(* accept loop has ended, no session runs and no handler will be called.   *)
CleanCloseIsQuiet ==
    once = "done" /\ ~failed =>
        accept \in {"none", "exited"} /\ \A c \in Conns : ~HoldsSlot(c)

(* NoneOverlooked: once the deadline has forced the sessions, every        *)
(* session still waiting for its client has had its stream closed, also    *)
(* one that was being admitted when Close began, or will end at its next   *)
(* look at the context.                                                    *)
NoneOverlooked ==
    once = "forced" => \A c \in Conns : conn[c] = "reading" => c \in shut

(* CloseReturns: a Close with a deadline returns, whatever the clients and *)
(* the handlers do.                                                        *)
CloseReturns ==
    \A q \in Closers : cpc[q] = "waiting" /\ bounded ~> cpc[q] = "returned"

=============================================================================
