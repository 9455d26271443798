-------------------------- MODULE DaemonLifecycle --------------------------
(***************************************************************************)
(* The application lifecycle of dkim2d (cmd/dkim2d/internal/app,           *)
(* lifecycle.go and readiness.go) composed with the HTTP owner it drives   *)
(* (cmd/dkim2d/internal/httpjson, server_runtime.go and                    *)
(* server_lifecycle.go).                                                   *)
(*                                                                         *)
(* One Start, any number of Stop calls, the serve goroutine, the replay    *)
(* health probe and the requests run concurrently.  They meet in one       *)
(* mutex, which Start and Stop hold over several steps, and in four words  *)
(* that are read and written without it: the fatal flag, the stopping      *)
(* flag, the activation word and the readiness word.  A fatal event is     *)
(* published in three steps (activation word, fatal flag, then the         *)
(* transition under the mutex), so it can fall between any two steps of    *)
(* the others.                                                             *)
(*                                                                         *)
(* Every wait of the code is bounded, so a waiting step may also give up.  *)
(* A failed dependency, an unready authority and a cancelled acquisition   *)
(* are the same to Start: the step it is at fails.                         *)
(***************************************************************************)
EXTENDS Naturals, FiniteSets

CONSTANTS Requests,     \* client connections and the handlers they run
          Stoppers      \* callers of Stop

\* The teardown is owned by a caller of Stop, or by the rollback of Start.
ASSUME StopperAssumption == "rollback" \notin Stoppers

VARIABLES phase,        \* lifecycleState.phase
          fatal,        \* fatalPending
          stopping,     \* stopping
          activation,   \* activationState
          readiness,    \* Readiness.state
          shutdown,     \* the shutdown channel is closed
          held,         \* the runtime owners belong to the lifecycle state
          mu,           \* who keeps the mutex between two steps
          start,        \* where Start is
          sampled,      \* what Start sampled before it takes the mutex
          owned,        \* the owners startup has acquired
          closed,       \* the owners whose close was called
          stop,         \* where each Stop call is
          teardown,     \* where the one ordered teardown is
          owner,        \* who runs it: rollback, or a caller of Stop
          failed,       \* a step of it failed
          producer,     \* where the serve and the probe goroutine are
          probeStop,    \* the probe's context is cancelled
          gate,         \* HandlerRegistrationGate.state
          server,       \* serverRuntime.state
          listening,    \* the listener is open
          draining,     \* shutdownAttempted
          request,      \* where each connection is
          notice        \* where the NotifyFatal call of a request is

words == <<phase, fatal, stopping, activation, readiness, shutdown, held>>
startup == <<start, sampled, owned>>
stops == <<stop, teardown, owner, failed, closed, probeStop>>
http == <<gate, server, listening, draining>>
traffic == <<request, notice>>
vars == <<words, mu, startup, stops, producer, http, traffic>>

Producers == {"serve", "probe"}

Init ==
    /\ phase = "new" /\ fatal = FALSE /\ stopping = FALSE
    /\ activation = "inactive" /\ readiness = "booting"
    /\ shutdown = FALSE /\ held = FALSE /\ mu = "free"
    /\ start = "idle" /\ sampled = FALSE /\ owned = {} /\ closed = {}
    /\ stop = [c \in Stoppers |-> "idle"]
    /\ teardown = "idle" /\ owner = "nobody" /\ failed = FALSE
    /\ producer = [p \in Producers |-> "none"] /\ probeStop = FALSE
    /\ gate = "bootstrapping" /\ server = "bootstrapping"
    /\ listening = FALSE /\ draining = FALSE
    /\ request = [r \in Requests |-> "none"]
    /\ notice = [r \in Requests |-> "none"]

----------------------------------------------------------------------------
(* Transitions made under the mutex.                                       *)

Alive == phase \in {"starting", "committing", "activating", "running"}

\* Readiness.withdrawReady, a loop of compare-and-swap that cannot fail.
Withdrawn(word) ==
    IF word \in {"booting", "ready"} THEN "fatal"
    ELSE IF word = "stopping_clean" THEN "stopping_fatal" ELSE word

\* Readiness.beginStopping.
Stopped(word) ==
    IF word \in {"booting", "ready"} THEN "stopping_clean"
    ELSE IF word = "fatal" THEN "stopping_fatal" ELSE word

FatalPhase(ph) ==
    IF ph = "stopping_clean" THEN "stopping_fatal"
    ELSE IF ph = "stopped_clean" THEN "stopped_fatal"
    ELSE IF ph \in {"stopping_fatal", "stopped_fatal"} THEN ph ELSE "fatal"

\* The readiness word is reached through the lifecycle state: a startup that
\* was never published has nothing to withdraw there.
transitionFatalLocked ==
    /\ activation' = "terminal" /\ fatal' = TRUE /\ shutdown' = TRUE
    /\ phase' = FatalPhase(phase)
    /\ readiness' = IF held THEN Withdrawn(readiness) ELSE readiness
    /\ UNCHANGED <<stopping, held>>

----------------------------------------------------------------------------
(* The producers and the requests, and the fatal events they publish.      *)

\* Mutant of Returned: every return counts as part of a stop.
ReturnedAnyway(p) ==
    /\ producer[p] = "check"
    /\ producer' = [producer EXCEPT ![p] = "handoff"]
    /\ UNCHANGED <<words, mu, startup, stops, http, traffic>>

\* NotifyServeReturn looks at the stopping flag first, without the mutex.
Returned(p) ==
    /\ producer[p] = "check"
    /\ producer' = [producer EXCEPT ![p] = IF stopping THEN "handoff" ELSE "store"]
    /\ UNCHANGED <<words, mu, startup, stops, http, traffic>>

\* publishFatalPending closes the activation word before it shows the flag.
Terminalize(p) ==
    /\ producer[p] = "store"
    /\ activation' = "terminal"
    /\ producer' = [producer EXCEPT ![p] = "flag"]
    /\ UNCHANGED <<phase, fatal, stopping, readiness, shutdown, held, mu, startup, stops,
                   http, traffic>>

Flag(p) ==
    /\ producer[p] = "flag"
    /\ fatal' = TRUE
    /\ producer' = [producer EXCEPT ![p] = "lock"]
    /\ UNCHANGED <<phase, stopping, activation, readiness, shutdown, held, mu, startup,
                   stops, http, traffic>>

NotifyServeReturn(p) ==
    /\ producer[p] = "lock" /\ mu = "free"
    /\ \/ Alive /\ transitionFatalLocked
       \/ /\ phase = "stopping_clean"
          /\ phase' = "stopping_fatal"
          /\ readiness' = IF held THEN Withdrawn(readiness) ELSE readiness
          /\ UNCHANGED <<fatal, stopping, activation, shutdown, held>>
       \/ ~Alive /\ phase # "stopping_clean" /\ UNCHANGED words
    /\ producer' = [producer EXCEPT ![p] = "handoff"]
    /\ UNCHANGED <<mu, startup, stops, http, traffic>>

\* The accept loop ends because its listener was closed, or of itself.
ServeReturns ==
    /\ producer["serve"] = "up"
    /\ producer' = [producer EXCEPT !["serve"] = "check"]
    /\ UNCHANGED <<words, mu, startup, stops, http, traffic>>

\* publishServeTermination, then CloseListener.  Activate keeps the server's
\* own mutex while the gate asks for its authorization.
publishServeTermination ==
    /\ producer["serve"] = "handoff" /\ start # "recheck"
    /\ server' = "stopping" /\ gate' = "stopped" /\ listening' = FALSE
    /\ producer' = [producer EXCEPT !["serve"] = "returned"]
    /\ UNCHANGED <<words, mu, startup, stops, draining, traffic>>

\* The goroutine clears serveLive and closes its done channel.
ServeDone ==
    /\ producer["serve"] = "returned"
    /\ producer' = [producer EXCEPT !["serve"] = "done"]
    /\ UNCHANGED <<words, mu, startup, stops, http, traffic>>

\* The gated probe ends only when it is cancelled; the loop also when its
\* clock or schedule breaks.
ProbeReturns ==
    /\ producer["probe"] = "up" \/ (producer["probe"] = "gated" /\ probeStop)
    /\ producer' = [producer EXCEPT !["probe"] = "check"]
    /\ UNCHANGED <<words, mu, startup, stops, http, traffic>>

ProbeDone ==
    /\ producer["probe"] = "handoff"
    /\ producer' = [producer EXCEPT !["probe"] = "done"]
    /\ UNCHANGED <<words, mu, startup, stops, http, traffic>>

\* net/http: a client connects while the accept loop runs, and sends a
\* request on a connection that is kept open, long after the loop ended too.
Connect(r) ==
    /\ request[r] = "none" /\ producer["serve"] = "up" /\ listening
    /\ request' = [request EXCEPT ![r] = "kept"]
    /\ UNCHANGED <<words, mu, startup, stops, producer, http, notice>>

Enter(r) ==
    /\ request[r] = "kept"
    /\ request' = [request EXCEPT ![r] = "entering"]
    /\ UNCHANGED <<words, mu, startup, stops, producer, http, notice>>

register(r) ==
    /\ request[r] = "entering"
    /\ request' = [request EXCEPT ![r] = IF gate = "open" THEN "active" ELSE "refused"]
    /\ UNCHANGED <<words, mu, startup, stops, producer, http, notice>>

\* A registered handler ends, or the connection of a refused one is closed.
release(r) ==
    /\ request[r] \in {"active", "refused"} /\ notice[r] = "none"
    /\ request' = [request EXCEPT ![r] =
                     IF request[r] = "refused" \/ draining THEN "none" ELSE "kept"]
    /\ UNCHANGED <<words, mu, startup, stops, producer, http, notice>>

\* A handler meets a broken invariant, or a refused connection cannot be
\* closed.  The call is synchronous: the handler waits for it.
NotifyFatal(r) ==
    /\ \/ /\ request[r] \in {"active", "refused"} /\ notice[r] = "none"
          /\ notice' = [notice EXCEPT ![r] = "store"] /\ UNCHANGED words
       \/ /\ notice[r] = "store" /\ activation' = "terminal"
          /\ notice' = [notice EXCEPT ![r] = "flag"]
          /\ UNCHANGED <<phase, fatal, stopping, readiness, shutdown, held>>
       \/ /\ notice[r] = "flag" /\ fatal' = TRUE
          /\ notice' = [notice EXCEPT ![r] = "lock"]
          /\ UNCHANGED <<phase, stopping, activation, readiness, shutdown, held>>
       \/ /\ notice[r] = "lock" /\ mu = "free" /\ transitionFatalLocked
          /\ notice' = [notice EXCEPT ![r] = "none"]
    /\ UNCHANGED <<mu, startup, stops, producer, http, request>>

----------------------------------------------------------------------------
(* Start.                                                                  *)

startupInProgress == start \notin {"idle", "started", "failed"}
serveLive == producer["serve"] \notin {"none", "done"}
probeLive == "probe" \in owned => producer["probe"] \notin {"none", "done"}
Serving == producer["serve"] \notin {"none", "returned", "done"}

\* Every step of Start that acquires nothing and changes no shared word.
StartAt(from, to) == /\ start = from /\ start' = to

beginStart ==
    /\ StartAt("idle", IF phase = "new" THEN "install" ELSE "failed") /\ mu = "free"
    /\ phase' = IF phase = "new" THEN "starting" ELSE phase
    /\ UNCHANGED <<fatal, stopping, activation, readiness, shutdown, held, mu, sampled,
                   owned, stops, producer, http, traffic>>

\* The cancel function is installed under the mutex, unless a Stop was first.
InstallCancel ==
    /\ StartAt("install", IF phase = "starting" THEN "replay" ELSE "fail") /\ mu = "free"
    /\ UNCHANGED <<words, mu, sampled, owned, stops, producer, http, traffic>>

\* An acquisition returns its owner, its owner and an error, or an error.
Acquire(o, to) ==
    \/ start' = to /\ owned' = owned \cup {o}
    \/ start' = "fail" /\ owned' \in {owned, owned \cup {o}}

acquireProtocol ==
    /\ start = "replay" /\ Acquire("replay", "assemble")
    /\ UNCHANGED <<words, mu, sampled, stops, producer, http, traffic>>

\* bindFatalGate refuses a lifecycle that is already fatal.  Only the Redis
\* backend has a health probe.
assembleApplication ==
    /\ start = "assemble"
    /\ IF fatal THEN start' = "fail" /\ UNCHANGED owned
       ELSE Acquire("probe", "bind") \/ (start' = "bind" /\ UNCHANGED owned)
    /\ UNCHANGED <<words, mu, sampled, stops, producer, http, traffic>>

bindTransport ==
    /\ start = "bind" /\ Acquire("http", "serve")
    /\ listening' = ("http" \in owned')
    /\ UNCHANGED <<words, mu, sampled, stops, producer, gate, server, draining, traffic>>

\* The goroutine runs; the proof that it entered its loop may not come.
startServe ==
    /\ start = "serve" /\ producer' = [producer EXCEPT !["serve"] = "up"]
    /\ start' \in {"probe", "fail"}
    /\ UNCHANGED <<words, mu, sampled, owned, stops, http, traffic>>

startHealthProbe ==
    /\ start = "probe"
    /\ \/ /\ Serving /\ "probe" \in owned
          /\ producer' = [producer EXCEPT !["probe"] = "gated"]
          /\ start' \in {"commit", "fail"}
       \/ /\ Serving /\ "probe" \notin owned /\ start' = "commit" /\ UNCHANGED producer
       \/ start' = "fail" /\ UNCHANGED producer
    /\ UNCHANGED <<words, mu, sampled, owned, stops, http, traffic>>

\* The conditions Start samples before it takes the mutex.  The authority and
\* the acquisition context may refuse at any sample.  Both live flags only
\* fall, so reading them one after the other is reading them at once.
Sample(at, to) ==
    /\ StartAt(at, to)
    /\ sampled' \in {FALSE, serveLive /\ (at = "activated" => probeLive)}
    /\ UNCHANGED <<words, mu, owned, stops, producer, http, traffic>>

enterCommit ==
    /\ start = "enter" /\ mu = "free"
    /\ IF phase = "starting" /\ sampled /\ ~fatal
       THEN /\ phase' = "committing" /\ start' = "transfer"
            /\ UNCHANGED <<fatal, stopping, activation, readiness, shutdown, held>>
       ELSE transitionFatalLocked /\ start' = "fail"
    /\ UNCHANGED <<mu, sampled, owned, stops, producer, http, traffic>>

\* The protected material is transferred outside the mutex; sampled keeps
\* whether that, the context and the authority all succeeded.
CommitRuntime ==
    /\ StartAt("transfer", "committed")
    /\ \/ sampled' = TRUE /\ owned' = owned \cup {"material"}
       \/ sampled' = FALSE /\ owned' \in {owned, owned \cup {"material"}}
    /\ UNCHANGED <<words, mu, stops, producer, http, traffic>>

commitStartup ==
    /\ start = "committed" /\ mu = "free"
    /\ IF phase = "committing" /\ sampled /\ ~fatal
       THEN /\ phase' = "activating" /\ start' = "ungate"
            /\ UNCHANGED <<fatal, stopping, activation, readiness, shutdown, held>>
       ELSE transitionFatalLocked /\ start' = "fail"
    /\ UNCHANGED <<mu, sampled, owned, stops, producer, http, traffic>>

ActivateProbe ==
    /\ start = "ungate" /\ start' \in {"arm", "fail"}
    /\ producer' = [producer EXCEPT !["probe"] = IF @ = "gated" THEN "up" ELSE @]
    /\ UNCHANGED <<words, mu, sampled, owned, stops, http, traffic>>

\* The producers are proved live before the activation word is armed.
Arm ==
    /\ start = "arm"
    /\ \/ /\ serveLive /\ Serving /\ probeLive /\ ~fatal /\ activation = "inactive"
          /\ activation' = "armed" /\ start' = "open"
       \/ start' = "fail" /\ UNCHANGED activation
    /\ UNCHANGED <<phase, fatal, stopping, readiness, shutdown, held, mu, sampled, owned,
                   stops, producer, http, traffic>>

\* serverRuntime.Activate asks the gate, and the gate AllowHTTPActivation:
\* claim the armed word, then look at the fatal flag again.
AllowHTTPActivation ==
    /\ start = "open"
    /\ \/ /\ Serving /\ server = "bootstrapping" /\ ~fatal /\ activation = "armed"
          /\ activation' = "claimed" /\ start' = "recheck" /\ UNCHANGED <<gate, server>>
       \/ /\ Serving /\ server = "bootstrapping" /\ (fatal \/ activation # "armed")
          /\ gate' = "stopped" /\ server' = "stopping" /\ start' = "fail"
          /\ UNCHANGED activation
       \/ /\ ~(Serving /\ server = "bootstrapping")
          /\ start' = "fail" /\ UNCHANGED <<activation, gate, server>>
    /\ UNCHANGED <<phase, fatal, stopping, readiness, shutdown, held, mu, sampled, owned,
                   stops, producer, listening, draining, traffic>>

Open ==
    /\ start = "recheck"
    /\ IF fatal
       THEN activation' = "terminal" /\ gate' = "stopped" /\ server' = "stopping"
            /\ start' = "fail"
       ELSE gate' = "open" /\ server' = "active" /\ start' = "activated"
            /\ UNCHANGED activation
    /\ UNCHANGED <<phase, fatal, stopping, readiness, shutdown, held, mu, sampled, owned,
                   stops, producer, listening, draining, traffic>>

\* publishStartup keeps the mutex over the next three steps: the last claim of
\* the activation word and the transfer of the owners, ...
publishStartup ==
    /\ start = "publish" /\ mu = "free"
    /\ IF phase = "activating" /\ sampled /\ ~fatal /\ activation = "claimed"
       THEN /\ activation' = "published" /\ held' = TRUE /\ phase' = "running"
            /\ start' = "ready" /\ mu' = "start"
            /\ UNCHANGED <<fatal, stopping, readiness, shutdown>>
       ELSE transitionFatalLocked /\ start' = "fail" /\ UNCHANGED mu
    /\ UNCHANGED <<sampled, owned, stops, producer, http, traffic>>

\* A publication that meets the fatal flag is withdrawn: the owners go back to
\* startup, which rolls them back.
WithdrawPublication ==
    /\ activation' = "terminal" /\ shutdown' = TRUE /\ phase' = "fatal"
    /\ readiness' = Withdrawn(readiness) /\ held' = FALSE
    /\ start' = "fail" /\ mu' = "free" /\ UNCHANGED <<fatal, stopping>>

\* ... the readiness word, ...
publishReady ==
    /\ start = "ready"
    /\ IF fatal THEN WithdrawPublication
       ELSE /\ readiness' = "ready" /\ start' = "reread"
            /\ UNCHANGED <<phase, fatal, stopping, activation, shutdown, held, mu>>
    /\ UNCHANGED <<sampled, owned, stops, producer, http, traffic>>

\* ... and a second look at the fatal flag.
finishStartupLocked ==
    /\ start = "reread"
    /\ IF fatal THEN WithdrawPublication
       ELSE start' = "started" /\ mu' = "free" /\ UNCHANGED words
    /\ UNCHANGED <<sampled, owned, stops, producer, http, traffic>>

\* markStartupFailed; what was acquired is rolled back.
markStartupFailed ==
    /\ StartAt("fail", "rollback") /\ mu = "free" /\ transitionFatalLocked
    /\ teardown' = "reject" /\ owner' = "rollback"
    /\ UNCHANGED <<mu, sampled, owned, stop, failed, closed, probeStop, producer,
                   http, traffic>>

StartStep ==
    \/ beginStart \/ InstallCancel \/ acquireProtocol \/ assembleApplication
    \/ bindTransport \/ startServe \/ startHealthProbe
    \/ Sample("commit", "enter") \/ enterCommit \/ CommitRuntime \/ commitStartup
    \/ ActivateProbe \/ Arm \/ AllowHTTPActivation \/ Open
    \/ Sample("activated", "publish") \/ publishStartup \/ publishReady
    \/ finishStartupLocked \/ markStartupFailed

----------------------------------------------------------------------------
(* Stop.                                                                   *)

\* Mutant of beginStop: a stop during startup only waits for it.
beginStopJoining(c) ==
    /\ stop[c] = "idle" /\ mu = "free"
    /\ \/ /\ startupInProgress /\ UNCHANGED words
          /\ stop' = [stop EXCEPT ![c] = "join_start"] /\ UNCHANGED mu
       \/ /\ ~startupInProgress /\ phase \in {"running", "fatal"}
          /\ phase' = IF phase = "running" THEN "stopping_clean" ELSE "stopping_fatal"
          /\ stopping' = TRUE /\ mu' = "stop"
          /\ stop' = [stop EXCEPT ![c] = "elected"]
          /\ UNCHANGED <<fatal, activation, readiness, shutdown, held>>
       \/ /\ ~startupInProgress /\ phase \in {"stopping_clean", "stopping_fatal"}
          /\ stop' = [stop EXCEPT ![c] = "join_stop"] /\ UNCHANGED <<words, mu>>
       \/ /\ ~startupInProgress /\ phase \in {"stopped_clean", "stopped_fatal"}
          /\ stop' = [stop EXCEPT ![c] = IF phase = "stopped_clean" THEN "clean" ELSE "error"]
          /\ UNCHANGED <<words, mu>>
       \/ /\ ~startupInProgress /\ phase = "new" /\ transitionFatalLocked
          /\ stop' = [stop EXCEPT ![c] = "error"] /\ UNCHANGED mu
    /\ UNCHANGED <<startup, teardown, owner, failed, closed, probeStop, producer,
                   http, traffic>>

\* beginStop under the mutex.  A stop during startup makes the lifecycle fatal
\* and joins Start; a stop during a stop joins it.  The elected owner changes
\* the phase and the stopping flag first, and keeps the mutex.
beginStop(c) ==
    /\ stop[c] = "idle" /\ mu = "free"
    /\ \/ /\ startupInProgress /\ transitionFatalLocked
          /\ stop' = [stop EXCEPT ![c] = "join_start"] /\ UNCHANGED mu
       \/ /\ ~startupInProgress /\ phase \in {"running", "fatal"}
          /\ phase' = IF phase = "running" THEN "stopping_clean" ELSE "stopping_fatal"
          /\ stopping' = TRUE /\ mu' = "stop"
          /\ stop' = [stop EXCEPT ![c] = "elected"]
          /\ UNCHANGED <<fatal, activation, readiness, shutdown, held>>
       \/ /\ ~startupInProgress /\ phase \in {"stopping_clean", "stopping_fatal"}
          /\ stop' = [stop EXCEPT ![c] = "join_stop"] /\ UNCHANGED <<words, mu>>
       \/ /\ ~startupInProgress /\ phase \in {"stopped_clean", "stopped_fatal"}
          /\ stop' = [stop EXCEPT ![c] = IF phase = "stopped_clean" THEN "clean" ELSE "error"]
          /\ UNCHANGED <<words, mu>>
       \/ /\ ~startupInProgress /\ phase = "new" /\ transitionFatalLocked
          /\ stop' = [stop EXCEPT ![c] = "error"] /\ UNCHANGED mu
    /\ UNCHANGED <<startup, teardown, owner, failed, closed, probeStop, producer,
                   http, traffic>>

\* It withdraws readiness and looks at the fatal flag before the teardown.
Elected(c) ==
    /\ stop[c] = "elected" /\ teardown' = "reject" /\ owner' = c
    /\ readiness' = IF held THEN Stopped(readiness) ELSE readiness
    /\ phase' = IF fatal THEN "stopping_fatal" ELSE phase
    /\ stop' = [stop EXCEPT ![c] = "owner"] /\ mu' = "free" /\ failed' = FALSE
    /\ UNCHANGED <<fatal, stopping, activation, shutdown, held, startup, closed,
                   probeStop, producer, http, traffic>>

stopDone == phase \in {"stopped_clean", "stopped_fatal"}

\* The result of a join is what the finished stop, or start, left behind.
Joined(c) ==
    /\ \/ stop[c] = "join_start" /\ ~startupInProgress
       \/ stop[c] = "join_stop" /\ stopDone
    /\ mu = "free"
    /\ stop' = [stop EXCEPT ![c] = IF phase = "stopped_clean" THEN "clean" ELSE "error"]
    /\ UNCHANGED <<words, mu, startup, teardown, owner, failed, closed, probeStop,
                   producer, http, traffic>>

JoinExpires(c) ==
    /\ stop[c] \in {"join_start", "join_stop"}
    /\ stop' = [stop EXCEPT ![c] = "error"]
    /\ UNCHANGED <<words, mu, startup, teardown, owner, failed, closed, probeStop,
                   producer, http, traffic>>

----------------------------------------------------------------------------
(* The ordered teardown: stopOwned for a Stop, rollbackOwners for a startup *)
(* that failed.  The two differ in where the probe is joined.              *)

ByRollback == owner = "rollback"
OwnsHttp == IF ByRollback THEN "http" \in owned ELSE held
Owns(o) == o \in owned
AfterReject == IF ByRollback THEN "probe" ELSE "listener"
AfterHandlers == IF ByRollback THEN "replay" ELSE "probe"
AfterProbe == IF ByRollback THEN (IF OwnsHttp THEN "listener" ELSE "replay") ELSE "replay"

Teardown(from, to) ==
    /\ teardown = from /\ teardown' = to
    /\ UNCHANGED <<words, mu, startup, stop, owner, traffic>>

\* Mutant of Abandon: the waits have no bound.
AbandonNever(from) == FALSE

\* A bounded wait ran out, or the call it waits for failed.
Abandon(from) ==
    /\ Teardown(from, "finish") /\ failed' = TRUE
    /\ UNCHANGED <<closed, probeStop, producer, http>>

\* RejectNewRequests: no handler registers any more.
Reject ==
    /\ Teardown("reject", AfterReject) /\ (OwnsHttp \/ ByRollback)
    /\ IF OwnsHttp THEN gate' = "stopped" /\ server' = "stopping" ELSE UNCHANGED <<gate, server>>
    /\ UNCHANGED <<failed, closed, probeStop, producer, listening, draining>>

\* A rollback that could not close admission still stops the probe.  A stop
\* records a fatal lifecycle and gives up; so does the stop of a lifecycle
\* whose startup failed, which owns no transport.
RejectFails ==
    /\ teardown = "reject" /\ failed' = TRUE
    /\ \/ ByRollback /\ OwnsHttp /\ teardown' = "probe" /\ UNCHANGED words
       \/ ~ByRollback /\ mu = "free" /\ teardown' = "finish" /\ transitionFatalLocked
    /\ UNCHANGED <<mu, startup, stop, owner, closed, probeStop, producer, http, traffic>>

closeListener ==
    /\ Teardown("listener", "join") /\ listening' = FALSE
    /\ UNCHANGED <<failed, closed, probeStop, producer, gate, server, draining>>

\* A serve goroutine that was never started has nothing to join.
JoinServe ==
    /\ Teardown("join", "shutdown") /\ producer["serve"] \in {"none", "done"}
    /\ UNCHANGED <<failed, closed, probeStop, producer, http>>

\* serverRuntime.Shutdown refuses while the serve loop has not returned, and a
\* loop that never ran has not.
ServeReturned == producer["serve"] \in {"returned", "done"}

Shutdown ==
    /\ Teardown("shutdown", IF ServeReturned THEN "drain" ELSE "force")
    /\ draining' = ServeReturned /\ failed' = (failed \/ ~ServeReturned)
    /\ UNCHANGED <<closed, probeStop, producer, gate, server, listening>>

\* net/http: the drain ends when no connection is active; idle ones are closed.
Quiet(r) == request[r] \in {"none", "kept"}

Drained ==
    /\ teardown = "drain" /\ teardown' = AfterHandlers
    /\ \A r \in Requests : Quiet(r)
    /\ request' = [r \in Requests |-> "none"]
    /\ UNCHANGED <<words, mu, startup, stop, owner, failed, closed, probeStop,
                   producer, http, notice>>

DrainExpires ==
    /\ Teardown("drain", "force") /\ failed' = TRUE
    /\ UNCHANGED <<closed, probeStop, producer, http>>

\* ForceClose is permitted after an attempted drain only; the handlers of the
\* connections it closes run on.
ForceClose ==
    /\ teardown = "force" /\ failed' = TRUE
    /\ IF draining
       THEN /\ teardown' = "handlers"
            /\ request' = [r \in Requests |-> IF Quiet(r) THEN "none" ELSE request[r]]
       ELSE teardown' = "finish" /\ UNCHANGED request
    /\ UNCHANGED <<words, mu, startup, stop, owner, closed, probeStop, producer,
                   http, notice>>

\* HandlersQuiescent and WaitHandlers: closed, and none registered.
HandlersQuiescent == gate = "stopped" /\ \A r \in Requests : request[r] # "active"

WaitHandlers ==
    /\ Teardown("handlers", AfterHandlers) /\ HandlersQuiescent
    /\ UNCHANGED <<failed, closed, probeStop, producer, http>>

StopProbe ==
    /\ Teardown("probe", "probe_join") /\ probeStop' = TRUE
    /\ UNCHANGED <<failed, closed, producer, http>>

\* Mutant of JoinProbe: the probe is told to stop, and not joined.
JoinProbeUnproved ==
    /\ Teardown("probe_join", IF ByRollback /\ failed THEN "finish" ELSE AfterProbe)
    /\ UNCHANGED <<failed, closed, probeStop, producer, http>>

JoinProbe ==
    /\ producer["probe"] \in {"none", "done"}
    /\ Teardown("probe_join", IF ByRollback /\ failed THEN "finish" ELSE AfterProbe)
    /\ UNCHANGED <<failed, closed, probeStop, producer, http>>

\* The final owners are closed one after the other, whatever the others said:
\* replay (with the DNS transport, the signing runtime and the telemetry), then
\* the protected material.
Close(o, to) ==
    /\ Teardown(o, to)
    /\ closed' = IF Owns(o) THEN closed \cup {o} ELSE closed
    /\ failed' \in (IF Owns(o) THEN {failed, TRUE} ELSE {failed})
    /\ UNCHANGED <<probeStop, producer, http>>

\* The end of a rollback ends Start; the end of a stop is finishStop.
FinishRollback ==
    /\ teardown = "finish" /\ ByRollback /\ mu = "free"
    /\ teardown' = "idle" /\ start' = "failed"
    /\ UNCHANGED <<words, mu, sampled, owned, stop, owner, failed, closed,
                   probeStop, producer, http, traffic>>

\* Mutant of finishStop: a fatal event during the stop is forgotten.
finishStopByResult ==
    /\ teardown = "finish" /\ ~ByRollback /\ mu = "free"
    /\ teardown' = "idle"
    /\ LET clean == ~failed
       IN /\ phase' = IF clean THEN "stopped_clean" ELSE "stopped_fatal"
          /\ stop' = [stop EXCEPT ![owner] = IF clean THEN "clean" ELSE "error"]
    /\ UNCHANGED <<fatal, stopping, activation, readiness, shutdown, held, mu, startup,
                   owner, failed, closed, probeStop, producer, http, traffic>>

finishStop ==
    /\ teardown = "finish" /\ ~ByRollback /\ mu = "free"
    /\ teardown' = "idle"
    /\ LET clean == ~failed /\ phase # "stopping_fatal"
       IN /\ phase' = IF clean THEN "stopped_clean" ELSE "stopped_fatal"
          /\ stop' = [stop EXCEPT ![owner] = IF clean THEN "clean" ELSE "error"]
    /\ UNCHANGED <<fatal, stopping, activation, readiness, shutdown, held, mu, startup,
                   owner, failed, closed, probeStop, producer, http, traffic>>

TeardownStep ==
    \/ Reject \/ RejectFails \/ closeListener \/ Abandon("listener")
    \/ JoinServe \/ Abandon("join") \/ Shutdown \/ Drained \/ DrainExpires
    \/ ForceClose \/ Abandon("force") \/ WaitHandlers \/ Abandon("handlers")
    \/ StopProbe \/ JoinProbe \/ Abandon("probe_join")
    \/ Close("replay", "material") \/ Close("material", "finish")
    \/ FinishRollback \/ finishStop

----------------------------------------------------------------------------
Notification(p) == Returned(p) \/ Terminalize(p) \/ Flag(p) \/ NotifyServeReturn(p)

ProducerStep ==
    \/ \E p \in Producers : Notification(p)
    \/ publishServeTermination \/ ServeDone \/ ProbeDone

RequestStep(r) == Connect(r) \/ Enter(r) \/ register(r) \/ release(r) \/ NotifyFatal(r)

StopStep(c) == beginStop(c) \/ Elected(c) \/ Joined(c) \/ JoinExpires(c)

Next ==
    \/ StartStep \/ TeardownStep \/ ProducerStep \/ ServeReturns \/ ProbeReturns
    \/ \E r \in Requests : RequestStep(r)
    \/ \E c \in Stoppers : StopStep(c)

Spec == Init /\ [][Next]_vars

\* What the goroutines of the daemon do by themselves.
SystemStep ==
    \/ start # "idle" /\ StartStep
    \/ TeardownStep \/ ProducerStep
    \/ ~listening /\ ServeReturns
    \/ probeStop /\ ProbeReturns
    \/ \E c \in Stoppers : stop[c] # "idle" /\ StopStep(c)

\* The goroutines run, and the timers that bound their waits fire.  Each step of
\* SystemStep happens at most once, so fairness of all of them together is
\* fairness of each.  Nothing is assumed of the clients, of a handler that
\* computes, or of a caller that has not called Stop; a producer is only known
\* to return once it is told to.
Fairness ==
    /\ WF_vars(SystemStep)
    /\ \A r \in Requests : WF_vars(notice[r] # "none" /\ NotifyFatal(r))

FairSpec == Spec /\ Fairness

----------------------------------------------------------------------------
Phases == {"new", "starting", "committing", "activating", "running", "fatal",
           "stopping_clean", "stopping_fatal", "stopped_clean", "stopped_fatal"}
Final == {"replay", "material"}

\* Every word of the shared state keeps to its range.
TypeOK ==
    /\ phase \in Phases
    /\ {fatal, stopping, shutdown, held, sampled, failed, probeStop, listening,
        draining} \subseteq BOOLEAN
    /\ activation \in {"inactive", "armed", "claimed", "published", "terminal"}
    /\ readiness \in {"booting", "ready", "fatal", "stopping_clean", "stopping_fatal"}
    /\ owned \subseteq {"replay", "probe", "http", "material"} /\ closed \subseteq Final
    /\ gate \in {"bootstrapping", "open", "stopped"}
    /\ server \in {"bootstrapping", "active", "stopping"}
    /\ mu \in {"free", "start", "stop"}

\* What Readiness.Ready answers, the authority aside.
Ready == readiness = "ready" /\ ~fatal

\* The daemon says it is ready only while it serves: its owners are transferred
\* and open, handlers register, the accept loop has not handed over its end,
\* and the probe has not gone unnoticed.  It may take one instant of a Stop,
\* between the stopping flag and the readiness word, to withdraw.
ReadyMeansServing ==
    Ready /\ ~stopping =>
        /\ phase = "running" /\ held /\ closed = {}
        /\ gate = "open" /\ server = "active" /\ listening
        /\ producer["serve"] \notin {"none", "handoff", "returned", "done"}
        /\ producer["probe"] \notin {"gated", "handoff", "done"}

\* The replay store and the protected material are closed only when nobody can
\* reach them: no registered handler, no running probe, no accept loop, no open
\* gate.  This is what the joins of stopOwned and rollbackOwners, and their
\* early returns, are for.
NoUseAfterClose ==
    closed # {} =>
        /\ gate # "open" /\ \A r \in Requests : request[r] # "active"
        /\ producer["probe"] \in {"none", "done"} /\ producer["serve"] \in {"none", "done"}

\* A stop that reports success lost no fatal event: none was published, none is
\* on its way, and every owner was released.
CleanStopLostNothing ==
    phase = "stopped_clean" =>
        /\ ~fatal /\ \A r \in Requests : notice[r] = "none"
        /\ \A p \in Producers : producer[p] \in {"none", "done"}
        /\ closed = Final

\* A Stop call that ran beginStop is final: no startup publishes a running
\* daemon behind its back.
StopIsFinal ==
    [][phase # "running" /\ phase' = "running" =>
         \A c \in Stoppers : stop[c] = "idle"]_vars

\* Every call of Start and Stop returns, whatever clients and handlers do.
InCall ==
    startupInProgress \/ \E c \in Stoppers : stop[c] \notin {"idle", "clean", "error"}

CallsReturn == InCall ~> ~InCall

============================================================================
