------------------------ MODULE DaemonLifecycleProofs ------------------------
(***************************************************************************)
(* Proofs about the application lifecycle of dkim2d, for any number of     *)
(* requests and of callers of Stop.                                        *)
(*                                                                         *)
(* The inductive invariant has five parts.  Turns says who may run:        *)
(* startup, one teardown, the one elected stop.  Resources says what a     *)
(* startup at a given place has acquired.  Unwound says what each place of *)
(* the teardown has already proved about handlers and goroutines.          *)
(* Published says what the published words promise as long as neither the  *)
(* fatal nor the stopping flag is up.  Accounted says that a fatal flag    *)
(* has either reached the phase or is about to.                            *)
(***************************************************************************)
EXTENDS DaemonLifecycle, TLAPS

\* Places of Start, by what must have happened before.
Unserved  == {"idle", "install", "replay", "assemble", "bind", "serve"}
Replaying == {"assemble", "bind"}
Bound     == {"serve", "probe", "commit", "enter", "transfer", "committed", "ungate", "arm",
              "open", "recheck", "activated", "publish", "ready", "reread", "started"}
Served    == Bound \ {"serve"}
Kept      == {"ungate", "arm", "open", "recheck", "activated", "publish", "ready", "reread",
              "started"}
Ungated   == Kept \ {"ungate"}
Opened    == {"activated", "publish", "ready", "reread", "started"}
Holding   == {"ready", "reread", "started"}
Settled   == {"idle", "started", "failed"}
Starts    == Settled \cup Replaying \cup Bound \cup {"install", "replay", "fail", "rollback"}

FatalPhases    == {"fatal", "stopping_fatal", "stopped_fatal"}
StoppingPhases == {"stopping_clean", "stopping_fatal"}
StoppedPhases  == {"stopped_clean", "stopped_fatal"}

Ended == {"none", "done"}           \* a goroutine that does not run
AfterCheck == {"lock", "handoff", "returned", "done"}

FlagTypes ==
    /\ fatal \in BOOLEAN /\ stopping \in BOOLEAN /\ shutdown \in BOOLEAN /\ held \in BOOLEAN
    /\ sampled \in BOOLEAN /\ failed \in BOOLEAN /\ probeStop \in BOOLEAN
    /\ listening \in BOOLEAN /\ draining \in BOOLEAN
WordTypes ==
    /\ phase \in Phases
    /\ activation \in {"inactive", "armed", "claimed", "published", "terminal"}
    /\ readiness \in {"booting", "ready", "fatal", "stopping_clean", "stopping_fatal"}
    /\ owned \subseteq {"replay", "probe", "http", "material"} /\ closed \subseteq Final
    /\ gate \in {"bootstrapping", "open", "stopped"}
    /\ server \in {"bootstrapping", "active", "stopping"} /\ mu \in {"free", "start", "stop"}
PlaceTypes ==
    /\ start \in Starts
    /\ stop \in [Stoppers -> {"idle", "elected", "owner", "join_start", "join_stop",
                              "clean", "error"}]
    /\ teardown \in {"idle", "reject", "listener", "join", "shutdown", "drain", "force",
                     "handlers", "probe", "probe_join", "replay", "material", "finish"}
    /\ owner \in Stoppers \cup {"nobody", "rollback"}
    /\ producer \in [Producers -> {"none", "gated", "up", "check", "store", "flag"}
                                  \cup AfterCheck]
    /\ request \in [Requests -> {"none", "kept", "entering", "active", "refused"}]
    /\ notice \in [Requests -> {"none", "store", "flag", "lock"}]
Types == FlagTypes /\ WordTypes /\ PlaceTypes

Turns ==
    /\ start \notin Settled => /\ phase \in {"starting", "committing", "activating", "running", "fatal"}
                               /\ ~stopping /\ mu # "stop"
    /\ start \in {"ready", "reread"} => mu = "start" /\ phase = "running"
    /\ phase = "new" => start = "idle"
    /\ held <=> start \in Holding
    /\ stopping <=> phase \in StoppingPhases \cup StoppedPhases
    /\ start = "rollback" <=> teardown # "idle" /\ owner = "rollback"
    /\ teardown # "idle" /\ owner # "rollback" =>
          owner \in Stoppers /\ phase \in StoppingPhases /\ \A c \in Stoppers : stop[c] # "elected"
    /\ closed # {} => start \in {"rollback", "failed"} \/ stopping
    /\ \A c \in Stoppers : stop[c] = "elected" => /\ mu = "stop" /\ teardown = "idle"
                                                  /\ phase \in StoppingPhases
    /\ \A c, d \in Stoppers : stop[c] = "elected" /\ stop[d] = "elected" => c = d
    /\ (\E c \in Stoppers : stop[c] # "idle") => phase \in FatalPhases \cup StoppingPhases \cup StoppedPhases

Resources ==
    /\ start \in Bound \/ gate # "bootstrapping" \/ producer["serve"] # "none" => "http" \in owned
    /\ start \in Replaying \cup Bound => "replay" \in owned
    /\ start \in Kept \/ (start = "committed" /\ sampled) => "material" \in owned
    /\ start \in Unserved => producer["serve"] = "none"
    /\ start \in Unserved \cup {"probe"} => producer["probe"] = "none"
    /\ start \in Served => producer["serve"] # "none"
    /\ gate = "bootstrapping" => \A r \in Requests : request[r] # "active"
    /\ \A r \in Requests : notice[r] # "none" => request[r] \in {"active", "refused"}

\* Nobody can reach what the teardown closes.
Unreachable == /\ gate # "open" /\ \A r \in Requests : request[r] # "active"
               /\ producer["probe"] \in Ended /\ producer["serve"] \in Ended

HttpPlaces == {"listener", "join", "shutdown", "drain", "force", "handlers"}
Unwound ==
    /\ teardown \in {"replay", "material"} \/ closed # {} => Unreachable
    /\ teardown \in {"shutdown", "drain", "force", "handlers"} => producer["serve"] \in Ended
    /\ ByRollback /\ teardown \in {"probe", "probe_join"} /\ ~failed /\ "http" \in owned =>
          gate = "stopped"
    /\ ByRollback /\ teardown \in HttpPlaces => gate = "stopped" /\ producer["probe"] \in Ended
    /\ ~ByRollback /\ teardown \notin {"idle", "reject", "finish"} => gate = "stopped" /\ held
    /\ ~ByRollback /\ teardown \in {"probe", "probe_join"} =>
          producer["serve"] \in Ended /\ \A r \in Requests : request[r] # "active"

Published ==
    /\ \A p \in Producers : producer[p] \in AfterCheck => fatal \/ stopping
    /\ start \in Bound /\ ~fatal /\ ~stopping => listening
    /\ start \in Opened /\ ~fatal /\ ~stopping => gate = "open" /\ server = "active"
    /\ start \in Holding /\ ~fatal /\ ~stopping => phase = "running"
    /\ start \in Ungated => producer["probe"] # "gated"
    /\ readiness = "ready" => start \in {"reread", "started"}

Unfailed(places) == ~ByRollback /\ ~failed /\ teardown \in places
Accounted ==
    /\ fatal => \/ phase \in FatalPhases \/ \E p \in Producers : producer[p] = "lock"
                \/ \E r \in Requests : notice[r] = "lock"
    /\ teardown \in {"force", "handlers"} => failed
    /\ Unfailed({"probe", "probe_join", "replay", "material", "finish"}) =>
          producer["serve"] \in Ended /\ \A r \in Requests : request[r] = "none"
    /\ Unfailed({"replay", "material", "finish"}) => producer["probe"] \in Ended
    /\ Unfailed({"material", "finish"}) => "replay" \in closed
    /\ Unfailed({"finish"}) => "material" \in closed
    /\ phase = "stopped_clean" =>
          /\ ~fatal /\ closed = Final /\ \A p \in Producers : producer[p] \in Ended
          /\ \A r \in Requests : request[r] = "none"

IInv == Types /\ Turns /\ Resources /\ Unwound /\ Published /\ Accounted

USE DEF words, startup, stops, http, traffic


\* Every step of Start preserves the invariant, the fatal event that falls between two
\* of its steps included.
LEMMA StartStepIInv ==
    ASSUME IInv, StartStep
    PROVE  IInv'
<1>0. Types /\ Turns /\ Resources /\ Unwound /\ Published /\ Accounted
  BY DEF IInv
<1>1. CASE beginStart
  <2>1. FlagTypes'
    BY <1>0, <1>1 DEF beginStart, StartAt, FlagTypes, Types
  <2>2. WordTypes'
    BY <1>0, <1>1 DEF beginStart, StartAt, WordTypes, Phases, Final, Types
  <2>3. PlaceTypes'
    BY <1>0, <1>1 DEF beginStart, StartAt, PlaceTypes, Starts, Settled, Replaying, Bound, Types,
       Turns
  <2>4. Turns'
    BY <1>0, <1>1 DEF beginStart, StartAt, Turns, Settled, Holding, StoppingPhases,
       StoppedPhases, FatalPhases
  <2>5. Resources'
    BY <1>0, <1>1 DEF beginStart, StartAt, Resources, Unserved, Replaying, Bound, Served, Kept
  <2>6. Unwound'
    BY <1>0, <1>1 DEF beginStart, StartAt, Unwound, Unreachable, ByRollback, HttpPlaces, Ended,
       Producers
  <2>7. Published'
    BY <1>0, <1>1 DEF beginStart, StartAt, Published, Bound, Opened, Holding, Ungated, Kept
  <2>8. Accounted'
    BY <1>0, <1>1 DEF beginStart, StartAt, Accounted, Unfailed, ByRollback, FatalPhases
  <2> QED
    BY <2>1, <2>2, <2>3, <2>4, <2>5, <2>6, <2>7, <2>8 DEF IInv, Types
<1>2. CASE InstallCancel
  <2>1. FlagTypes'
    BY <1>0, <1>2 DEF InstallCancel, StartAt, FlagTypes, Types
  <2>2. WordTypes'
    BY <1>0, <1>2 DEF InstallCancel, StartAt, WordTypes, Types
  <2>3. PlaceTypes'
    BY <1>0, <1>2 DEF InstallCancel, StartAt, PlaceTypes, Starts, Replaying, Bound, Types
  <2>4. Turns'
    BY <1>0, <1>2 DEF InstallCancel, StartAt, Turns, Settled, Holding, StoppingPhases,
       StoppedPhases, FatalPhases
  <2>5. Resources'
    BY <1>0, <1>2 DEF InstallCancel, StartAt, Resources, Unserved, Replaying, Bound, Served,
       Kept
  <2>6. Unwound'
    BY <1>0, <1>2 DEF InstallCancel, StartAt, Unwound, Unreachable, HttpPlaces, Ended, Turns,
       Settled
  <2>7. Published'
    BY <1>0, <1>2 DEF InstallCancel, StartAt, Published, Bound, Opened, Holding, Ungated, Kept
  <2>8. Accounted'
    BY <1>0, <1>2 DEF InstallCancel, StartAt, Accounted, Unfailed, ByRollback
  <2> QED
    BY <2>1, <2>2, <2>3, <2>4, <2>5, <2>6, <2>7, <2>8 DEF IInv, Types
<1>3. CASE acquireProtocol
  <2>1. FlagTypes'
    BY <1>0, <1>3 DEF acquireProtocol, Acquire, FlagTypes, Types
  <2>2. WordTypes'
    <3>1. owned' = owned \/ owned' = owned \cup {"replay"}
      BY <1>3 DEF acquireProtocol, Acquire
    <3>2. owned' \subseteq {"replay", "probe", "http", "material"}
      BY <1>0, <3>1 DEF Types, WordTypes
    <3> QED
      BY <1>0, <1>3, <3>2 DEF acquireProtocol, WordTypes, Phases, Final, Types
  <2>3. PlaceTypes'
    BY <1>0, <1>3 DEF acquireProtocol, Acquire, PlaceTypes, Starts, Replaying, Bound, Types
  <2>4. Turns'
    BY <1>0, <1>3 DEF acquireProtocol, Acquire, Turns, Settled, Holding, StoppingPhases,
       StoppedPhases, FatalPhases
  <2>5. Resources'
    BY <1>0, <1>3 DEF acquireProtocol, Acquire, Resources, Unserved, Replaying, Bound, Served,
       Kept
  <2>6. Unwound'
    BY <1>0, <1>3 DEF acquireProtocol, Acquire, Unwound, Unreachable, HttpPlaces, Ended, Turns,
       Settled
  <2>7. Published'
    BY <1>0, <1>3 DEF acquireProtocol, Acquire, Published, Bound, Opened, Holding, Ungated, Kept
  <2>8. Accounted'
    BY <1>0, <1>3 DEF acquireProtocol, Acquire, Accounted, Unfailed, ByRollback
  <2> QED
    BY <2>1, <2>2, <2>3, <2>4, <2>5, <2>6, <2>7, <2>8 DEF IInv, Types
<1>4. CASE assembleApplication
  <2>1. FlagTypes'
    BY <1>0, <1>4 DEF assembleApplication, Acquire, FlagTypes, Types
  <2>2. WordTypes'
    BY <1>0, <1>4 DEF assembleApplication, Acquire, WordTypes, Types
  <2>3. PlaceTypes'
    BY <1>0, <1>4 DEF assembleApplication, Acquire, PlaceTypes, Starts, Replaying, Bound, Types
  <2>4. Turns'
    BY <1>0, <1>4 DEF assembleApplication, Acquire, Turns, Settled, Holding, StoppingPhases,
       StoppedPhases, FatalPhases
  <2>5. Resources'
    BY <1>0, <1>4 DEF assembleApplication, Acquire, Resources, Unserved, Replaying, Bound,
       Served, Kept
  <2>6. Unwound'
    BY <1>0, <1>4 DEF assembleApplication, Acquire, Unwound, Unreachable, HttpPlaces, Ended,
       Turns, Settled
  <2>7. Published'
    BY <1>0, <1>4 DEF assembleApplication, Acquire, Published, Bound, Opened, Holding, Ungated,
       Kept
  <2>8. Accounted'
    BY <1>0, <1>4 DEF assembleApplication, Acquire, Accounted, Unfailed, ByRollback
  <2> QED
    BY <2>1, <2>2, <2>3, <2>4, <2>5, <2>6, <2>7, <2>8 DEF IInv, Types
<1>5. CASE bindTransport
  <2>1. FlagTypes'
    BY <1>0, <1>5 DEF bindTransport, Acquire, FlagTypes, Types
  <2>2. WordTypes'
    <3>1. owned' = owned \/ owned' = owned \cup {"http"}
      BY <1>5 DEF bindTransport, Acquire
    <3>2. owned' \subseteq {"replay", "probe", "http", "material"}
      BY <1>0, <3>1 DEF Types, WordTypes
    <3> QED
      BY <1>0, <1>5, <3>2 DEF bindTransport, WordTypes, Phases, Final, Types
  <2>3. PlaceTypes'
    BY <1>0, <1>5 DEF bindTransport, Acquire, PlaceTypes, Starts, Replaying, Bound, Types
  <2>4. Turns'
    BY <1>0, <1>5 DEF bindTransport, Acquire, Turns, Settled, Holding, StoppingPhases,
       StoppedPhases, FatalPhases
  <2>5. Resources'
    BY <1>0, <1>5 DEF bindTransport, Acquire, Resources, Unserved, Replaying, Bound, Served,
       Kept
  <2>6. Unwound'
    BY <1>0, <1>5 DEF bindTransport, Acquire, Unwound, Unreachable, HttpPlaces, Ended, Turns,
       Settled
  <2>7. Published'
    BY <1>0, <1>5 DEF bindTransport, Acquire, Published, Bound, Opened, Holding, Ungated, Kept
  <2>8. Accounted'
    BY <1>0, <1>5 DEF bindTransport, Acquire, Accounted, Unfailed, ByRollback
  <2> QED
    BY <2>1, <2>2, <2>3, <2>4, <2>5, <2>6, <2>7, <2>8 DEF IInv, Types
<1>6. CASE startServe
  <2>1. FlagTypes'
    BY <1>0, <1>6 DEF startServe, FlagTypes, Types
  <2>2. WordTypes'
    BY <1>0, <1>6 DEF startServe, WordTypes, Types
  <2>3. PlaceTypes'
    BY <1>0, <1>6 DEF startServe, PlaceTypes, Starts, Replaying, Bound, Types
  <2>4. Turns'
    BY <1>0, <1>6 DEF startServe, Turns, Settled, Holding, StoppingPhases, StoppedPhases,
       FatalPhases
  <2>5. Resources'
    BY <1>0, <1>6 DEF startServe, Resources, Unserved, Replaying, Bound, Served, Kept, Types,
       FlagTypes, PlaceTypes, ByRollback, Producers
  <2>6. Unwound'
    BY <1>0, <1>6 DEF startServe, Unwound, Unreachable, HttpPlaces, Ended, Turns, Settled
  <2>7. Published'
    BY <1>0, <1>6 DEF startServe, Published, Bound, Opened, Holding, Ungated, Kept, AfterCheck
  <2>8. Accounted'
    BY <1>0, <1>6 DEF startServe, Accounted, Unfailed, Turns, Settled, Resources, Unserved
  <2> QED
    BY <2>1, <2>2, <2>3, <2>4, <2>5, <2>6, <2>7, <2>8 DEF IInv, Types
<1>7. CASE startHealthProbe
  <2>1. FlagTypes'
    BY <1>0, <1>7 DEF startHealthProbe, Serving, FlagTypes, Types
  <2>2. WordTypes'
    BY <1>0, <1>7 DEF startHealthProbe, Serving, WordTypes, Types
  <2>3. PlaceTypes'
    BY <1>0, <1>7 DEF startHealthProbe, Serving, PlaceTypes, Starts, Replaying, Bound, Types
  <2>4. Turns'
    BY <1>0, <1>7 DEF startHealthProbe, Serving, Turns, Settled, Holding, StoppingPhases,
       StoppedPhases, FatalPhases
  <2>5. Resources'
    BY <1>0, <1>7 DEF startHealthProbe, Serving, Resources, Unserved, Replaying, Bound, Served,
       Kept, Types, FlagTypes, PlaceTypes, ByRollback, Producers
  <2>6. Unwound'
    BY <1>0, <1>7 DEF startHealthProbe, Serving, Unwound, Unreachable, HttpPlaces, Ended, Turns,
       Settled
  <2>7. Published'
    BY <1>0, <1>7 DEF startHealthProbe, Serving, Published, Bound, Opened, Holding, Ungated,
       Kept, AfterCheck, Types, PlaceTypes
  <2>8. Accounted'
    BY <1>0, <1>7 DEF startHealthProbe, Serving, Accounted, Unfailed, ByRollback, Ended, Types,
       PlaceTypes, Producers, Resources
  <2> QED
    BY <2>1, <2>2, <2>3, <2>4, <2>5, <2>6, <2>7, <2>8 DEF IInv, Types
<1>8. CASE Sample("commit", "enter")
  <2>1. FlagTypes'
    BY <1>0, <1>8 DEF Sample, StartAt, FlagTypes, Types
  <2>2. WordTypes'
    BY <1>0, <1>8 DEF Sample, StartAt, WordTypes, Types
  <2>3. PlaceTypes'
    BY <1>0, <1>8 DEF Sample, StartAt, PlaceTypes, Starts, Replaying, Bound, Types
  <2>4. Turns'
    BY <1>0, <1>8 DEF Sample, StartAt, Turns, Settled, Holding, StoppingPhases, StoppedPhases,
       FatalPhases
  <2>5. Resources'
    BY <1>0, <1>8 DEF Sample, StartAt, Resources, Unserved, Replaying, Bound, Served, Kept
  <2>6. Unwound'
    BY <1>0, <1>8 DEF Sample, StartAt, Unwound, Unreachable, HttpPlaces, Ended, Turns, Settled
  <2>7. Published'
    BY <1>0, <1>8 DEF Sample, StartAt, Published, Bound, Opened, Holding, Ungated, Kept
  <2>8. Accounted'
    BY <1>0, <1>8 DEF Sample, StartAt, Accounted, Unfailed, ByRollback
  <2> QED
    BY <2>1, <2>2, <2>3, <2>4, <2>5, <2>6, <2>7, <2>8 DEF IInv, Types
<1>9. CASE enterCommit
  <2>1. FlagTypes'
    BY <1>0, <1>9 DEF enterCommit, transitionFatalLocked, FlagTypes, Types
  <2>2. WordTypes'
    BY <1>0, <1>9 DEF enterCommit, transitionFatalLocked, FatalPhase, Withdrawn, WordTypes,
       Phases, Final, Types
  <2>3. PlaceTypes'
    BY <1>0, <1>9 DEF enterCommit, transitionFatalLocked, PlaceTypes, Starts, Replaying, Bound,
       Types
  <2>4. Turns'
    BY <1>0, <1>9 DEF enterCommit, transitionFatalLocked, FatalPhase, Withdrawn, Turns, Settled,
       Holding, StoppingPhases, StoppedPhases, FatalPhases
  <2>5. Resources'
    BY <1>0, <1>9 DEF enterCommit, transitionFatalLocked, Resources, Unserved, Replaying, Bound,
       Served, Kept
  <2>6. Unwound'
    BY <1>0, <1>9 DEF enterCommit, transitionFatalLocked, Unwound, Unreachable, HttpPlaces,
       Ended, Turns, Settled
  <2>7. Published'
    BY <1>0, <1>9 DEF enterCommit, transitionFatalLocked, Withdrawn, Published, Bound, Opened,
       Holding, Ungated, Kept
  <2>8. Accounted'
    BY <1>0, <1>9 DEF enterCommit, transitionFatalLocked, FatalPhase, Withdrawn, Accounted,
       Unfailed, ByRollback, FatalPhases
  <2> QED
    BY <2>1, <2>2, <2>3, <2>4, <2>5, <2>6, <2>7, <2>8 DEF IInv, Types
<1>10. CASE CommitRuntime
  <2>1. FlagTypes'
    BY <1>0, <1>10 DEF CommitRuntime, StartAt, FlagTypes, Types
  <2>2. WordTypes'
    <3>1. owned' = owned \/ owned' = owned \cup {"material"}
      BY <1>10 DEF CommitRuntime, StartAt
    <3>2. owned' \subseteq {"replay", "probe", "http", "material"}
      BY <1>0, <3>1 DEF Types, WordTypes
    <3> QED
      BY <1>0, <1>10, <3>2 DEF CommitRuntime, WordTypes, Phases, Final, Types, StartAt
  <2>3. PlaceTypes'
    BY <1>0, <1>10 DEF CommitRuntime, StartAt, PlaceTypes, Starts, Replaying, Bound, Types
  <2>4. Turns'
    BY <1>0, <1>10 DEF CommitRuntime, StartAt, Turns, Settled, Holding, StoppingPhases,
       StoppedPhases, FatalPhases
  <2>5. Resources'
    BY <1>0, <1>10 DEF CommitRuntime, StartAt, Resources, Unserved, Replaying, Bound, Served,
       Kept
  <2>6. Unwound'
    BY <1>0, <1>10 DEF CommitRuntime, StartAt, Unwound, Unreachable, HttpPlaces, Ended, Turns,
       Settled
  <2>7. Published'
    BY <1>0, <1>10 DEF CommitRuntime, StartAt, Published, Bound, Opened, Holding, Ungated, Kept
  <2>8. Accounted'
    BY <1>0, <1>10 DEF CommitRuntime, StartAt, Accounted, Unfailed, ByRollback
  <2> QED
    BY <2>1, <2>2, <2>3, <2>4, <2>5, <2>6, <2>7, <2>8 DEF IInv, Types
<1>11. CASE commitStartup
  <2>1. FlagTypes'
    BY <1>0, <1>11 DEF commitStartup, transitionFatalLocked, FlagTypes, Types
  <2>2. WordTypes'
    BY <1>0, <1>11 DEF commitStartup, transitionFatalLocked, FatalPhase, Withdrawn, WordTypes,
       Phases, Final, Types
  <2>3. PlaceTypes'
    BY <1>0, <1>11 DEF commitStartup, transitionFatalLocked, PlaceTypes, Starts, Replaying,
       Bound, Types
  <2>4. Turns'
    BY <1>0, <1>11 DEF commitStartup, transitionFatalLocked, FatalPhase, Withdrawn, Turns,
       Settled, Holding, StoppingPhases, StoppedPhases, FatalPhases
  <2>5. Resources'
    BY <1>0, <1>11 DEF commitStartup, transitionFatalLocked, Resources, Unserved, Replaying,
       Bound, Served, Kept
  <2>6. Unwound'
    BY <1>0, <1>11 DEF commitStartup, transitionFatalLocked, Unwound, Unreachable, HttpPlaces,
       Ended, Turns, Settled
  <2>7. Published'
    BY <1>0, <1>11 DEF commitStartup, transitionFatalLocked, Withdrawn, Published, Bound,
       Opened, Holding, Ungated, Kept
  <2>8. Accounted'
    BY <1>0, <1>11 DEF commitStartup, transitionFatalLocked, FatalPhase, Withdrawn, Accounted,
       Unfailed, ByRollback, FatalPhases
  <2> QED
    BY <2>1, <2>2, <2>3, <2>4, <2>5, <2>6, <2>7, <2>8 DEF IInv, Types
<1>12. CASE ActivateProbe
  <2>1. FlagTypes'
    BY <1>0, <1>12 DEF ActivateProbe, FlagTypes, Types
  <2>2. WordTypes'
    BY <1>0, <1>12 DEF ActivateProbe, WordTypes, Types
  <2>3. PlaceTypes'
    BY <1>0, <1>12 DEF ActivateProbe, PlaceTypes, Starts, Replaying, Bound, Types
  <2>4. Turns'
    BY <1>0, <1>12 DEF ActivateProbe, Turns, Settled, Holding, StoppingPhases, StoppedPhases,
       FatalPhases
  <2>5. Resources'
    BY <1>0, <1>12 DEF ActivateProbe, Resources, Unserved, Replaying, Bound, Served, Kept
  <2>6. Unwound'
    BY <1>0, <1>12 DEF ActivateProbe, Unwound, Unreachable, HttpPlaces, Ended, Turns, Settled
  <2>7. Published'
    BY <1>0, <1>12 DEF ActivateProbe, Published, Bound, Opened, Holding, Ungated, Kept,
       AfterCheck, Types, PlaceTypes, Producers
  <2>8. Accounted'
    BY <1>0, <1>12 DEF ActivateProbe, Accounted, Unfailed, ByRollback, Ended
  <2> QED
    BY <2>1, <2>2, <2>3, <2>4, <2>5, <2>6, <2>7, <2>8 DEF IInv, Types
<1>13. CASE Arm
  <2>1. FlagTypes'
    BY <1>0, <1>13 DEF Arm, FlagTypes, Types
  <2>2. WordTypes'
    BY <1>0, <1>13 DEF Arm, WordTypes, Types
  <2>3. PlaceTypes'
    BY <1>0, <1>13 DEF Arm, PlaceTypes, Starts, Replaying, Bound, Types
  <2>4. Turns'
    BY <1>0, <1>13 DEF Arm, Turns, Settled, Holding, StoppingPhases, StoppedPhases, FatalPhases
  <2>5. Resources'
    BY <1>0, <1>13 DEF Arm, Resources, Unserved, Replaying, Bound, Served, Kept
  <2>6. Unwound'
    BY <1>0, <1>13 DEF Arm, Unwound, Unreachable, HttpPlaces, Ended, Turns, Settled
  <2>7. Published'
    BY <1>0, <1>13 DEF Arm, Published, Bound, Opened, Holding, Ungated, Kept
  <2>8. Accounted'
    BY <1>0, <1>13 DEF Arm, Accounted, Unfailed, ByRollback
  <2> QED
    BY <2>1, <2>2, <2>3, <2>4, <2>5, <2>6, <2>7, <2>8 DEF IInv, Types
<1>14. CASE AllowHTTPActivation
  <2>1. FlagTypes'
    BY <1>0, <1>14 DEF AllowHTTPActivation, Serving, FlagTypes, Types
  <2>2. WordTypes'
    BY <1>0, <1>14 DEF AllowHTTPActivation, Serving, WordTypes, Types
  <2>3. PlaceTypes'
    BY <1>0, <1>14 DEF AllowHTTPActivation, Serving, PlaceTypes, Starts, Replaying, Bound, Types
  <2>4. Turns'
    BY <1>0, <1>14 DEF AllowHTTPActivation, Serving, Turns, Settled, Holding, StoppingPhases,
       StoppedPhases, FatalPhases
  <2>5. Resources'
    BY <1>0, <1>14 DEF AllowHTTPActivation, Serving, Resources, Unserved, Replaying, Bound,
       Served, Kept
  <2>6. Unwound'
    BY <1>0, <1>14 DEF AllowHTTPActivation, Serving, Unwound, Unreachable, HttpPlaces, Ended,
       Turns, Settled
  <2>7. Published'
    BY <1>0, <1>14 DEF AllowHTTPActivation, Serving, Published, Bound, Opened, Holding, Ungated,
       Kept
  <2>8. Accounted'
    BY <1>0, <1>14 DEF AllowHTTPActivation, Serving, Accounted, Unfailed, ByRollback
  <2> QED
    BY <2>1, <2>2, <2>3, <2>4, <2>5, <2>6, <2>7, <2>8 DEF IInv, Types
<1>15. CASE Open
  <2>1. FlagTypes'
    BY <1>0, <1>15 DEF Open, FlagTypes, Types
  <2>2. WordTypes'
    BY <1>0, <1>15 DEF Open, WordTypes, Types
  <2>3. PlaceTypes'
    BY <1>0, <1>15 DEF Open, PlaceTypes, Starts, Replaying, Bound, Types
  <2>4. Turns'
    BY <1>0, <1>15 DEF Open, Turns, Settled, Holding, StoppingPhases, StoppedPhases, FatalPhases
  <2>5. Resources'
    BY <1>0, <1>15 DEF Open, Resources, Unserved, Replaying, Bound, Served, Kept
  <2>6. Unwound'
    BY <1>0, <1>15 DEF Open, Unwound, Unreachable, HttpPlaces, Ended, Turns, Settled
  <2>7. Published'
    BY <1>0, <1>15 DEF Open, Published, Bound, Opened, Holding, Ungated, Kept
  <2>8. Accounted'
    BY <1>0, <1>15 DEF Open, Accounted, Unfailed, ByRollback
  <2> QED
    BY <2>1, <2>2, <2>3, <2>4, <2>5, <2>6, <2>7, <2>8 DEF IInv, Types
<1>16. CASE Sample("activated", "publish")
  <2>1. FlagTypes'
    BY <1>0, <1>16 DEF Sample, StartAt, FlagTypes, Types
  <2>2. WordTypes'
    BY <1>0, <1>16 DEF Sample, StartAt, WordTypes, Types
  <2>3. PlaceTypes'
    BY <1>0, <1>16 DEF Sample, StartAt, PlaceTypes, Starts, Replaying, Bound, Types
  <2>4. Turns'
    BY <1>0, <1>16 DEF Sample, StartAt, Turns, Settled, Holding, StoppingPhases, StoppedPhases,
       FatalPhases
  <2>5. Resources'
    BY <1>0, <1>16 DEF Sample, StartAt, Resources, Unserved, Replaying, Bound, Served, Kept
  <2>6. Unwound'
    BY <1>0, <1>16 DEF Sample, StartAt, Unwound, Unreachable, HttpPlaces, Ended, Turns, Settled
  <2>7. Published'
    BY <1>0, <1>16 DEF Sample, StartAt, Published, Bound, Opened, Holding, Ungated, Kept
  <2>8. Accounted'
    BY <1>0, <1>16 DEF Sample, StartAt, Accounted, Unfailed, ByRollback
  <2> QED
    BY <2>1, <2>2, <2>3, <2>4, <2>5, <2>6, <2>7, <2>8 DEF IInv, Types
<1>17. CASE publishStartup
  <2>1. FlagTypes'
    BY <1>0, <1>17 DEF publishStartup, transitionFatalLocked, FlagTypes, Types
  <2>2. WordTypes'
    BY <1>0, <1>17 DEF publishStartup, transitionFatalLocked, FatalPhase, Withdrawn, WordTypes,
       Phases, Final, Types
  <2>3. PlaceTypes'
    BY <1>0, <1>17 DEF publishStartup, transitionFatalLocked, PlaceTypes, Starts, Replaying,
       Bound, Types
  <2>4. Turns'
    BY <1>0, <1>17 DEF publishStartup, transitionFatalLocked, FatalPhase, Withdrawn, Turns,
       Settled, Holding, StoppingPhases, StoppedPhases, FatalPhases
  <2>5. Resources'
    BY <1>0, <1>17 DEF publishStartup, transitionFatalLocked, Resources, Unserved, Replaying,
       Bound, Served, Kept
  <2>6. Unwound'
    BY <1>0, <1>17 DEF publishStartup, transitionFatalLocked, Unwound, Unreachable, HttpPlaces,
       Ended, Turns, Settled
  <2>7. Published'
    BY <1>0, <1>17 DEF publishStartup, transitionFatalLocked, Withdrawn, Published, Bound,
       Opened, Holding, Ungated, Kept
  <2>8. Accounted'
    BY <1>0, <1>17 DEF publishStartup, transitionFatalLocked, FatalPhase, Withdrawn, Accounted,
       Unfailed, ByRollback, FatalPhases
  <2> QED
    BY <2>1, <2>2, <2>3, <2>4, <2>5, <2>6, <2>7, <2>8 DEF IInv, Types
<1>18. CASE publishReady
  <2>1. FlagTypes'
    BY <1>0, <1>18 DEF publishReady, WithdrawPublication, FlagTypes, Types
  <2>2. WordTypes'
    BY <1>0, <1>18 DEF publishReady, WithdrawPublication, Withdrawn, WordTypes, Phases, Final,
       Types
  <2>3. PlaceTypes'
    BY <1>0, <1>18 DEF publishReady, WithdrawPublication, PlaceTypes, Starts, Replaying, Bound,
       Types
  <2>4. Turns'
    BY <1>0, <1>18 DEF publishReady, WithdrawPublication, Turns, Holding, StoppingPhases,
       StoppedPhases, FatalPhases
  <2>5. Resources'
    BY <1>0, <1>18 DEF publishReady, WithdrawPublication, Resources, Unserved, Replaying, Bound,
       Served, Kept
  <2>6. Unwound'
    BY <1>0, <1>18 DEF publishReady, WithdrawPublication, Unwound, Unreachable, HttpPlaces,
       Ended, Turns, Settled
  <2>7. Published'
    BY <1>0, <1>18 DEF publishReady, WithdrawPublication, Withdrawn, Published, Bound, Opened,
       Holding, Ungated, Kept
  <2>8. Accounted'
    BY <1>0, <1>18 DEF publishReady, WithdrawPublication, Withdrawn, Accounted, Unfailed,
       ByRollback, FatalPhases
  <2> QED
    BY <2>1, <2>2, <2>3, <2>4, <2>5, <2>6, <2>7, <2>8 DEF IInv, Types
<1>19. CASE finishStartupLocked
  <2>1. FlagTypes'
    BY <1>0, <1>19 DEF finishStartupLocked, WithdrawPublication, FlagTypes, Types
  <2>2. WordTypes'
    BY <1>0, <1>19 DEF finishStartupLocked, WithdrawPublication, Withdrawn, WordTypes, Phases,
       Final, Types
  <2>3. PlaceTypes'
    BY <1>0, <1>19 DEF finishStartupLocked, WithdrawPublication, PlaceTypes, Starts, Replaying,
       Bound, Types
  <2>4. Turns'
    BY <1>0, <1>19 DEF finishStartupLocked, WithdrawPublication, Turns, Holding, StoppingPhases,
       StoppedPhases, FatalPhases
  <2>5. Resources'
    BY <1>0, <1>19 DEF finishStartupLocked, WithdrawPublication, Resources, Unserved, Replaying,
       Bound, Served, Kept
  <2>6. Unwound'
    BY <1>0, <1>19 DEF finishStartupLocked, WithdrawPublication, Unwound, Unreachable,
       HttpPlaces, Ended, Turns, Settled
  <2>7. Published'
    BY <1>0, <1>19 DEF finishStartupLocked, WithdrawPublication, Withdrawn, Published, Bound,
       Opened, Holding, Ungated, Kept
  <2>8. Accounted'
    BY <1>0, <1>19 DEF finishStartupLocked, WithdrawPublication, Withdrawn, Accounted, Unfailed,
       ByRollback, FatalPhases
  <2> QED
    BY <2>1, <2>2, <2>3, <2>4, <2>5, <2>6, <2>7, <2>8 DEF IInv, Types
<1>20. CASE markStartupFailed
  <2>1. FlagTypes'
    BY <1>0, <1>20 DEF markStartupFailed, StartAt, transitionFatalLocked, FlagTypes, Types
  <2>2. WordTypes'
    BY <1>0, <1>20 DEF markStartupFailed, StartAt, transitionFatalLocked, FatalPhase, Withdrawn,
       WordTypes, Phases, Final, Types
  <2>3. PlaceTypes'
    BY <1>0, <1>20 DEF markStartupFailed, StartAt, transitionFatalLocked, PlaceTypes, Starts,
       Replaying, Bound, Types
  <2>4. Turns'
    BY <1>0, <1>20 DEF markStartupFailed, StartAt, transitionFatalLocked, FatalPhase, Withdrawn,
       Turns, Settled, Holding, StoppingPhases, StoppedPhases, FatalPhases
  <2>5. Resources'
    BY <1>0, <1>20 DEF markStartupFailed, StartAt, transitionFatalLocked, Resources, Unserved,
       Replaying, Bound, Served, Kept
  <2>6. Unwound'
    BY <1>0, <1>20 DEF markStartupFailed, StartAt, transitionFatalLocked, Unwound, Unreachable,
       HttpPlaces, Ended
  <2>7. Published'
    BY <1>0, <1>20 DEF markStartupFailed, StartAt, transitionFatalLocked, Withdrawn, Published,
       Opened, Holding, Ungated, Kept
  <2>8. Accounted'
    BY <1>0, <1>20 DEF markStartupFailed, StartAt, transitionFatalLocked, FatalPhase, Withdrawn,
       Accounted, Unfailed, FatalPhases
  <2> QED
    BY <2>1, <2>2, <2>3, <2>4, <2>5, <2>6, <2>7, <2>8 DEF IInv, Types
<1> QED
  BY <1>1, <1>2, <1>3, <1>4, <1>5, <1>6, <1>7, <1>8, <1>9, <1>10, <1>11, <1>12, <1>13, <1>14,
     <1>15, <1>16, <1>17, <1>18, <1>19, <1>20 DEF StartStep

\* Every step of the ordered teardown preserves the invariant, whichever of its waits
\* ran out before.
LEMMA TeardownStepIInv ==
    ASSUME IInv, TeardownStep
    PROVE  IInv'
<1>0. Types /\ Turns /\ Resources /\ Unwound /\ Published /\ Accounted
  BY DEF IInv
<1>1. CASE Reject
  <2>1. FlagTypes'
    BY <1>0, <1>1 DEF Reject, Teardown, AfterReject, OwnsHttp, FlagTypes, Types
  <2>2. WordTypes'
    BY <1>0, <1>1 DEF Reject, Teardown, AfterReject, OwnsHttp, WordTypes, Types
  <2>3. PlaceTypes'
    BY <1>0, <1>1 DEF Reject, Teardown, AfterReject, OwnsHttp, PlaceTypes, Types
  <2>4. Turns'
    BY <1>0, <1>1 DEF Reject, Teardown, AfterReject, OwnsHttp, Turns
  <2>5. Resources'
    BY <1>0, <1>1 DEF Reject, Teardown, AfterReject, OwnsHttp, Resources, Replaying, Bound,
       Served, Kept, Holding, Turns
  <2>6. Unwound'
    BY <1>0, <1>1 DEF Reject, Teardown, AfterReject, OwnsHttp, Unwound, Unreachable, ByRollback,
       HttpPlaces, Ended, Producers
  <2>7. Published'
    BY <1>0, <1>1 DEF Reject, Teardown, AfterReject, OwnsHttp, Published, Opened, Holding,
       Ungated, Kept, Turns
  <2>8. Accounted'
    BY <1>0, <1>1 DEF Reject, Teardown, AfterReject, OwnsHttp, Accounted, Unfailed, ByRollback
  <2> QED
    BY <2>1, <2>2, <2>3, <2>4, <2>5, <2>6, <2>7, <2>8 DEF IInv, Types
<1>2. CASE RejectFails
  <2>1. FlagTypes'
    BY <1>0, <1>2 DEF RejectFails, OwnsHttp, transitionFatalLocked, FlagTypes, Types
  <2>2. WordTypes'
    BY <1>0, <1>2 DEF RejectFails, OwnsHttp, transitionFatalLocked, FatalPhase, Withdrawn,
       WordTypes, Phases, Final, Types
  <2>3. PlaceTypes'
    BY <1>0, <1>2 DEF RejectFails, OwnsHttp, transitionFatalLocked, PlaceTypes, Types
  <2>4. Turns'
    BY <1>0, <1>2 DEF RejectFails, OwnsHttp, transitionFatalLocked, FatalPhase, Withdrawn,
       Turns, Holding, StoppingPhases, StoppedPhases, FatalPhases
  <2>5. Resources'
    BY <1>0, <1>2 DEF RejectFails, OwnsHttp, transitionFatalLocked, Resources
  <2>6. Unwound'
    BY <1>0, <1>2 DEF RejectFails, OwnsHttp, transitionFatalLocked, Unwound, Unreachable,
       ByRollback, HttpPlaces, Ended, Producers
  <2>7. Published'
    BY <1>0, <1>2 DEF RejectFails, OwnsHttp, transitionFatalLocked, Withdrawn, Published
  <2>8. Accounted'
    BY <1>0, <1>2 DEF RejectFails, OwnsHttp, transitionFatalLocked, FatalPhase, Withdrawn,
       Accounted, Unfailed, FatalPhases
  <2> QED
    BY <2>1, <2>2, <2>3, <2>4, <2>5, <2>6, <2>7, <2>8 DEF IInv, Types
<1>3. CASE closeListener
  <2>1. FlagTypes'
    BY <1>0, <1>3 DEF closeListener, Teardown, FlagTypes, Types
  <2>2. WordTypes'
    BY <1>0, <1>3 DEF closeListener, Teardown, WordTypes, Types
  <2>3. PlaceTypes'
    BY <1>0, <1>3 DEF closeListener, Teardown, PlaceTypes, Types
  <2>4. Turns'
    BY <1>0, <1>3 DEF closeListener, Teardown, Turns
  <2>5. Resources'
    BY <1>0, <1>3 DEF closeListener, Teardown, Resources
  <2>6. Unwound'
    BY <1>0, <1>3 DEF closeListener, Teardown, Unwound, Unreachable, ByRollback, HttpPlaces,
       Ended, Producers
  <2>7. Published'
    BY <1>0, <1>3 DEF closeListener, Teardown, Published, Bound, Opened, Holding, Ungated, Kept,
       Turns
  <2>8. Accounted'
    BY <1>0, <1>3 DEF closeListener, Teardown, Accounted, Unfailed
  <2> QED
    BY <2>1, <2>2, <2>3, <2>4, <2>5, <2>6, <2>7, <2>8 DEF IInv, Types
<1>4. CASE Abandon("listener")
  <2>1. FlagTypes'
    BY <1>0, <1>4 DEF Abandon, Teardown, FlagTypes, Types
  <2>2. WordTypes'
    BY <1>0, <1>4 DEF Abandon, Teardown, WordTypes, Types
  <2>3. PlaceTypes'
    BY <1>0, <1>4 DEF Abandon, Teardown, PlaceTypes, Types
  <2>4. Turns'
    BY <1>0, <1>4 DEF Abandon, Teardown, Turns
  <2>5. Resources'
    BY <1>0, <1>4 DEF Abandon, Teardown, Resources
  <2>6. Unwound'
    BY <1>0, <1>4 DEF Abandon, Teardown, Unwound, Unreachable, HttpPlaces, Ended
  <2>7. Published'
    BY <1>0, <1>4 DEF Abandon, Teardown, Published
  <2>8. Accounted'
    BY <1>0, <1>4 DEF Abandon, Teardown, Accounted, Unfailed
  <2> QED
    BY <2>1, <2>2, <2>3, <2>4, <2>5, <2>6, <2>7, <2>8 DEF IInv, Types
<1>5. CASE JoinServe
  <2>1. FlagTypes'
    BY <1>0, <1>5 DEF JoinServe, Teardown, FlagTypes, Types
  <2>2. WordTypes'
    BY <1>0, <1>5 DEF JoinServe, Teardown, WordTypes, Types
  <2>3. PlaceTypes'
    BY <1>0, <1>5 DEF JoinServe, Teardown, PlaceTypes, Types
  <2>4. Turns'
    BY <1>0, <1>5 DEF JoinServe, Teardown, Turns
  <2>5. Resources'
    BY <1>0, <1>5 DEF JoinServe, Teardown, Resources
  <2>6. Unwound'
    BY <1>0, <1>5 DEF JoinServe, Teardown, Unwound, Unreachable, ByRollback, HttpPlaces, Ended,
       Producers
  <2>7. Published'
    BY <1>0, <1>5 DEF JoinServe, Teardown, Published
  <2>8. Accounted'
    BY <1>0, <1>5 DEF JoinServe, Teardown, Accounted, Unfailed
  <2> QED
    BY <2>1, <2>2, <2>3, <2>4, <2>5, <2>6, <2>7, <2>8 DEF IInv, Types
<1>6. CASE Abandon("join")
  <2>1. FlagTypes'
    BY <1>0, <1>6 DEF Abandon, Teardown, FlagTypes, Types
  <2>2. WordTypes'
    BY <1>0, <1>6 DEF Abandon, Teardown, WordTypes, Types
  <2>3. PlaceTypes'
    BY <1>0, <1>6 DEF Abandon, Teardown, PlaceTypes, Types
  <2>4. Turns'
    BY <1>0, <1>6 DEF Abandon, Teardown, Turns
  <2>5. Resources'
    BY <1>0, <1>6 DEF Abandon, Teardown, Resources
  <2>6. Unwound'
    BY <1>0, <1>6 DEF Abandon, Teardown, Unwound, Unreachable, HttpPlaces, Ended
  <2>7. Published'
    BY <1>0, <1>6 DEF Abandon, Teardown, Published
  <2>8. Accounted'
    BY <1>0, <1>6 DEF Abandon, Teardown, Accounted, Unfailed
  <2> QED
    BY <2>1, <2>2, <2>3, <2>4, <2>5, <2>6, <2>7, <2>8 DEF IInv, Types
<1>7. CASE Shutdown
  <2>1. FlagTypes'
    BY <1>0, <1>7 DEF Shutdown, Teardown, ServeReturned, FlagTypes, Types
  <2>2. WordTypes'
    BY <1>0, <1>7 DEF Shutdown, Teardown, ServeReturned, WordTypes, Types
  <2>3. PlaceTypes'
    BY <1>0, <1>7 DEF Shutdown, Teardown, ServeReturned, PlaceTypes, Types
  <2>4. Turns'
    BY <1>0, <1>7 DEF Shutdown, Teardown, ServeReturned, Turns
  <2>5. Resources'
    BY <1>0, <1>7 DEF Shutdown, Teardown, ServeReturned, Resources
  <2>6. Unwound'
    BY <1>0, <1>7 DEF Shutdown, Teardown, ServeReturned, Unwound, Unreachable, ByRollback,
       HttpPlaces, Ended, Producers
  <2>7. Published'
    BY <1>0, <1>7 DEF Shutdown, Teardown, ServeReturned, Published
  <2>8. Accounted'
    BY <1>0, <1>7 DEF Shutdown, Teardown, ServeReturned, Accounted, Unfailed
  <2> QED
    BY <2>1, <2>2, <2>3, <2>4, <2>5, <2>6, <2>7, <2>8 DEF IInv, Types
<1>8. CASE Drained
  <2>1. FlagTypes'
    BY <1>0, <1>8 DEF Drained, AfterHandlers, Quiet, FlagTypes, Types
  <2>2. WordTypes'
    BY <1>0, <1>8 DEF Drained, AfterHandlers, Quiet, WordTypes, Types
  <2>3. PlaceTypes'
    BY <1>0, <1>8 DEF Drained, AfterHandlers, Quiet, PlaceTypes, Types
  <2>4. Turns'
    BY <1>0, <1>8 DEF Drained, AfterHandlers, Quiet, Turns
  <2>5. Resources'
    BY <1>0, <1>8 DEF Drained, AfterHandlers, Quiet, Resources
  <2>6. Unwound'
    BY <1>0, <1>8 DEF Drained, AfterHandlers, Quiet, Unwound, Unreachable, ByRollback,
       HttpPlaces, Ended, Producers
  <2>7. Published'
    BY <1>0, <1>8 DEF Drained, AfterHandlers, Quiet, Published
  <2>8. Accounted'
    BY <1>0, <1>8 DEF Drained, AfterHandlers, Quiet, Accounted, Unfailed, Unwound, HttpPlaces
  <2> QED
    BY <2>1, <2>2, <2>3, <2>4, <2>5, <2>6, <2>7, <2>8 DEF IInv, Types
<1>9. CASE DrainExpires
  <2>1. FlagTypes'
    BY <1>0, <1>9 DEF DrainExpires, Teardown, FlagTypes, Types
  <2>2. WordTypes'
    BY <1>0, <1>9 DEF DrainExpires, Teardown, WordTypes, Types
  <2>3. PlaceTypes'
    BY <1>0, <1>9 DEF DrainExpires, Teardown, PlaceTypes, Types
  <2>4. Turns'
    BY <1>0, <1>9 DEF DrainExpires, Teardown, Turns
  <2>5. Resources'
    BY <1>0, <1>9 DEF DrainExpires, Teardown, Resources
  <2>6. Unwound'
    BY <1>0, <1>9 DEF DrainExpires, Teardown, Unwound, Unreachable, ByRollback, HttpPlaces,
       Ended, Producers
  <2>7. Published'
    BY <1>0, <1>9 DEF DrainExpires, Teardown, Published
  <2>8. Accounted'
    BY <1>0, <1>9 DEF DrainExpires, Teardown, Accounted, Unfailed
  <2> QED
    BY <2>1, <2>2, <2>3, <2>4, <2>5, <2>6, <2>7, <2>8 DEF IInv, Types
<1>10. CASE ForceClose
  <2>1. FlagTypes'
    BY <1>0, <1>10 DEF ForceClose, Quiet, FlagTypes, Types
  <2>2. WordTypes'
    BY <1>0, <1>10 DEF ForceClose, Quiet, WordTypes, Types
  <2>3. PlaceTypes'
    BY <1>0, <1>10 DEF ForceClose, Quiet, PlaceTypes, Types
  <2>4. Turns'
    BY <1>0, <1>10 DEF ForceClose, Quiet, Turns
  <2>5. Resources'
    BY <1>0, <1>10 DEF ForceClose, Quiet, Resources
  <2>6. Unwound'
    BY <1>0, <1>10 DEF ForceClose, Quiet, Unwound, Unreachable, ByRollback, HttpPlaces, Ended,
       Producers
  <2>7. Published'
    BY <1>0, <1>10 DEF ForceClose, Quiet, Published
  <2>8. Accounted'
    BY <1>0, <1>10 DEF ForceClose, Quiet, Accounted, Unfailed
  <2> QED
    BY <2>1, <2>2, <2>3, <2>4, <2>5, <2>6, <2>7, <2>8 DEF IInv, Types
<1>11. CASE Abandon("force")
  <2>1. FlagTypes'
    BY <1>0, <1>11 DEF Abandon, Teardown, FlagTypes, Types
  <2>2. WordTypes'
    BY <1>0, <1>11 DEF Abandon, Teardown, WordTypes, Types
  <2>3. PlaceTypes'
    BY <1>0, <1>11 DEF Abandon, Teardown, PlaceTypes, Types
  <2>4. Turns'
    BY <1>0, <1>11 DEF Abandon, Teardown, Turns
  <2>5. Resources'
    BY <1>0, <1>11 DEF Abandon, Teardown, Resources
  <2>6. Unwound'
    BY <1>0, <1>11 DEF Abandon, Teardown, Unwound, Unreachable, HttpPlaces, Ended
  <2>7. Published'
    BY <1>0, <1>11 DEF Abandon, Teardown, Published
  <2>8. Accounted'
    BY <1>0, <1>11 DEF Abandon, Teardown, Accounted, Unfailed
  <2> QED
    BY <2>1, <2>2, <2>3, <2>4, <2>5, <2>6, <2>7, <2>8 DEF IInv, Types
<1>12. CASE WaitHandlers
  <2>1. FlagTypes'
    BY <1>0, <1>12 DEF WaitHandlers, Teardown, AfterHandlers, HandlersQuiescent, FlagTypes,
       Types
  <2>2. WordTypes'
    BY <1>0, <1>12 DEF WaitHandlers, Teardown, AfterHandlers, HandlersQuiescent, WordTypes,
       Types
  <2>3. PlaceTypes'
    BY <1>0, <1>12 DEF WaitHandlers, Teardown, AfterHandlers, HandlersQuiescent, PlaceTypes,
       Types
  <2>4. Turns'
    BY <1>0, <1>12 DEF WaitHandlers, Teardown, AfterHandlers, HandlersQuiescent, Turns
  <2>5. Resources'
    BY <1>0, <1>12 DEF WaitHandlers, Teardown, AfterHandlers, HandlersQuiescent, Resources
  <2>6. Unwound'
    BY <1>0, <1>12 DEF WaitHandlers, Teardown, AfterHandlers, HandlersQuiescent, Unwound,
       Unreachable, ByRollback, HttpPlaces, Ended, Producers
  <2>7. Published'
    BY <1>0, <1>12 DEF WaitHandlers, Teardown, AfterHandlers, HandlersQuiescent, Published
  <2>8. Accounted'
    BY <1>0, <1>12 DEF WaitHandlers, Teardown, AfterHandlers, HandlersQuiescent, Accounted,
       Unfailed, Unwound, HttpPlaces
  <2> QED
    BY <2>1, <2>2, <2>3, <2>4, <2>5, <2>6, <2>7, <2>8 DEF IInv, Types
<1>13. CASE Abandon("handlers")
  <2>1. FlagTypes'
    BY <1>0, <1>13 DEF Abandon, Teardown, FlagTypes, Types
  <2>2. WordTypes'
    BY <1>0, <1>13 DEF Abandon, Teardown, WordTypes, Types
  <2>3. PlaceTypes'
    BY <1>0, <1>13 DEF Abandon, Teardown, PlaceTypes, Types
  <2>4. Turns'
    BY <1>0, <1>13 DEF Abandon, Teardown, Turns
  <2>5. Resources'
    BY <1>0, <1>13 DEF Abandon, Teardown, Resources
  <2>6. Unwound'
    BY <1>0, <1>13 DEF Abandon, Teardown, Unwound, Unreachable, HttpPlaces, Ended
  <2>7. Published'
    BY <1>0, <1>13 DEF Abandon, Teardown, Published
  <2>8. Accounted'
    BY <1>0, <1>13 DEF Abandon, Teardown, Accounted, Unfailed
  <2> QED
    BY <2>1, <2>2, <2>3, <2>4, <2>5, <2>6, <2>7, <2>8 DEF IInv, Types
<1>14. CASE StopProbe
  <2>1. FlagTypes'
    BY <1>0, <1>14 DEF StopProbe, Teardown, FlagTypes, Types
  <2>2. WordTypes'
    BY <1>0, <1>14 DEF StopProbe, Teardown, WordTypes, Types
  <2>3. PlaceTypes'
    BY <1>0, <1>14 DEF StopProbe, Teardown, PlaceTypes, Types
  <2>4. Turns'
    BY <1>0, <1>14 DEF StopProbe, Teardown, Turns
  <2>5. Resources'
    BY <1>0, <1>14 DEF StopProbe, Teardown, Resources
  <2>6. Unwound'
    BY <1>0, <1>14 DEF StopProbe, Teardown, Unwound, Unreachable, ByRollback, HttpPlaces, Ended,
       Producers
  <2>7. Published'
    BY <1>0, <1>14 DEF StopProbe, Teardown, Published
  <2>8. Accounted'
    BY <1>0, <1>14 DEF StopProbe, Teardown, Accounted, Unfailed, ByRollback
  <2> QED
    BY <2>1, <2>2, <2>3, <2>4, <2>5, <2>6, <2>7, <2>8 DEF IInv, Types
<1>15. CASE JoinProbe
  <2>1. FlagTypes'
    BY <1>0, <1>15 DEF JoinProbe, Teardown, AfterProbe, OwnsHttp, FlagTypes, Types
  <2>2. WordTypes'
    BY <1>0, <1>15 DEF JoinProbe, Teardown, AfterProbe, OwnsHttp, WordTypes, Types
  <2>3. PlaceTypes'
    BY <1>0, <1>15 DEF JoinProbe, Teardown, AfterProbe, OwnsHttp, PlaceTypes, Types
  <2>4. Turns'
    BY <1>0, <1>15 DEF JoinProbe, Teardown, AfterProbe, OwnsHttp, Turns
  <2>5. Resources'
    BY <1>0, <1>15 DEF JoinProbe, Teardown, AfterProbe, OwnsHttp, Resources
  <2>6. Unwound'
    BY <1>0, <1>15 DEF JoinProbe, Teardown, AfterProbe, OwnsHttp, Unwound, Unreachable,
       ByRollback, HttpPlaces, Ended, Resources, Producers
  <2>7. Published'
    BY <1>0, <1>15 DEF JoinProbe, Teardown, AfterProbe, OwnsHttp, Published
  <2>8. Accounted'
    BY <1>0, <1>15 DEF JoinProbe, Teardown, AfterProbe, OwnsHttp, Accounted, Unfailed,
       ByRollback, Ended
  <2> QED
    BY <2>1, <2>2, <2>3, <2>4, <2>5, <2>6, <2>7, <2>8 DEF IInv, Types
<1>16. CASE Abandon("probe_join")
  <2>1. FlagTypes'
    BY <1>0, <1>16 DEF Abandon, Teardown, FlagTypes, Types
  <2>2. WordTypes'
    BY <1>0, <1>16 DEF Abandon, Teardown, WordTypes, Types
  <2>3. PlaceTypes'
    BY <1>0, <1>16 DEF Abandon, Teardown, PlaceTypes, Types
  <2>4. Turns'
    BY <1>0, <1>16 DEF Abandon, Teardown, Turns
  <2>5. Resources'
    BY <1>0, <1>16 DEF Abandon, Teardown, Resources
  <2>6. Unwound'
    BY <1>0, <1>16 DEF Abandon, Teardown, Unwound, Unreachable, HttpPlaces, Ended
  <2>7. Published'
    BY <1>0, <1>16 DEF Abandon, Teardown, Published
  <2>8. Accounted'
    BY <1>0, <1>16 DEF Abandon, Teardown, Accounted, Unfailed
  <2> QED
    BY <2>1, <2>2, <2>3, <2>4, <2>5, <2>6, <2>7, <2>8 DEF IInv, Types
<1>17. CASE Close("replay", "material")
  <2>1. FlagTypes'
    BY <1>0, <1>17 DEF Close, Teardown, Owns, FlagTypes, Types
  <2>2. WordTypes'
    BY <1>0, <1>17 DEF Close, Teardown, Owns, WordTypes, Final, Types
  <2>3. PlaceTypes'
    BY <1>0, <1>17 DEF Close, Teardown, Owns, PlaceTypes, Types
  <2>4. Turns'
    BY <1>0, <1>17 DEF Close, Teardown, Owns, Turns
  <2>5. Resources'
    BY <1>0, <1>17 DEF Close, Teardown, Owns, Resources
  <2>6. Unwound'
    BY <1>0, <1>17 DEF Close, Teardown, Owns, Unwound, Unreachable, ByRollback, HttpPlaces,
       Ended, Producers
  <2>7. Published'
    BY <1>0, <1>17 DEF Close, Teardown, Owns, Published
  <2>8. Accounted'
    BY <1>0, <1>17 DEF Close, Teardown, Owns, Accounted, Unfailed, ByRollback, Unwound,
       Unreachable, HttpPlaces, Holding, Bound, Kept, Served, StoppingPhases, Turns,
       Settled, Resources
  <2> QED
    BY <2>1, <2>2, <2>3, <2>4, <2>5, <2>6, <2>7, <2>8 DEF IInv, Types
<1>18. CASE Close("material", "finish")
  <2>1. FlagTypes'
    BY <1>0, <1>18 DEF Close, Teardown, Owns, FlagTypes, Types
  <2>2. WordTypes'
    BY <1>0, <1>18 DEF Close, Teardown, Owns, WordTypes, Final, Types
  <2>3. PlaceTypes'
    BY <1>0, <1>18 DEF Close, Teardown, Owns, PlaceTypes, Types
  <2>4. Turns'
    BY <1>0, <1>18 DEF Close, Teardown, Owns, Turns
  <2>5. Resources'
    BY <1>0, <1>18 DEF Close, Teardown, Owns, Resources
  <2>6. Unwound'
    BY <1>0, <1>18 DEF Close, Teardown, Owns, Unwound, Unreachable, HttpPlaces, Ended
  <2>7. Published'
    BY <1>0, <1>18 DEF Close, Teardown, Owns, Published
  <2>8. Accounted'
    BY <1>0, <1>18 DEF Close, Teardown, Owns, Accounted, Unfailed, ByRollback, Unwound,
       Unreachable, HttpPlaces, Holding, Bound, Kept, Served, StoppingPhases, Turns,
       Settled, Resources
  <2> QED
    BY <2>1, <2>2, <2>3, <2>4, <2>5, <2>6, <2>7, <2>8 DEF IInv, Types
<1>19. CASE FinishRollback
  <2>1. FlagTypes'
    BY <1>0, <1>19 DEF FinishRollback, FlagTypes, Types
  <2>2. WordTypes'
    BY <1>0, <1>19 DEF FinishRollback, WordTypes, Types
  <2>3. PlaceTypes'
    BY <1>0, <1>19 DEF FinishRollback, PlaceTypes, Starts, Settled, Replaying, Bound, Types,
       Turns
  <2>4. Turns'
    BY <1>0, <1>19 DEF FinishRollback, Turns, Settled, Holding, StoppingPhases, StoppedPhases,
       FatalPhases, ByRollback, Producers
  <2>5. Resources'
    BY <1>0, <1>19 DEF FinishRollback, Resources, Unserved, Replaying, Bound, Served, Kept
  <2>6. Unwound'
    BY <1>0, <1>19 DEF FinishRollback, Unwound, Unreachable, HttpPlaces, Ended
  <2>7. Published'
    BY <1>0, <1>19 DEF FinishRollback, Published, Bound, Opened, Holding, Ungated, Kept, Turns,
       ByRollback, Producers
  <2>8. Accounted'
    BY <1>0, <1>19 DEF FinishRollback, Accounted, Unfailed
  <2> QED
    BY <2>1, <2>2, <2>3, <2>4, <2>5, <2>6, <2>7, <2>8 DEF IInv, Types
<1>20. CASE finishStop
  <2>1. FlagTypes'
    BY <1>0, <1>20 DEF finishStop, FlagTypes, Types
  <2>2. WordTypes'
    BY <1>0, <1>20 DEF finishStop, WordTypes, Phases, Final, Types
  <2>3. PlaceTypes'
    BY <1>0, <1>20 DEF finishStop, PlaceTypes, Types
  <2>4. Turns'
    BY <1>0, <1>20 DEF finishStop, Turns, Holding, StoppingPhases, StoppedPhases, FatalPhases,
       ByRollback, Producers
  <2>5. Resources'
    BY <1>0, <1>20 DEF finishStop, Resources
  <2>6. Unwound'
    BY <1>0, <1>20 DEF finishStop, Unwound, Unreachable, HttpPlaces, Ended
  <2>7. Published'
    BY <1>0, <1>20 DEF finishStop, Published, Opened, Holding, Ungated, Kept, Turns
  <2>8. Accounted'
    BY <1>0, <1>20 DEF finishStop, Accounted, Unfailed, ByRollback, Ended, FatalPhases, Final,
       StoppingPhases, Types, WordTypes, Turns, Producers, Resources
  <2> QED
    BY <2>1, <2>2, <2>3, <2>4, <2>5, <2>6, <2>7, <2>8 DEF IInv, Types
<1> QED
  BY <1>1, <1>2, <1>3, <1>4, <1>5, <1>6, <1>7, <1>8, <1>9, <1>10, <1>11, <1>12, <1>13, <1>14,
     <1>15, <1>16, <1>17, <1>18, <1>19, <1>20 DEF TeardownStep

\* The three-step publication of a fatal event by a producer preserves the invariant.
LEMMA NotificationIInv ==
    ASSUME IInv, NEW p \in Producers, Notification(p)
    PROVE  IInv'
<1>0. Types /\ Turns /\ Resources /\ Unwound /\ Published /\ Accounted
  BY DEF IInv
<1>1. CASE Returned(p)
  <2>1. FlagTypes'
    BY <1>0, <1>1 DEF Returned, FlagTypes, Types
  <2>2. WordTypes'
    BY <1>0, <1>1 DEF Returned, WordTypes, Types
  <2>3. PlaceTypes'
    BY <1>0, <1>1 DEF Returned, PlaceTypes, AfterCheck, Types
  <2>4. Turns'
    BY <1>0, <1>1 DEF Returned, Turns
  <2>5. Resources'
    BY <1>0, <1>1 DEF Returned, Resources
  <2>6. Unwound'
    BY <1>0, <1>1 DEF Returned, Unwound, Unreachable, ByRollback, HttpPlaces, Ended, Producers
  <2>7. Published'
    BY <1>0, <1>1 DEF Returned, Published, Opened, Holding, Ungated, Kept, AfterCheck
  <2>8. Accounted'
    BY <1>0, <1>1 DEF Returned, Accounted, Unfailed, ByRollback, Ended
  <2> QED
    BY <2>1, <2>2, <2>3, <2>4, <2>5, <2>6, <2>7, <2>8 DEF IInv, Types
<1>2. CASE Terminalize(p)
  <2>1. FlagTypes'
    BY <1>0, <1>2 DEF Terminalize, FlagTypes, Types
  <2>2. WordTypes'
    BY <1>0, <1>2 DEF Terminalize, WordTypes, Types
  <2>3. PlaceTypes'
    BY <1>0, <1>2 DEF Terminalize, PlaceTypes, Types
  <2>4. Turns'
    BY <1>0, <1>2 DEF Terminalize, Turns
  <2>5. Resources'
    BY <1>0, <1>2 DEF Terminalize, Resources
  <2>6. Unwound'
    BY <1>0, <1>2 DEF Terminalize, Unwound, Unreachable, ByRollback, HttpPlaces, Ended,
       Producers
  <2>7. Published'
    BY <1>0, <1>2 DEF Terminalize, Published, Opened, Holding, Ungated, Kept, AfterCheck
  <2>8. Accounted'
    BY <1>0, <1>2 DEF Terminalize, Accounted, Unfailed, ByRollback, Ended
  <2> QED
    BY <2>1, <2>2, <2>3, <2>4, <2>5, <2>6, <2>7, <2>8 DEF IInv, Types
<1>3. CASE Flag(p)
  <2>1. FlagTypes'
    BY <1>0, <1>3 DEF Flag, FlagTypes, Types
  <2>2. WordTypes'
    BY <1>0, <1>3 DEF Flag, WordTypes, Types
  <2>3. PlaceTypes'
    BY <1>0, <1>3 DEF Flag, PlaceTypes, AfterCheck, Types
  <2>4. Turns'
    BY <1>0, <1>3 DEF Flag, Turns
  <2>5. Resources'
    BY <1>0, <1>3 DEF Flag, Resources
  <2>6. Unwound'
    BY <1>0, <1>3 DEF Flag, Unwound, Unreachable, ByRollback, HttpPlaces, Ended, Producers
  <2>7. Published'
    BY <1>0, <1>3 DEF Flag, Published
  <2>8. Accounted'
    BY <1>0, <1>3 DEF Flag, Accounted, Unfailed, ByRollback, Ended, Types, PlaceTypes
  <2> QED
    BY <2>1, <2>2, <2>3, <2>4, <2>5, <2>6, <2>7, <2>8 DEF IInv, Types
<1>4. CASE NotifyServeReturn(p)
  <2>1. FlagTypes'
    BY <1>0, <1>4 DEF NotifyServeReturn, Alive, transitionFatalLocked, FlagTypes, Types
  <2>2. WordTypes'
    BY <1>0, <1>4 DEF NotifyServeReturn, Alive, transitionFatalLocked, FatalPhase, Withdrawn,
       WordTypes, Phases, Final, Types
  <2>3. PlaceTypes'
    BY <1>0, <1>4 DEF NotifyServeReturn, Alive, transitionFatalLocked, PlaceTypes, AfterCheck,
       Types
  <2>4. Turns'
    BY <1>0, <1>4 DEF NotifyServeReturn, Alive, transitionFatalLocked, FatalPhase, Withdrawn,
       Turns, Holding, StoppingPhases, StoppedPhases, FatalPhases
  <2>5. Resources'
    BY <1>0, <1>4 DEF NotifyServeReturn, Alive, transitionFatalLocked, Resources
  <2>6. Unwound'
    BY <1>0, <1>4 DEF NotifyServeReturn, Alive, transitionFatalLocked, Unwound, Unreachable,
       ByRollback, HttpPlaces, Ended, Producers
  <2>7. Published'
    BY <1>0, <1>4 DEF NotifyServeReturn, Alive, transitionFatalLocked, Withdrawn, Published,
       Opened, Holding, Ungated, Kept, AfterCheck
  <2>8. Accounted'
    BY <1>0, <1>4 DEF NotifyServeReturn, Alive, transitionFatalLocked, FatalPhase, Withdrawn,
       Accounted, Unfailed, ByRollback, Ended, FatalPhases, Phases, Types, WordTypes, Turns,
       Producers, Resources, Unserved
  <2> QED
    BY <2>1, <2>2, <2>3, <2>4, <2>5, <2>6, <2>7, <2>8 DEF IInv, Types
<1> QED
  BY <1>1, <1>2, <1>3, <1>4 DEF Notification

\* So do the ends of the two goroutines.
LEMMA HandoverIInv ==
    ASSUME IInv, publishServeTermination \/ ServeDone \/ ProbeDone \/ ServeReturns \/
         ProbeReturns
    PROVE  IInv'
<1>0. Types /\ Turns /\ Resources /\ Unwound /\ Published /\ Accounted
  BY DEF IInv
<1>1. CASE publishServeTermination
  <2>1. FlagTypes'
    BY <1>0, <1>1 DEF publishServeTermination, FlagTypes, Types
  <2>2. WordTypes'
    BY <1>0, <1>1 DEF publishServeTermination, WordTypes, Types
  <2>3. PlaceTypes'
    BY <1>0, <1>1 DEF publishServeTermination, PlaceTypes, AfterCheck, Types
  <2>4. Turns'
    BY <1>0, <1>1 DEF publishServeTermination, Turns
  <2>5. Resources'
    BY <1>0, <1>1 DEF publishServeTermination, Resources
  <2>6. Unwound'
    BY <1>0, <1>1 DEF publishServeTermination, Unwound, Unreachable, ByRollback, HttpPlaces,
       Ended, Producers
  <2>7. Published'
    BY <1>0, <1>1 DEF publishServeTermination, Published, Opened, Holding, Ungated, Kept,
       AfterCheck, Producers
  <2>8. Accounted'
    BY <1>0, <1>1 DEF publishServeTermination, Accounted, Unfailed, ByRollback, Ended
  <2> QED
    BY <2>1, <2>2, <2>3, <2>4, <2>5, <2>6, <2>7, <2>8 DEF IInv, Types
<1>2. CASE ServeDone
  <2>1. FlagTypes'
    BY <1>0, <1>2 DEF ServeDone, FlagTypes, Types
  <2>2. WordTypes'
    BY <1>0, <1>2 DEF ServeDone, WordTypes, Types
  <2>3. PlaceTypes'
    BY <1>0, <1>2 DEF ServeDone, PlaceTypes, AfterCheck, Types
  <2>4. Turns'
    BY <1>0, <1>2 DEF ServeDone, Turns
  <2>5. Resources'
    BY <1>0, <1>2 DEF ServeDone, Resources
  <2>6. Unwound'
    BY <1>0, <1>2 DEF ServeDone, Unwound, Unreachable, ByRollback, HttpPlaces, Ended, Producers
  <2>7. Published'
    BY <1>0, <1>2 DEF ServeDone, Published, Opened, Holding, Ungated, Kept, AfterCheck
  <2>8. Accounted'
    BY <1>0, <1>2 DEF ServeDone, Accounted, Unfailed, ByRollback, Ended
  <2> QED
    BY <2>1, <2>2, <2>3, <2>4, <2>5, <2>6, <2>7, <2>8 DEF IInv, Types
<1>3. CASE ProbeDone
  <2>1. FlagTypes'
    BY <1>0, <1>3 DEF ProbeDone, FlagTypes, Types
  <2>2. WordTypes'
    BY <1>0, <1>3 DEF ProbeDone, WordTypes, Types
  <2>3. PlaceTypes'
    BY <1>0, <1>3 DEF ProbeDone, PlaceTypes, AfterCheck, Types
  <2>4. Turns'
    BY <1>0, <1>3 DEF ProbeDone, Turns
  <2>5. Resources'
    BY <1>0, <1>3 DEF ProbeDone, Resources
  <2>6. Unwound'
    BY <1>0, <1>3 DEF ProbeDone, Unwound, Unreachable, ByRollback, HttpPlaces, Ended, Producers
  <2>7. Published'
    BY <1>0, <1>3 DEF ProbeDone, Published, Opened, Holding, Ungated, Kept, AfterCheck
  <2>8. Accounted'
    BY <1>0, <1>3 DEF ProbeDone, Accounted, Unfailed, ByRollback, Ended
  <2> QED
    BY <2>1, <2>2, <2>3, <2>4, <2>5, <2>6, <2>7, <2>8 DEF IInv, Types
<1>4. CASE ServeReturns
  <2>1. FlagTypes'
    BY <1>0, <1>4 DEF ServeReturns, FlagTypes, Types
  <2>2. WordTypes'
    BY <1>0, <1>4 DEF ServeReturns, WordTypes, Types
  <2>3. PlaceTypes'
    BY <1>0, <1>4 DEF ServeReturns, PlaceTypes, Types
  <2>4. Turns'
    BY <1>0, <1>4 DEF ServeReturns, Turns
  <2>5. Resources'
    BY <1>0, <1>4 DEF ServeReturns, Resources
  <2>6. Unwound'
    BY <1>0, <1>4 DEF ServeReturns, Unwound, Unreachable, ByRollback, HttpPlaces, Ended,
       Producers
  <2>7. Published'
    BY <1>0, <1>4 DEF ServeReturns, Published, Opened, Holding, Ungated, Kept, AfterCheck
  <2>8. Accounted'
    BY <1>0, <1>4 DEF ServeReturns, Accounted, Unfailed, ByRollback, Ended
  <2> QED
    BY <2>1, <2>2, <2>3, <2>4, <2>5, <2>6, <2>7, <2>8 DEF IInv, Types
<1>5. CASE ProbeReturns
  <2>1. FlagTypes'
    BY <1>0, <1>5 DEF ProbeReturns, FlagTypes, Types
  <2>2. WordTypes'
    BY <1>0, <1>5 DEF ProbeReturns, WordTypes, Types
  <2>3. PlaceTypes'
    BY <1>0, <1>5 DEF ProbeReturns, PlaceTypes, Types
  <2>4. Turns'
    BY <1>0, <1>5 DEF ProbeReturns, Turns
  <2>5. Resources'
    BY <1>0, <1>5 DEF ProbeReturns, Resources
  <2>6. Unwound'
    BY <1>0, <1>5 DEF ProbeReturns, Unwound, Unreachable, ByRollback, HttpPlaces, Ended,
       Producers
  <2>7. Published'
    BY <1>0, <1>5 DEF ProbeReturns, Published, Opened, Holding, Ungated, Kept, AfterCheck
  <2>8. Accounted'
    BY <1>0, <1>5 DEF ProbeReturns, Accounted, Unfailed, ByRollback, Ended
  <2> QED
    BY <2>1, <2>2, <2>3, <2>4, <2>5, <2>6, <2>7, <2>8 DEF IInv, Types
<1> QED
  BY <1>1, <1>2, <1>3, <1>4, <1>5

\* So do the connections, their handlers, and the fatal events handlers publish.
LEMMA RequestStepIInv ==
    ASSUME IInv, NEW r \in Requests, RequestStep(r)
    PROVE  IInv'
<1>0. Types /\ Turns /\ Resources /\ Unwound /\ Published /\ Accounted
  BY DEF IInv
<1>1. CASE Connect(r)
  <2>1. FlagTypes'
    BY <1>0, <1>1 DEF Connect, FlagTypes, Types
  <2>2. WordTypes'
    BY <1>0, <1>1 DEF Connect, WordTypes, Types
  <2>3. PlaceTypes'
    BY <1>0, <1>1 DEF Connect, PlaceTypes, Types
  <2>4. Turns'
    BY <1>0, <1>1 DEF Connect, Turns
  <2>5. Resources'
    BY <1>0, <1>1 DEF Connect, Resources
  <2>6. Unwound'
    BY <1>0, <1>1 DEF Connect, Unwound, Unreachable, ByRollback, HttpPlaces, Ended, Producers
  <2>7. Published'
    BY <1>0, <1>1 DEF Connect, Published
  <2>8. Accounted'
    BY <1>0, <1>1 DEF Connect, Accounted, Unfailed, ByRollback, Ended, Producers
  <2> QED
    BY <2>1, <2>2, <2>3, <2>4, <2>5, <2>6, <2>7, <2>8 DEF IInv, Types
<1>2. CASE Enter(r)
  <2>1. FlagTypes'
    BY <1>0, <1>2 DEF Enter, FlagTypes, Types
  <2>2. WordTypes'
    BY <1>0, <1>2 DEF Enter, WordTypes, Types
  <2>3. PlaceTypes'
    BY <1>0, <1>2 DEF Enter, PlaceTypes, Types
  <2>4. Turns'
    BY <1>0, <1>2 DEF Enter, Turns
  <2>5. Resources'
    BY <1>0, <1>2 DEF Enter, Resources
  <2>6. Unwound'
    BY <1>0, <1>2 DEF Enter, Unwound, Unreachable, ByRollback, HttpPlaces, Ended, Producers
  <2>7. Published'
    BY <1>0, <1>2 DEF Enter, Published
  <2>8. Accounted'
    BY <1>0, <1>2 DEF Enter, Accounted, Unfailed, ByRollback
  <2> QED
    BY <2>1, <2>2, <2>3, <2>4, <2>5, <2>6, <2>7, <2>8 DEF IInv, Types
<1>3. CASE register(r)
  <2>1. FlagTypes'
    BY <1>0, <1>3 DEF register, FlagTypes, Types
  <2>2. WordTypes'
    BY <1>0, <1>3 DEF register, WordTypes, Types
  <2>3. PlaceTypes'
    BY <1>0, <1>3 DEF register, PlaceTypes, Types
  <2>4. Turns'
    BY <1>0, <1>3 DEF register, Turns
  <2>5. Resources'
    BY <1>0, <1>3 DEF register, Resources
  <2>6. Unwound'
    BY <1>0, <1>3 DEF register, Unwound, Unreachable, ByRollback, HttpPlaces, Ended, Producers
  <2>7. Published'
    BY <1>0, <1>3 DEF register, Published
  <2>8. Accounted'
    BY <1>0, <1>3 DEF register, Accounted, Unfailed, ByRollback
  <2> QED
    BY <2>1, <2>2, <2>3, <2>4, <2>5, <2>6, <2>7, <2>8 DEF IInv, Types
<1>4. CASE release(r)
  <2>1. FlagTypes'
    BY <1>0, <1>4 DEF release, FlagTypes, Types
  <2>2. WordTypes'
    BY <1>0, <1>4 DEF release, WordTypes, Types
  <2>3. PlaceTypes'
    BY <1>0, <1>4 DEF release, PlaceTypes, Types
  <2>4. Turns'
    BY <1>0, <1>4 DEF release, Turns
  <2>5. Resources'
    BY <1>0, <1>4 DEF release, Resources
  <2>6. Unwound'
    BY <1>0, <1>4 DEF release, Unwound, Unreachable, ByRollback, HttpPlaces, Ended, Producers
  <2>7. Published'
    BY <1>0, <1>4 DEF release, Published
  <2>8. Accounted'
    BY <1>0, <1>4 DEF release, Accounted, Unfailed, ByRollback
  <2> QED
    BY <2>1, <2>2, <2>3, <2>4, <2>5, <2>6, <2>7, <2>8 DEF IInv, Types
<1>5. CASE NotifyFatal(r)
  <2>1. FlagTypes'
    BY <1>0, <1>5 DEF NotifyFatal, transitionFatalLocked, FlagTypes, Types
  <2>2. WordTypes'
    BY <1>0, <1>5 DEF NotifyFatal, transitionFatalLocked, FatalPhase, Withdrawn, WordTypes,
       Phases, Final, Types
  <2>3. PlaceTypes'
    BY <1>0, <1>5 DEF NotifyFatal, transitionFatalLocked, PlaceTypes, Types
  <2>4. Turns'
    BY <1>0, <1>5 DEF NotifyFatal, transitionFatalLocked, FatalPhase, Withdrawn, Turns, Holding,
       StoppingPhases, StoppedPhases, FatalPhases
  <2>5. Resources'
    BY <1>0, <1>5 DEF NotifyFatal, transitionFatalLocked, Resources, Types, PlaceTypes
  <2>6. Unwound'
    BY <1>0, <1>5 DEF NotifyFatal, transitionFatalLocked, Unwound, Unreachable, ByRollback,
       HttpPlaces, Ended, Producers
  <2>7. Published'
    BY <1>0, <1>5 DEF NotifyFatal, transitionFatalLocked, Withdrawn, Published
  <2>8. Accounted'
    BY <1>0, <1>5 DEF NotifyFatal, transitionFatalLocked, FatalPhase, Withdrawn, Accounted,
       Unfailed, ByRollback, FatalPhases, Types, PlaceTypes, Resources
  <2> QED
    BY <2>1, <2>2, <2>3, <2>4, <2>5, <2>6, <2>7, <2>8 DEF IInv, Types
<1> QED
  BY <1>1, <1>2, <1>3, <1>4, <1>5 DEF RequestStep

\* So does every caller of Stop.
LEMMA StopStepIInv ==
    ASSUME IInv, NEW c \in Stoppers, StopStep(c)
    PROVE  IInv'
<1>0. Types /\ Turns /\ Resources /\ Unwound /\ Published /\ Accounted
  BY DEF IInv
<1>1. CASE beginStop(c)
  <2>1. FlagTypes'
    BY <1>0, <1>1 DEF beginStop, transitionFatalLocked, FlagTypes, Types
  <2>2. WordTypes'
    BY <1>0, <1>1 DEF beginStop, transitionFatalLocked, FatalPhase, Withdrawn, WordTypes,
       Phases, Final, Types
  <2>3. PlaceTypes'
    BY <1>0, <1>1 DEF beginStop, transitionFatalLocked, PlaceTypes, Types
  <2>4. Turns'
    BY <1>0, <1>1 DEF beginStop, transitionFatalLocked, FatalPhase, Withdrawn, Turns, Settled,
       Holding, StoppingPhases, StoppedPhases, FatalPhases, Types, PlaceTypes,
       startupInProgress, ByRollback, Producers
  <2>5. Resources'
    BY <1>0, <1>1 DEF beginStop, transitionFatalLocked, Resources
  <2>6. Unwound'
    BY <1>0, <1>1 DEF beginStop, transitionFatalLocked, Unwound, Unreachable, ByRollback,
       HttpPlaces, Ended, Producers
  <2>7. Published'
    BY <1>0, <1>1 DEF beginStop, transitionFatalLocked, Withdrawn, Published
  <2>8. Accounted'
    BY <1>0, <1>1 DEF beginStop, transitionFatalLocked, FatalPhase, Withdrawn, Accounted,
       Unfailed, ByRollback, FatalPhases
  <2> QED
    BY <2>1, <2>2, <2>3, <2>4, <2>5, <2>6, <2>7, <2>8 DEF IInv, Types
<1>2. CASE Elected(c)
  <2>1. FlagTypes'
    BY <1>0, <1>2 DEF Elected, FlagTypes, Types
  <2>2. WordTypes'
    BY <1>0, <1>2 DEF Elected, Stopped, WordTypes, Phases, Final, Types
  <2>3. PlaceTypes'
    BY <1>0, <1>2 DEF Elected, PlaceTypes, Types
  <2>4. Turns'
    BY <1>0, <1>2, StopperAssumption DEF Elected, Turns, Holding, StoppingPhases, StoppedPhases,
       FatalPhases, Types, PlaceTypes
  <2>5. Resources'
    BY <1>0, <1>2 DEF Elected, Resources
  <2>6. Unwound'
    BY <1>0, <1>2 DEF Elected, Unwound, Unreachable, HttpPlaces, Ended
  <2>7. Published'
    BY <1>0, <1>2 DEF Elected, Stopped, Published
  <2>8. Accounted'
    BY <1>0, <1>2 DEF Elected, Stopped, Accounted, Unfailed, FatalPhases
  <2> QED
    BY <2>1, <2>2, <2>3, <2>4, <2>5, <2>6, <2>7, <2>8 DEF IInv, Types
<1>3. CASE Joined(c)
  <2>1. FlagTypes'
    BY <1>0, <1>3 DEF Joined, stopDone, FlagTypes, Types
  <2>2. WordTypes'
    BY <1>0, <1>3 DEF Joined, stopDone, WordTypes, Types
  <2>3. PlaceTypes'
    BY <1>0, <1>3 DEF Joined, stopDone, PlaceTypes, Types
  <2>4. Turns'
    BY <1>0, <1>3 DEF Joined, stopDone, Turns
  <2>5. Resources'
    BY <1>0, <1>3 DEF Joined, stopDone, Resources
  <2>6. Unwound'
    BY <1>0, <1>3 DEF Joined, stopDone, Unwound, Unreachable, ByRollback, HttpPlaces, Ended,
       Producers
  <2>7. Published'
    BY <1>0, <1>3 DEF Joined, stopDone, Published
  <2>8. Accounted'
    BY <1>0, <1>3 DEF Joined, stopDone, Accounted, Unfailed, ByRollback
  <2> QED
    BY <2>1, <2>2, <2>3, <2>4, <2>5, <2>6, <2>7, <2>8 DEF IInv, Types
<1>4. CASE JoinExpires(c)
  <2>1. FlagTypes'
    BY <1>0, <1>4 DEF JoinExpires, FlagTypes, Types
  <2>2. WordTypes'
    BY <1>0, <1>4 DEF JoinExpires, WordTypes, Types
  <2>3. PlaceTypes'
    BY <1>0, <1>4 DEF JoinExpires, PlaceTypes, Types
  <2>4. Turns'
    BY <1>0, <1>4 DEF JoinExpires, Turns
  <2>5. Resources'
    BY <1>0, <1>4 DEF JoinExpires, Resources
  <2>6. Unwound'
    BY <1>0, <1>4 DEF JoinExpires, Unwound, Unreachable, ByRollback, HttpPlaces, Ended,
       Producers
  <2>7. Published'
    BY <1>0, <1>4 DEF JoinExpires, Published
  <2>8. Accounted'
    BY <1>0, <1>4 DEF JoinExpires, Accounted, Unfailed, ByRollback
  <2> QED
    BY <2>1, <2>2, <2>3, <2>4, <2>5, <2>6, <2>7, <2>8 DEF IInv, Types
<1> QED
  BY <1>1, <1>2, <1>3, <1>4 DEF StopStep

\* The program starts in the invariant.
LEMMA InitIInv == Init => IInv
<1> SUFFICES ASSUME Init PROVE IInv
  OBVIOUS
<1>1. FlagTypes
  BY DEF Init, FlagTypes
<1>2. WordTypes
  BY DEF Init, WordTypes, Phases
<1>3. PlaceTypes
  BY DEF Init, PlaceTypes, Starts, Settled, AfterCheck
<1>4. Turns
  BY DEF Init, Turns, Settled, Holding, StoppingPhases, StoppedPhases
<1>5. Resources
  BY DEF Init, Resources, Replaying, Bound, Served, Kept, Producers
<1>6. Unwound
  BY DEF Init, Unwound, HttpPlaces, ByRollback
<1>7. Published
  BY DEF Init, Published, Bound, Opened, Holding, Ungated, Kept, AfterCheck, Producers
<1>8. Accounted
  BY DEF Init, Accounted, Unfailed
<1> QED
  BY <1>1, <1>2, <1>3, <1>4, <1>5, <1>6, <1>7, <1>8 DEF IInv, Types

\* A step that changes nothing keeps it.
LEMMA StutterIInv == IInv /\ UNCHANGED vars => IInv'
<1> SUFFICES ASSUME IInv, UNCHANGED vars PROVE IInv'
  OBVIOUS
<1>1. Types'
  BY DEF IInv, vars, Types, FlagTypes, WordTypes, PlaceTypes
<1>2. Turns' /\ Resources'
  BY DEF IInv, vars, Turns, Resources
<1>3. Unwound'
  BY DEF IInv, vars, Unwound, Unreachable, ByRollback
<1>4. Published' /\ Accounted'
  BY DEF IInv, vars, Published, Accounted, Unfailed, ByRollback
<1> QED
  BY <1>1, <1>2, <1>3, <1>4 DEF IInv

\* The invariant is inductive, for any number of requests and of callers of Stop: no
\* interleaving of Start, Stop, the serve loop, the probe and the handlers leaves it.
THEOREM Invariance == Spec => []IInv
<1>1. Init => IInv
  BY InitIInv
<1>2. IInv /\ [Next]_vars => IInv'
  BY StartStepIInv, TeardownStepIInv, NotificationIInv, HandoverIInv, RequestStepIInv,
     StopStepIInv, StutterIInv DEF Next, ProducerStep
<1> QED
  BY <1>1, <1>2, PTL DEF Spec

\* Every shared word of the lifecycle keeps to its range, for every number of requests and
\* callers.
THEOREM TypeCorrect == Spec => []TypeOK
<1>1. IInv => TypeOK
  BY DEF IInv, Types, FlagTypes, WordTypes, TypeOK
<1> QED
  BY <1>1, Invariance, PTL

\* stopOwned and rollbackOwners close the replay store and the protected material only
\* when no handler, probe or accept loop can reach them any more.
THEOREM NoUseAfterCloseHolds == Spec => []NoUseAfterClose
<1>1. IInv => NoUseAfterClose
  BY DEF IInv, Unwound, Unreachable, Ended, NoUseAfterClose
<1> QED
  BY <1>1, Invariance, PTL

\* The readiness word of readiness.go promises a daemon that serves: published, open,
\* registering handlers, with its accept loop and its probe accounted for.
THEOREM ReadyMeansServingHolds == Spec => []ReadyMeansServing
<1>1. IInv => ReadyMeansServing
  <2> SUFFICES ASSUME IInv, Ready, ~stopping PROVE
        /\ phase = "running" /\ held /\ closed = {}
        /\ gate = "open" /\ server = "active" /\ listening
        /\ producer["serve"] \notin {"none", "handoff", "returned", "done"}
        /\ producer["probe"] \notin {"gated", "handoff", "done"}
    BY DEF ReadyMeansServing
  <2>1. start \in {"reread", "started"} /\ ~fatal
    BY DEF IInv, Published, Ready
  <2>2. phase = "running" /\ gate = "open" /\ server = "active" /\ listening
    BY <2>1 DEF IInv, Published, Bound, Opened, Holding
  <2>3. held /\ closed = {}
    BY <2>1 DEF IInv, Turns, Holding
  <2>4. producer["serve"] # "none" /\ producer["probe"] # "gated"
    BY <2>1 DEF IInv, Resources, Served, Bound, Published, Ungated, Kept
  <2>5. \A p \in Producers : producer[p] \notin AfterCheck
    BY <2>1 DEF IInv, Published
  <2> QED
    BY <2>2, <2>3, <2>4, <2>5 DEF Producers, AfterCheck
<1> QED
  BY <1>1, Invariance, PTL

\* finishStop reports a clean stop only if no fatal event was published or is on its way,
\* every goroutine has ended and both final owners were closed.
THEOREM CleanStopLostNothingHolds == Spec => []CleanStopLostNothing
<1>1. IInv => CleanStopLostNothing
  BY DEF IInv, Accounted, Ended, Resources, CleanStopLostNothing
<1> QED
  BY <1>1, Invariance, PTL

\* The daemon becomes running in one place, from the phase commitStartup left.
LEMMA RunsFromActivating ==
    ASSUME [Next]_vars, phase # "running", phase' = "running"
    PROVE  phase = "activating"
<1>1. CASE StartStep
  BY <1>1 DEF StartStep, beginStart, InstallCancel, acquireProtocol, assembleApplication,
     bindTransport, startServe, startHealthProbe, Sample, enterCommit, CommitRuntime,
     commitStartup, ActivateProbe, Arm, AllowHTTPActivation, Open, publishStartup,
     publishReady, finishStartupLocked, markStartupFailed, WithdrawPublication,
     transitionFatalLocked, FatalPhase
<1>2. CASE TeardownStep
  BY <1>2 DEF TeardownStep, Teardown, Reject, RejectFails, closeListener, Abandon, JoinServe,
     Shutdown, Drained, DrainExpires, ForceClose, WaitHandlers, StopProbe, JoinProbe, Close,
     FinishRollback, finishStop, transitionFatalLocked, FatalPhase
<1>3. CASE ProducerStep \/ ServeReturns \/ ProbeReturns
  BY <1>3 DEF ProducerStep, Notification, Returned, Terminalize, Flag, NotifyServeReturn,
     publishServeTermination, ServeDone, ProbeDone, ServeReturns, ProbeReturns,
     transitionFatalLocked, FatalPhase
<1>4. CASE \E r \in Requests : RequestStep(r)
  BY <1>4 DEF RequestStep, Connect, Enter, register, release, NotifyFatal,
     transitionFatalLocked, FatalPhase
<1>5. CASE \E c \in Stoppers : StopStep(c)
  BY <1>5 DEF StopStep, beginStop, Elected, Joined, JoinExpires, transitionFatalLocked,
     FatalPhase
<1>6. CASE UNCHANGED vars
  BY <1>6 DEF vars
<1> QED
  BY <1>1, <1>2, <1>3, <1>4, <1>5, <1>6 DEF Next

\* Once beginStop has run for any caller, no startup publishes a running daemon.
THEOREM StopIsFinalHolds == Spec => StopIsFinal
<1>1. IInv /\ [Next]_vars =>
        [phase # "running" /\ phase' = "running" => \A c \in Stoppers : stop[c] = "idle"]_vars
  <2> SUFFICES ASSUME IInv, [Next]_vars, phase # "running", phase' = "running"
               PROVE  \A c \in Stoppers : stop[c] = "idle"
    OBVIOUS
  <2>1. phase = "activating"
    BY RunsFromActivating
  <2> QED
    BY <2>1 DEF IInv, Turns, FatalPhases, StoppingPhases, StoppedPhases
<1> QED
  BY <1>1, Invariance, PTL DEF Spec, StopIsFinal
==============================================================================
