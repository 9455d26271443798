# Verification of dkim2: TLA+ models, TLC runs, TLAPS proofs

dkim2 is a Go implementation of DKIM2: a library (verification, signing, recipes,
delivery-status handling, replay protection), the daemon `dkim2d` that offers it over
HTTP/JSON, and adapters that connect mail servers to the daemon (`dkim2-milter`,
`dkim2-exim`, `dkim2-dsn-propagator`), with administration tools.

This directory models the parts in which several actors share state and failures
happen between two steps, starting with the one where a mistake sends mail twice or
loses it: the two-phase propagation of delivery-status notifications (DSNs). Around it
stand the daemon's own lifecycle, the key resolver every verification goes through, and the
rotation and purging of signing keys. `PROJECT.json` lists every component, run, mutant, finding,
hazard and theorem, and maps definitions to source lines. Definitions keep the names of the functions they model.

## 1. Inventory

### DSN propagation (modelled)

| Part | State | Operations | Hard behaviour |
| --- | --- | --- | --- |
| Storage contract (`internal/replay/propagation.go`) | per coordinate: absent, pending under a lease, committed; retention | `ReservePropagation`, `CommitPropagation` | effect and answer come apart when a write is retried over a network |
| Redis provider (`cmd/dkim2d/internal/replay/redisstore`) | the Redis key; in-flight writes | `SET NX GET PX`, compare-and-set script, `SET XX GET KEEPTTL` | lost replies, repeated and late writes, several instances, skewed clocks |
| Redis store lifecycle (same package) | admission slots and waiters, in-flight count, lifecycle state, recovery facts, the client | `admit`, `finish`, `Probe`, `Close` | closing against admissions in progress; recovery without traffic |
| Memory provider (`internal/replay/memory.go`, `lifecycle.go`) | bounded map, expiry heap, one token, lifecycle gate | the same two operations, `CheckAndRemember`, `Close` | bounded pruning, capacity, clock faults, closing |
| Propagation coordinator (`cmd/dkim2d/internal/app/propagation_service.go`, `propagation_replay.go`) | none of its own; uses store, ledger, signer | `Propagate`, `CommitPropagation` | a reservation that is never used, a commit that arrives late |
| Token ledger (`propagation_token.go`) | tokens of this process with their expiry, bounded | `Issue`, `Resolve`, eviction | restart, eviction, expiry while an attempt runs |
| Propagator handler (`cmd/dkim2-dsn-propagator/internal/app/propagation.go`) | one transaction per connection | `Handle`: propagate, re-inject, commit, reply | crash or time-out between any two of them |
| Re-injection client (`internal/reinject`) | one SMTP session | `Send` | deadlines, lost final reply, misbehaving listener |
| LMTP session (`internal/lmtp/lmtp.go`) | transaction state of a connection | LHLO, MAIL, RCPT, DATA, RSET, QUIT | order of commands, leftovers between transactions |
| LMTP listener (`internal/lmtp/runtime.go`) | accept loop, connections, slots, shutdown | `Start`, `Close` | start against close, forced drain |

A delivering MTA hands a DSN to the propagator over LMTP. The handler asks the daemon,
which verifies the DSN, reserves its coordinate in the replay store, rebuilds and signs
the report and returns it with a commit token. The handler submits it to a local SMTP
listener, sends the token back to commit, and only then answers 250. Everything
unproven is answered 451, and the MTA tries again. What makes this correct: a
notification is not sent twice without a failure that explains it, a committed
coordinate stays committed, nothing is acknowledged that was not sent and recorded, and
no failure blocks a coordinate for ever.

### Key resolution, key rotation, daemon lifecycle (modelled)

| Part | State | Operations | Hard behaviour |
| --- | --- | --- | --- |
| Key resolver (`internal/keyresolver`) | flights by key, lookup tokens, TTL/LRU cache | `Resolve`, `ResolveDomainPolicy`, the worker of a flight | the last waiter leaves while the lookup ends or another joins; an answer grows old before it is published |
| Rotation campaigns (`cmd/dkim2d/internal/rotationadmin`, `rotationruntime`, `datasource/postgresql`, `datasource/sqlsnapshot`, `datasourceadmin`) | one durable journal per campaign; administration lock, current pointer, staged generations, terminal records | `run`, `emergency`, `abort` | a crash or failed call between a journal entry and the effect it announces, competing campaigns |
| Retention and purging (`datasourceadmin/retention.go`, `rotationadmin/purge_*.go`, `datasource/postgresql/purge.go`) | the plan artifact, receipts | `purge plan`, `purge apply` | plans out of date, purges that end halfway, numbers given again |
| Daemon lifecycle (`cmd/dkim2d/internal/app/lifecycle.go`, `readiness.go`) with the HTTP owner (`internal/httpjson/server_runtime.go`, `server_lifecycle.go`) and the health probe | one mutex, four words outside it, owners, serve and probe goroutines, registration gate | `Start`, `Stop`, `NotifyFatal`, `NotifyServeReturn`, the ordered teardowns | a fatal event between any two steps of Start or Stop, bounded waits that run out |

The daemon verifies and signs through the resolver and through a datasource generation. A
rotation campaign makes the next generation: it freezes the current one, makes keys, stages a
candidate, waits until DNS shows the new records, announces the activation in its journal, moves
the pointer, records the campaign closed. Correct means: generations that were ever current form
one chain, the journal knows what to look for after any crash, nothing still needed is purged, a
lookup is shared without tying callers to one another, and the daemon says it is ready only
while it serves and closes what it owns only when nobody can reach it.

### The rest (not modelled)

* datasource runtime (`datasource/runtime`): snapshot generations held by leases during a
  refresh. Correct when a pinned generation is open, and a failed refresh stops serving.
* replay runtime of the daemon (`replay_runtime.go`): a bounded close shared by callers.
  `DaemonLifecycle` takes it as one step that may fail.
* HTTP admission and working-set bounds (`httpjson`), process signals and wiring.
* domain onboarding (`domainadmin`): a second journalled machine like the campaign's.
* signing store: staged key files published across a crash.
* LDAP and MySQL administration. The LDAP purge checks its fence and then deletes entry by entry,
  so the atomic `PurgeGeneration` does not speak for it.
* milter and Exim adapters: session machines, the evidence store shared by processes.
* pure algorithms: decision matrix, policy rows, verification of a hop chain, recipes
  (apply after generate is the identity), route tickets.
* byte-level formats, cryptography, command-line tools, metrics, generated and vendored
  code stay out: there is nothing in them that a small instance tells apart. They are most of
  the repository's lines, so the mapped share of the whole stays small however much of the
  stateful code is modelled.

## 2. Modules

| Module | Models | Uses |
| --- | --- | --- |
| `PropagationStore` | what a store promises for one coordinate (abstract specification) | |
| `RedisPropagation`, `MCRedisPropagation` | the Redis provider's writes, retries and replies | extends the contract's variables |
| `MemoryReplayStore` | the memory provider, all operations and Close | refinement of the contract by `INSTANCE` |
| `RedisStoreLifecycle` | admission, closing, recovery of one Redis store | |
| `DsnPropagation` | MTA, adapter, daemon, ledger, store and listener together | |
| `ReinjectSession` | one timed SMTP submission and the calls around it | |
| `LmtpSession`, `LmtpRuntime` | the LMTP receiver: one connection, and the listener | |
| `KeyResolver`, `MCKeyResolver` | flights, waiters, cache and publication | |
| `RotationCampaign` | campaigns over journals and the SQL datasource | |
| `RetentionPurge` | retention, purge plan and apply | extends `RotationCampaign` with the generations it removes |
| `DaemonLifecycle` | Start, Stop, fatal events, teardown, with the HTTP owner and the probe | |
| `PropagationProofs` | theorems of the contract, and that the Redis provider implements it | extends `RedisPropagation` |
| `RetentionPurgeProofs` | theorems of campaigns and purges together | extends `RetentionPurge` |
| `LmtpProofs` | theorems of the listener and of a session | extends `LmtpRuntime` and `LmtpSession`, which share no state |
| `DsnProofs` | theorems of the propagation and of one attempt | extends `DsnPropagation` and `ReinjectSession`, which share no state |
| the other `*Proofs` | theorems of the module whose name they carry | |

How state corresponds to code:

* **PropagationStore.** `rec` is the stored value, `ttl` the end of its retention,
  `stamp[c]` the lease expiry a call writes (its own wall clock plus the lease),
  `grants` the calls whose value the record has held. `Take`, `Settle` and `Return` are
  separate, since a provider may apply a write whose answer is lost. The commit settles
  a pending record whoever holds it, as in both providers.
* **RedisPropagation.** One action per message: `Dispatch` and `Retry` put a write on
  the wire, `ExecInsert`, `ExecTakeover` and `ExecCommit` run it, `Lose` drops it,
  `Deliver` is the code after each reply (`ReadInsert`, `mapTakeover`, `ReadCommit`).
  The nonce in a value makes it the call's own, so a value is a record with its writer.
  The clock is read once, in `BeginReserve`, as in the code.
* **MemoryReplayStore.** `pc` follows a call through `validateKeyRequest`/`admit`, the
  token channel, `captureOperationNow`, the operation under the token, `releaseToken`
  and `finish`. Pruning, ceiling and heap order are those of the code, with keys ordered
  as their bytes are.
* **RedisStoreLifecycle.** Operations and probes are goroutines that start over. A slot
  that has been taken and an operation that has been registered under the lock are
  different steps, which is where closing interferes. The servers go down and come back
  at will; `up` means that every primary answers PING. An operation may fail transiently all the
  same (its context ends, the pool has no connection, the server replies OOM, READONLY or BUSY),
  so its outcome does not depend on `up`. What it writes is left to `RedisPropagation`.
* **DsnPropagation.** All copies share one coordinate. A handler is a slot with a step,
  a request at the daemon and an answer on its way; handler and request are separate, so
  a request goes on after its handler has timed out or died. Leases and token lifetimes
  count down. The verification result is `kind`; it may turn from eligible to not eligible when
  the daemon evaluates again after the reservation. Verification itself is outside. The store may
  forget the record at any time, under a running lease too. `injected`, `settled` and `excuses` are history variables; `excuses` grows at
  exactly the events that may let the coordinate be served again: an ambiguous
  submission, a failed or unanswered commit, a crash before the commit answered, a lease
  that ends under a running attempt, a store that forgets a commit or the lease of an attempt in
  progress.
* **ReinjectSession.** `Script` is the body of `session.run` between the two daemon calls,
  one entry per read and write with the deadline the code sets for it. `elapsed` counts
  from the reservation.
* **LmtpSession.** Beside the server's fields, `view` is what a client believes after the
  replies it has read.
* **LmtpRuntime.** The accept loop, each connection's goroutine, the shutdown under
  `closeOnce` and its WaitGroup watcher are separate processes; admission is split where
  the code releases the lock.
* **KeyResolver.** A flight is named by the caller that started it, so an abandoned flight and
  its successor on the same key exist side by side. The worker reads the clock for the admission
  outside the lock (`PrepareAdmission`) and decides under it (`Finish`). `stale` and `published`
  are history: which calls returned something out of date, and the newest answer ever published
  per key. A deadline is exact in the model; the runtime's timer may fire a little behind it.
* **RotationCampaign.** `journal` is the durable file. The journal in memory differs from it only
  between a transition and its save, which the process's `step` tells. Every backend call is one
  serializable transaction that, under a fault, may or may not take effect and reports an error;
  `Save` may leave either revision. Content is the number of the key generation that made it. A row
  is marked as once active when the pointer arrives, in the code when it leaves; for rows that are
  not current, the only ones whose mark is read, that is the same.
* **RetentionPurge.** The inventory is read twice and must agree, hence one reading; the plan is
  the latest; `purge_generation` is one step per target, with campaigns running between them. The
  check that the current row is complete and trusted is left out, so more plans pass.
  Receipts keep the row they stand for, so the properties still speak of purged generations.
* **DaemonLifecycle.** Every access to a word outside the mutex is a step. `mu` says who keeps the
  mutex over several steps. Both teardowns, of a stop and of a failed start, are the one
  `teardown` with the order the code gives each. A wait that is bounded in the code may give up
  at any time.

## 3. Runs

| Run | Instance | Shows |
| --- | --- | --- |
| `redis_retry` | 2 reservations, 1 commit, 3 sends each, clocks 1 tick apart, lease 1, retention 2, clock to 2 | the provider implements the contract; leases are exclusive |
| `memory_close` | 2 reservations, commit, check, closer, clock faults | contract; nothing after clear |
| `memory_bounds` | 3 calls, 3 keys, ceiling 2, prune budget 1, 2 closers, fair | pruning, first-seen retention; Close returns |
| `redis_lifecycle` | 3 operations, 1 probe, 1 closer, 1 slot, 1 waiter, fair | no use after release, slots conserved; waiters leave, closing drains; recovery without traffic, lasting once no operation keeps failing |
| `dsn_propagation` | 2 copies, 2 connections, 3 failures, lease 2, token life 3, fair | no unexcused duplicate, no acknowledgement without commit, no commit without submission; every copy leaves the queue |
| `lmtp_session` | 3 forward paths, any command order | views agree, the handler gets the transaction |
| `lmtp_runtime` | 3 connections, 2 slots, 2 closers, fair | readiness, quiet after a clean close, none overlooked; a bounded Close returns |
| `reinject` | unit deadlines, data and request 2, fair | what an outcome proves; how long an attempt can take; an attempt ends |
| `reinject_budget` | a configuration that passes the load-time check | violated: the attempt outlives the lease |
| `key_resolver` | 3 callers, 2 keys, 2 lookups, 2 waiters, 1 cache entry, TTL and time-out 1, clock to 2 | a live waiter keeps its lookup, no lookup without a caller or caller without a lookup, answers fresh when the call began |
| `rotation` | 2 journals of 2 runs each, 2 DNS batches, 2 outstanding candidates, 3 faults; purge down to 1 generation, 1 rollback, no closed one, 2 at a time; fair | one lineage, announced before moved, journals tell the truth, nothing needed is purged; a campaign in activating is settled |
| `daemon` | 1 request, 2 stoppers, fair | ready means serving, no use after close, a clean stop lost nothing, a stop is final; Start and Stop return |

A run that checks liveness uses the fair specification, whose safety properties are those
of the plain one: fairness removes no reachable state.

**Bounds.** `MaxClock`, `MaxSends` and `MaxFaults` only bound a behaviour; every other
constant is a parameter of the code. Two attempts are the smallest instance in which one
takes over from another; two takeovers that compete for a third party's value need three
and are left to the theorems, which hold for any number. A lease of one or two ticks with
a longer retention lets a lease end before the record does. Three sends are an original, a
repeat whose earlier copy is still on the wire, and a takeover. Three failures allow a lost
reply, a crash and an expiry in one behaviour, which is enough for a duplicate of a
duplicate. The run is of a persistent store; a store that forgets on restart and the adapter
that acknowledges rejects (`Persistent`, `DiscardRejects`) are covered by the theorems. Ceiling,
budget and slots sit one below the number of competitors, so limits are met. In `key_resolver`
three callers are one that leaves, one that stays and one that starts the next flight; one cache
entry for two keys forces eviction; the callers are symmetric, and the run checks no liveness.
`rotation` needs two journals for competition, two runs of each for a command repeated under a
new operation, and three faults for a crash, a crashed repair and a purge that ends halfway. Its
retention is as tight as the code admits, and lets the newest candidate be purged and its
number given to another campaign while journals, plans and receipts still name the old one. In `daemon` one
connection is enough to be idle, refused, registered or fatal at any point, and two stoppers are
one that owns the stop and one that joins it. Deadlock
is not checked: every model may come to rest (calls return, connections end, the clock
stops at its bound).

**Fairness.** Goroutines that can run do (weak fairness per goroutine, the Go scheduler).
A waiter in a `select` and a copy in the MTA's queue compete with others for something
that keeps coming free, so each needs strong fairness: Go's channels serve blocked
receivers in order, and an MTA retries its queue. The probe loop runs for as long as the
daemon, and its probes are not cancelled for ever. In `LmtpRuntime` only the shutting
goroutine and its timers are fair, in `ReinjectSession` only the adapter; clients,
handlers, listeners and servers owe nothing. In `DaemonLifecycle` the daemon's own goroutines
run and the timers of its waits fire; clients, handlers that compute, and callers that have not
called Stop owe nothing, and a producer is known to return only once it is told to. In
`RotationCampaign` a command that was started goes on, and an operator who finds a campaign in
activating runs the command again; purges are never forced. No failure, cancellation or close is ever
forced.

**Mutants.** For each property of a passing run `PROJECT.json` names a small change of a
mapped definition (a dropped re-read, an off-by-one, a leaked slot) under which the same
run finds the property violated. They are defined beside the definition they replace.

## 4. What disagrees with the documentation

`reinject_budget` (a run): the load-time check adds each time-out once, the session applies the
command time-out up to eleven times and the data time-out twice. With a slow listener an attempt
outlives its lease and a second copy is served meanwhile
(`cmd/dkim2-dsn-propagator/README.md:184-186`). It does not break the safety of
`dsn_propagation`, where it turns up as an excuse.

Seen while modelling and not run. The models contain the behaviours unless said otherwise, and
the properties of section 3 hold in spite of them.

* *Replay retention.* Nothing requires the retention to be at least the lease
  (`cmd/dkim2d/internal/config/config.go:537` and `1355` bound each on its own); if it is shorter, a live lease no longer
  closes the window for concurrent copies
  (`docs/specs/implementation/delivery-status-propagation.md:713-715`). `ExclusiveLease` therefore
  speaks of the shorter of the two, and in `DsnPropagation` a record forgotten under a lease is one
  of the excuses for a second submission.
* *Tokens.* A token lives for the lease and a minute in one process, not for "the ordinary
  retention" (same file, lines 725-726).
* *Propagator.* `server.max_in_flight_transactions` is validated and never used
  (`cmd/dkim2-dsn-propagator/README.md:167`). A `Start` that was cancelled closes with a
  background context, so a busy client can hold it (`internal/lmtp/runtime.go:130`).
* *Abort.* The terminal record carries the time of the call in nanoseconds, PostgreSQL keeps
  microseconds, and the row read back is compared exactly: the command almost always fails after
  the record is written, the journal stays as it was, and a later run activates a campaign
  whose abort is on record (`rotationadmin/terminal.go:34`). Abort claims no lock, so it succeeds
  only while an earlier run has left it claimed. A campaign in `reconcile_required` cannot be
  aborted.
* *Proof age.* Receipts are never renewed: a campaign whose proofs are too old stays in
  `dns_complete` (`docs/operator/datasource-key-rotation.md:40-42`).
* *Orphan lock.* Each run without a journal draws a new operation; one that dies between the claim
  and its first save leaves the lock to an operation no journal knows.
* *Purge repeated.* When all targets of a plan are gone, the rows rebuilt from the plan carry
  neither operation nor source, so a repeated apply is never recognised as done
  (`docs/specs/implementation/native-datasource-rotation-campaign-retention.md:325`), and
  `ReconcilePurge` is called by no command (`docs/operator/datasource-key-rotation.md:180`).
* *Number given again.* After the newest candidate is purged its number is allocated again; the
  receipts' primary key is the number, so that generation can never be purged.
* *Rollback of a start.* With the transport bound and the serve loop not started, Shutdown and
  ForceClose both refuse and `rollbackOwners` returns with replay runtime and material open,
  where its comment promises "strict reverse order". The process ends after a failed start.
* *Datasource refresh* (not modelled). A load that returns after its context has ended is dropped
  without `discardCandidate`, so its registry is not closed (`datasource/runtime/runtime.go`).

## 5. Proofs

TLAPS proves the following for all values of the constants.

* **PropagationProofs, the contract.** Types; a committed record is final; leases are
  exclusive. Lease and retention are configured independently, so what is exclusive is the
  `Term`, the shorter of the two, counted from the caller's clock reading; no relation between
  them is assumed. The record cannot be `Free` before the term is over. That needs
  `StoreInv`: the record is the value of a granted call (`HeldByGrantee`), no stamp lies
  further ahead than skew and lease allow (`Stamped`), and every term still running is
  covered by the record and its retention (`Covered`). With the lease in place of the term it
  fails: see section 4. Two takeovers that compete for a third call's value are covered here,
  for any number of calls, and not by the run.
* **PropagationProofs, the Redis provider.** `RSpec` implements the contract, and so inherits its
  theorems. The difficulty is time between a write, its reply and the reading of it. The
  invariant `RedisInv` says what a reply on its way still proves when it is read
  (`ReplyOK`: a nil reply to an insert proves the caller was granted, and so on) and that
  any takeover, on the wire or awaited, expects a foreign lease that was over on its
  sender's clock (`SeenOK`); `ValueOK` ties every value to the call that wrote it. A step
  of the provider is then a step of the contract or a stutter (`StepImplements`).
* **DsnProofs, all copies.** Types; a commit follows a submission; an acknowledgement
  follows a commit (`SafetyInv`). For duplicates, `Account` bounds
  `Debt = injected + Cardinality(Active)`, where `Active` are the attempts that may still
  submit, by `1 + excuses`, and by `excuses` alone unless the record is `Covered`
  (committed, or pending with a running lease under an attempt in progress). The second
  half is what makes it inductive: a new attempt is granted only when nothing is covered,
  so it always finds a unit to spend.
* **RedisStoreLifecycleProofs.** Types, conservation of slots, no use after release, no
  invariant failure in Close, no more waiters than configured, and that a drain is not lost: once
  closing has begun and nothing is in flight, it has been published, so no closing caller waits
  for a wake-up nobody is left to give. `DrainInv` equates the in-flight counter with the set of
  registered work and says a published drain means none is left and none can register.
* **MemoryReplayStoreProofs.** Types, nothing after the map is cleared, first-seen retention, pruning, the
  limits on records and waiters, no invariant failure in Close, and the refinement of the contract.
  The gate counts exactly the calls at work (`Counted`), so the drain comes behind the last one
  and clearing behind the drain (`Draining`). One call at a time has the token (`TokenHeld`), so the
  reading it works with is the newest and records that are gone had lapsed by then (`Readings`,
  `Lapsed`): that is why two first sightings within a retention are impossible although calls read
  the clock at different times. For pruning, take the oldest expired record left behind: all before
  it were removed, and there are at least `PruneBudget` of them; that there is an oldest one comes
  from the well-foundedness of the naturals, without induction. Applying an operation keeps
  the coordinate, notes an answer, takes it or seals it (`Kept`, `Noted`, `Taken`, `Sealed`); with what an
  outcome proves about the history (`Granted`, `Proven`) each is a step of the contract or a
  stutter, where the contract's record after the clearing is the last one before it. The
  provider inherits finality of a commit, and exclusive leases in the same sense. Of
  `CloseReturns` the safety half is proved: while a closing caller waits for the drain, some
  admitted call can go on, either past the token's queue or with the token free to take.
* **LmtpProofs, the listener.** Readiness, quiet after a clean Close, no session overlooked by a forced
  one, and that the slot counter is exactly the number of connections that hold a slot. None of
  the three invariants is inductive: a quiet Close needs that the WaitGroup counts all sessions
  (`WaitCount`) and that none can be added once the accept loop is joined (`Quiet`, `Admission`);
  a forced one needs that the snapshot taken in the critical section that sets `closed` names
  every session that may still wait for its client, the one being admitted included (`Snapshot`).
* **LmtpProofs, a session.** Agreement of the two views is inductive with the types; the
  action property about the handler follows from it.
* **DsnProofs, one attempt.** What an outcome proves and how long an attempt can take, for any
  time-outs. Client and listener move in lockstep: at most one reply is owed, none while the client
  writes (`Lockstep`). So the reply read at `final` is the answer to the message (`Told`), and only
  there can a failure be ambiguous (`Left`). `Spent` adds up the deadlines position by position.
* **KeyResolverProofs.** A live waiter keeps its lookup, no orphan work, fresh answers, and a
  bound on running lookups. The map, the lists of waiters and the callers' own fields must agree
  (`Mapped`, `Listed`, `Present`, `Remembered`). Freshness is dated twice: while the lookup runs
  its answer is not older than the deadline allows and, while the map names the flight, as new as
  anything published (`Observed`); once done it is good for every waiter left (`Delivered`).
* **RetentionPurgeProofs.** The four safety properties of campaigns and purges, over `PurgeSpec`,
  and that a durable journal is a ratchet. `Control` says what the step of a process implies about
  its journal; `Ratchet` how far any step may change one. On top, every row and receipt is
  described by a journal (`RowsDescribed`), the steps about to save a claim already have it
  (`Truthful`), a campaign on its way keeps its row until the pointer has passed it
  (`KeptOrPassed`), and a plan of any age still guarantees that its targets were settled or are
  beyond the rollback window (`PlanSound`). The last one is the heart of it: a plan is used long
  after it was made, and numbers of purged candidates are given again.
* **DaemonLifecycleProofs.** Types, no use after close, readiness, a clean stop lost nothing, and
  the action property that a stop is final. `Turns` says who may run (startup, one teardown, the
  elected stop), `Resources` what a startup at a given place has acquired, `Unwound` what each
  place of a teardown has already established about handlers and goroutines, `Published` what the
  published words promise while neither flag is up, `Accounted` that a fatal flag has reached the
  phase or is about to.

The inductive invariants of the memory provider, the listener, the re-injection, the resolver, the campaigns and the
daemon were also checked by TLC on the instance of their run. Proving them changed two things. `NothingNeededIsPurged` used to speak of every campaign that can be
resumed; with a policy that keeps no rollback generation (`MinRollback = 0`) that is false of one
whose pointer had already been moved and passed, and it now speaks of the campaigns the code
lets go on, those that pass `verifyExpectedCurrent`. And the invariants rest on distinctness of
names that the instances had by luck, now assumed by name (calls of different kinds in the memory
provider, for one).

The assumptions are the named `ASSUME`s of the modules (disjoint and finite sets, positive
durations and limits; `StopperAssumption`: the rollback of a failed start is not a caller of
Stop; `RotationAssumption`: `None` is neither an operation nor a record), evaluated by TLC in the
runs. No theorem assumes more.

**Only model-checked:** all liveness (`CloseReturns`, `WaitersLeave`, `ClosingDrains`,
`RecoversAlone`, `EveryCopySettles`, `SendEnds`, `ActivatingSettles`, `CallsReturn`), which needs
fairness and ENABLED and is out of the prover's reach. The provers do no induction over
data either; where an argument wanted one (the oldest record, counting calls), it rests on the
library's theorems about finite sets and well-founded relations instead.

## 6. Plan

1. *Done:* the contract and its two providers, the Redis lifecycle, the end-to-end
   propagation, the LMTP receiver, the re-injection session; the key resolver, rotation
   campaigns with retention and purging, the daemon lifecycle; the theorems of section 5,
   which state the safety of all of them and both refinements of the contract.
2. *Not proved:* liveness, left to TLC.
3. *Model later:* datasource generations and leases, the replay runtime's shared close, HTTP
   admission, the onboarding journal, the signing store, the process lifecycle of the
   propagator (where an accept loop that died unnoticed belongs), LDAP administration, then the
   milter session, the Exim evidence store and the pure algorithms.
