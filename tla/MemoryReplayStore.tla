------------------------- MODULE MemoryReplayStore --------------------------
(***************************************************************************)
(* The process-local replay provider: MemoryStore and its lifecycleGate    *)
(* (internal/replay/memory.go, lifecycle.go).  Calls are goroutines.  Each *)
(* is admitted by the gate, waits for the one-slot token channel, checks   *)
(* the lifecycle, reads the clock, prunes, applies its operation, gives    *)
(* the token back and leaves the gate; closing callers run against them.   *)
(*                                                                         *)
(* One propagation coordinate shares the bounded map with first-seen       *)
(* records.  The two key families are separated by their HMAC label        *)
(* (PropagationKeyDomainLabel), so a key never changes its record kind.    *)
(***************************************************************************)
EXTENDS Integers, FiniteSets

CONSTANTS Reserves, Commits,  \* propagation calls, all on Coord
          Checks,             \* calls of CheckAndRemember
          Closers,            \* calls of Close
          NoCall,             \* "no call"
          Coord, FirstKeys,   \* storage keys: naturals, ordered like their bytes
          Lease, Retention,
          MaxEntries, MaxWaiters, PruneBudget,    \* Limits
          MaxClock            \* bound: the clock stops here

Props == Reserves \cup Commits
Calls == Props \cup Checks
Keys  == FirstKeys \cup {Coord}

ASSUME MemoryAssumption ==
    /\ Coord \in Nat \ FirstKeys /\ FirstKeys \subseteq Nat /\ IsFiniteSet(FirstKeys)
    /\ Reserves \cap Commits = {} /\ Props \cap Checks = {}
    /\ NoCall \notin Calls /\ IsFiniteSet(Calls)
    /\ Lease \in Nat \ {0} /\ Retention \in Nat \ {0} /\ MaxClock \in Nat
    /\ MaxEntries \in Nat \ {0} /\ MaxWaiters \in Nat \ {0} /\ PruneBudget \in Nat \ {0}

VARIABLES
    clock,      \* what the injected clock reads
    state,      \* lifecycleGate.state
    inFlight,   \* lifecycleGate.inFlight
    drained,    \* lifecycleGate.drainPublished, the drained channel is closed
    token,      \* holder of the token, NoCall when the channel holds it
    entry,      \* entry[k]: the record of key k
    expiry,     \* expiry[k]: end of its retention
    lastNow,    \* newest operation time
    pc, key, at, result,    \* of every call: step, key, clock reading, outcome
    cpc,        \* step of every closing call
    cleared,    \* closeOnce has run
    grants, settled, final  \* history: coordinate taken by, ever committed,
                            \* its record when the map was cleared

gateVars  == <<state, inFlight, drained>>
tableVars == <<entry, expiry, grants, settled>>
callVars  == <<pc, key, at, result>>
vars == <<clock, gateVars, token, tableVars, lastNow, callVars, cpc, cleared, final>>

Absent       == [st |-> "absent", by |-> NoCall, exp |-> 0]
Committed    == [st |-> "committed", by |-> NoCall, exp |-> 0]
Pending(c,e) == [st |-> "pending", by |-> c, exp |-> e]
FirstSeen    == [st |-> "first_seen", by |-> NoCall, exp |-> 0]

NotRead == -1       \* the call has not read the clock

Steps == {"idle", "admitted", "queued", "token", "checked", "captured", "applied",
          "released", "done"}
Results == {"none", "reserved", "pending", "committed", "unresolved", "first_seen",
            "replayed", "closed", "invariant", "limit", "cancelled", "unprunable"}

TypeOK ==
    /\ clock \in 0..MaxClock /\ lastNow \in 0..MaxClock
    /\ state \in {"ready", "degraded", "closing", "closed"}
    /\ inFlight \in 0..Cardinality(Calls) /\ drained \in BOOLEAN
    /\ token \in Calls \cup {NoCall}
    /\ entry \in [Keys -> [st : {"absent", "pending", "committed", "first_seen"},
                           by : Reserves \cup {NoCall}, exp : Nat]]
    /\ expiry \in [Keys -> Nat]
    /\ pc \in [Calls -> Steps] /\ result \in [Calls -> Results]
    /\ key \in [Calls -> Keys] /\ at \in [Calls -> Nat \cup {NotRead}]
    /\ cpc \in [Closers -> {"idle", "waiting", "drained", "cleared", "closed",
                            "cancelled", "invariant"}]
    /\ cleared \in BOOLEAN

Init ==
    /\ clock = 0 /\ lastNow = 0
    /\ state = "ready" /\ inFlight = 0 /\ drained = FALSE
    /\ token = NoCall
    /\ entry = [k \in Keys |-> Absent] /\ expiry = [k \in Keys |-> 0]
    /\ pc = [c \in Calls |-> "idle"] /\ result = [c \in Calls |-> "none"]
    /\ key \in [Calls -> Keys]
    /\ \A c \in Calls : IF c \in Checks THEN key[c] \in FirstKeys ELSE key[c] = Coord
    /\ at = [c \in Calls |-> NotRead]
    /\ cpc = [q \in Closers |-> "idle"] /\ cleared = FALSE
    /\ grants = {} /\ settled = FALSE /\ final = Absent

Goto(c, step) == pc' = [pc EXCEPT ![c] = step]
Conclude(c, r, step) == /\ Goto(c, step)
                        /\ result' = [result EXCEPT ![c] = r]

(***************************************************************************)
(* The lifecycle gate.                                                     *)
(***************************************************************************)
(* publishDrainLocked                                                      *)
PublishDrain(s, n) == drained' = (drained \/ (s = "closing" /\ n = 0))

(* validateKeyRequest and lifecycleGate.admit                              *)
Admit(c) == /\ pc[c] = "idle"
            /\ \/ /\ state = "ready"
                  /\ inFlight' = inFlight + 1
                  /\ Goto(c, "admitted")
                  /\ UNCHANGED result
               \/ /\ state # "ready"
                  /\ Conclude(c, IF state = "degraded" THEN "invariant" ELSE "closed", "done")
                  /\ UNCHANGED inFlight
            /\ UNCHANGED <<clock, state, drained, token, tableVars, lastNow, key, at,
                           cpc, cleared, final>>

(* Mutant: the last call to leave does not publish the drain.              *)
FinishSilent(c) == /\ pc[c] = "released"
                   /\ inFlight' = inFlight - 1
                   /\ Goto(c, "done")
                   /\ UNCHANGED <<clock, state, drained, token, tableVars, lastNow, key, at,
                                  result, cpc, cleared, final>>

(* lifecycleGate.finish, the last deferred call                            *)
Finish(c) == /\ pc[c] = "released"
             /\ inFlight' = inFlight - 1
             /\ PublishDrain(state, inFlight - 1)
             /\ Goto(c, "done")
             /\ UNCHANGED <<clock, state, token, tableVars, lastNow, key, at, result,
                            cpc, cleared, final>>

(***************************************************************************)
(* acquireToken and releaseToken.                                          *)
(***************************************************************************)
TakeToken(c) == /\ token = NoCall
                /\ token' = c
                /\ Goto(c, "token")
                /\ UNCHANGED result

Waiting == {c \in Calls : pc[c] = "queued"}

Acquire(c) ==
    /\ pc[c] = "admitted"
    /\ \/ TakeToken(c)
       \/ /\ token # NoCall
          /\ \/ /\ Cardinality(Waiting) < MaxWaiters
                /\ Goto(c, "queued")
                /\ UNCHANGED result
             \/ /\ Cardinality(Waiting) >= MaxWaiters
                /\ Conclude(c, "limit", "released")
          /\ UNCHANGED token
    /\ UNCHANGED <<clock, gateVars, tableVars, lastNow, key, at, cpc, cleared, final>>

Dequeue(c) ==
    /\ pc[c] = "queued"
    /\ TakeToken(c)
    /\ UNCHANGED <<clock, gateVars, tableVars, lastNow, key, at, cpc, cleared, final>>

(* The caller's context ends while it waits or before it reads the clock.  *)
Cancel(c) ==
    /\ pc[c] \in {"queued", "token", "checked"}
    /\ Conclude(c, "cancelled", IF pc[c] = "queued" THEN "released" ELSE "applied")
    /\ UNCHANGED <<clock, gateVars, token, tableVars, lastNow, key, at, cpc, cleared, final>>

Release(c) ==
    /\ pc[c] = "applied"
    /\ token' = NoCall
    /\ Goto(c, "released")
    /\ UNCHANGED <<clock, gateVars, tableVars, lastNow, key, at, result, cpc, cleared, final>>

(***************************************************************************)
(* captureOperationNow: the lifecycle is checked again, then the clock.    *)
(***************************************************************************)
CheckState(c) ==
    /\ pc[c] = "token"
    /\ \/ state = "ready" /\ Goto(c, "checked") /\ UNCHANGED result
       \/ state # "ready" /\ Conclude(c, IF state = "degraded" THEN "invariant" ELSE "closed",
                                      "applied")
    /\ UNCHANGED <<clock, gateVars, token, tableVars, lastNow, key, at, cpc, cleared, final>>

Capture(c) ==
    /\ pc[c] = "checked"
    /\ at' = [at EXCEPT ![c] = clock]
    /\ lastNow' = clock
    /\ Goto(c, "captured")
    /\ UNCHANGED <<clock, gateVars, token, tableVars, key, result, cpc, cleared, final>>

(* lifecycleGate.degrade: compare-and-swap from ready only.                *)
degrade == state' = IF state = "ready" THEN "degraded" ELSE state

(* The clock fails or reads an instant before the last operation.          *)
ClockFault(c) ==
    /\ pc[c] = "checked"
    /\ degrade
    /\ Conclude(c, "invariant", "applied")
    /\ UNCHANGED <<clock, inFlight, drained, token, tableVars, lastNow, key, at,
                   cpc, cleared, final>>

(***************************************************************************)
(* liveEntry, pruneExpired and insertEntry, at the instant the call read.  *)
(***************************************************************************)
Present == {k \in Keys : entry[k] # Absent}

(* Mutant: a record is dropped in the last instant of its retention.       *)
ExpiredEarly(now) == {k \in Present : expiry[k] <= now + 1}

Expired(now) == {k \in Present : expiry[k] <= now}

(* expiryHeap.Less                                                         *)
Before(k, l) == expiry[k] < expiry[l] \/ (expiry[k] = expiry[l] /\ k < l)

(* Mutant: pruning stops one record short of its budget.                   *)
PrunedShort(now) == {k \in Expired(now) :
                       Cardinality({l \in Expired(now) : Before(l, k)}) < PruneBudget - 1}

(* pruneExpired: the oldest expired records, at most PruneBudget.          *)
Pruned(now) == {k \in Expired(now) :
                   Cardinality({l \in Expired(now) : Before(l, k)}) < PruneBudget}

Rest(now) == [k \in Keys |-> IF k \in Pruned(now) THEN Absent ELSE entry[k]]

liveEntry(k, now) ==
    IF Rest(now)[k] = Absent THEN "absent"
    ELSE IF expiry[k] > now THEN "live"
    ELSE IF Cardinality(Pruned(now)) >= PruneBudget THEN "limit" ELSE "unprunable"

(* insertEntry's ceiling                                                   *)
Full(now) == Cardinality(Present \ Pruned(now)) >= MaxEntries

Keep(c, r) == /\ result' = [result EXCEPT ![c] = r]
              /\ entry' = Rest(at[c])
              /\ UNCHANGED <<expiry, grants, settled>>

Put(c, v, r) == /\ result' = [result EXCEPT ![c] = r]
                /\ entry' = [Rest(at[c]) EXCEPT ![key[c]] = v]
                /\ expiry' = [expiry EXCEPT ![key[c]] = at[c] + Retention]

Lookup(c) == liveEntry(key[c], at[c])
Refused(c) == /\ Lookup(c) \in {"limit", "unprunable"}
              /\ Keep(c, Lookup(c))

Insert(c, v, r) == /\ Lookup(c) = "absent"
                   /\ \/ Full(at[c]) /\ Keep(c, "limit")
                      \/ /\ ~Full(at[c])
                         /\ Put(c, v, r)
                         /\ grants' = IF v.st = "pending" THEN grants \cup {c} ELSE grants
                         /\ UNCHANGED settled

(* rememberStorageKey                                                      *)
rememberStorageKey(c) ==
    \/ Refused(c)
    \/ Lookup(c) = "live" /\ Keep(c, "replayed")
    \/ Insert(c, FirstSeen, "first_seen")

(* Mutant: an unfinished reservation is refreshed while its lease runs.    *)
reservePropagationKeyEager(c) ==
    LET own == Pending(c, at[c] + Lease) IN
    \/ Refused(c)
    \/ Insert(c, own, "reserved")
    \/ /\ Lookup(c) = "live"
       /\ \/ entry[Coord].st = "committed" /\ Keep(c, "committed")
          \/ /\ entry[Coord].st = "pending"
             /\ Put(c, own, "reserved")
             /\ grants' = grants \cup {c}
             /\ UNCHANGED settled

reservePropagationKey(c) ==
    LET own == Pending(c, at[c] + Lease) IN
    \/ Refused(c)
    \/ Insert(c, own, "reserved")
    \/ /\ Lookup(c) = "live"
       /\ \/ entry[Coord].st = "committed" /\ Keep(c, "committed")
          \/ entry[Coord].st = "pending" /\ entry[Coord].exp > at[c] /\ Keep(c, "pending")
          \/ /\ entry[Coord].st = "pending" /\ entry[Coord].exp <= at[c]
             /\ Put(c, own, "reserved")
             /\ grants' = grants \cup {c}
             /\ UNCHANGED settled

(* The body of CommitPropagation; the expiry is kept.                      *)
commitPropagation(c) ==
    \/ Refused(c)
    \/ Lookup(c) = "absent" /\ Keep(c, "unresolved")
    \/ /\ Lookup(c) = "live"
       /\ result' = [result EXCEPT ![c] = "committed"]
       /\ entry' = [Rest(at[c]) EXCEPT ![Coord] = Committed]
       /\ settled' = TRUE
       /\ UNCHANGED <<expiry, grants>>

Apply(c) ==
    /\ pc[c] = "captured"
    /\ \/ c \in Checks /\ rememberStorageKey(c)
       \/ c \in Reserves /\ reservePropagationKey(c)
       \/ c \in Commits /\ commitPropagation(c)
    /\ Goto(c, "applied")
    /\ UNCHANGED <<clock, gateVars, token, lastNow, key, at, cpc, cleared, final>>

(***************************************************************************)
(* Close.                                                                  *)
(***************************************************************************)
ClosePC(q, step) == cpc' = [cpc EXCEPT ![q] = step]

beginClose(q) ==
    /\ cpc[q] = "idle"
    /\ ClosePC(q, "waiting")
    /\ state' = IF state \in {"ready", "degraded"} THEN "closing" ELSE state
    /\ PublishDrain(state', inFlight)
    /\ UNCHANGED <<clock, inFlight, token, tableVars, lastNow, callVars, cleared, final>>

(* Mutant: cleanup does not wait for admitted work.                        *)
waitForDrainSkipped(q) ==
    /\ cpc[q] = "waiting"
    /\ ClosePC(q, "drained")
    /\ UNCHANGED <<clock, gateVars, token, tableVars, lastNow, callVars, cleared, final>>

waitForDrain(q) ==
    /\ cpc[q] = "waiting"
    /\ drained
    /\ ClosePC(q, "drained")
    /\ UNCHANGED <<clock, gateVars, token, tableVars, lastNow, callVars, cleared, final>>

AbandonClose(q) ==
    /\ cpc[q] = "waiting"
    /\ ClosePC(q, "cancelled")
    /\ UNCHANGED <<clock, gateVars, token, tableVars, lastNow, callVars, cleared, final>>

(* closeOnce: the first caller takes the token and clears the map.         *)
clearOnce(q) ==
    /\ cpc[q] = "drained"
    /\ ClosePC(q, "cleared")
    /\ \/ /\ ~cleared /\ token = NoCall
          /\ cleared' = TRUE
          /\ final' = entry[Coord]
          /\ entry' = [k \in Keys |-> Absent]
          /\ lastNow' = 0
       \/ cleared /\ UNCHANGED <<cleared, final, entry, lastNow>>
    /\ UNCHANGED <<clock, gateVars, token, expiry, grants, settled, callVars>>

publishClosed(q) ==
    /\ cpc[q] = "cleared"
    /\ \/ /\ state = "closed" \/ (state = "closing" /\ inFlight = 0 /\ drained)
          /\ state' = "closed"
          /\ ClosePC(q, "closed")
       \/ /\ ~(state = "closed" \/ (state = "closing" /\ inFlight = 0 /\ drained))
          /\ ClosePC(q, "invariant")
          /\ UNCHANGED state
    /\ UNCHANGED <<clock, inFlight, drained, token, tableVars, lastNow, callVars,
                   cleared, final>>

Tick == /\ clock < MaxClock
        /\ clock' = clock + 1
        /\ UNCHANGED <<gateVars, token, tableVars, lastNow, callVars, cpc, cleared, final>>

CallStep(c) == \/ Admit(c) \/ Acquire(c) \/ Dequeue(c) \/ CheckState(c) \/ Capture(c)
               \/ Apply(c) \/ Release(c) \/ Finish(c)
CloseStep(q) == waitForDrain(q) \/ clearOnce(q) \/ publishClosed(q)

Next == \/ Tick
        \/ \E c \in Calls : CallStep(c) \/ Cancel(c) \/ ClockFault(c)
        \/ \E q \in Closers : beginClose(q) \/ CloseStep(q) \/ AbandonClose(q)

Spec == Init /\ [][Next]_vars

(* Goroutines that can run eventually do; nothing forces a clock fault, a  *)
(* cancelled context or an abandoned close.                                *)
FairSpec == /\ Spec
            /\ \A c \in Calls : WF_vars(CallStep(c))
            /\ \A q \in Closers : WF_vars(CloseStep(q))

(***************************************************************************)
(* Properties.                                                             *)
(***************************************************************************)
(* The storage contract, on the one coordinate.                            *)
AnswerOf(c) == CASE pc[c] # "done" -> "none"
                 [] pc[c] = "done" /\ result[c] \in {"reserved", "pending", "committed",
                                                     "unresolved"} -> result[c]
                 [] OTHER -> "error"

Store == INSTANCE PropagationStore WITH
            MaxSkew <- 0,
            rec    <- IF cleared THEN final ELSE entry[Coord],
            ttl    <- expiry[Coord],
            stamp  <- [c \in Reserves |-> IF at[c] = NotRead THEN 0 ELSE at[c] + Lease],
            answer <- [c \in Props |-> AnswerOf(c)]

(* StoreContract: token hand-over, bounded pruning and the entry ceiling   *)
(* notwithstanding, the provider implements the storage contract.          *)
StoreContract == Store!Spec

(* NothingAfterClear: once closing has cleared the map no call holds or    *)
(* gets the token with work to do, so no record is resurrected and no      *)
(* reservation is granted on an emptied map.                               *)
NothingAfterClear ==
    cleared => /\ \A k \in Keys : entry[k] = Absent
               /\ \A c \in Calls : pc[c] \in {"idle", "done"}

(* PruneReachesEveryExpired: a call meets an expired record of its own key *)
(* only when its prune budget was used up by older ones; the internal      *)
(* invariant of liveEntry is unreachable.                                  *)
PruneReachesEveryExpired == \A c \in Calls : result[c] # "unprunable"

(* FirstSeenOnce: a key is called first seen again only when a full        *)
(* retention has passed since the instant of the call that last inserted   *)
(* it (expiry[k] keeps that end when the record itself is pruned).         *)
FirstSeenOnce ==
    [][\A k \in FirstKeys : expiry[k] > 0 /\ expiry'[k] # expiry[k] =>
           expiry'[k] >= expiry[k] + Retention]_vars

(* CloseReturns: a closing caller is not left waiting: admitted work       *)
(* drains whatever order the goroutines run in.                            *)
CloseReturns == \A q \in Closers :
                   cpc[q] = "waiting" ~> cpc[q] \in {"closed", "cancelled"}
=============================================================================
