----------------------------- MODULE KeyResolver -----------------------------
(***************************************************************************)
(* The key resolver (internal/keyresolver): a bounded TTL/LRU cache in     *)
(* front of DNS lookups, and the flight group that lets callers with the   *)
(* same key share one lookup.  A flight is named by the caller that        *)
(* started it.  What an answer says is left out; an answer is known by the *)
(* time of its observation.  The resolver's own context is left out: when  *)
(* it ends, lookups end as they do at their deadline.                      *)
(***************************************************************************)
EXTENDS Integers, FiniteSets, SequencesExt

CONSTANTS Callers,      \* calls of Resolve or ResolveDomainPolicy, each once
          None,
          Keys,         \* cache keys
          MaxLookups,   \* limits.MaxConcurrentLookups
          MaxWaiters,   \* limits.MaxCoalescedWaiters
          Capacity,     \* limits.MaxCacheEntries
          MaxTTL,       \* the caps of limits
          Timeout,      \* limits.LookupTimeout
          MaxTime       \* bound of the clock

ASSUME ResolverAssumption ==
    /\ None \notin Callers \cup Keys /\ IsFiniteSet(Callers)
    /\ {MaxLookups, MaxWaiters, Timeout} \subseteq Nat \ {0}
    /\ {Capacity, MaxTTL, MaxTime} \subseteq Nat

VARIABLES
    now,                \* the clock
    call,               \* each call: step, key, flight, and when it began
    ctxDone,            \* calls under way whose context has ended
    stale,              \* history: calls that returned an answer out of date
    flights,            \* flightGroup.flights
    flight,             \* every flight that was started
    tokens,             \* semaphore
    cache, recency,     \* entries with observation and expiry; LRU order
    published           \* history: the newest observation published

callVars  == <<call, ctxDone, stale>>
groupVars == <<flights, flight, tokens>>
cacheVars == <<cache, recency, published>>
vars == <<now, callVars, groupVars, cacheVars>>

Nothing   == [kind |-> "none"]
Temporary == [kind |-> "temporary"]
Answer(obs, expiry) == [kind |-> "answer", obs |-> obs, expiry |-> expiry]
Answers   == [kind : {"answer"}, obs : Nat, expiry : Nat]
NoCall    == [step |-> "idle", key |-> None, flight |-> None, at |-> 0, floor |-> 0]
NoFlight  == [step |-> "none", key |-> None, cancelled |-> FALSE, deadline |-> 0,
              waiters |-> {}, res |-> Nothing, admit |-> FALSE, at |-> 0]

TypeOK ==
    /\ now \in 0..MaxTime /\ ctxDone \subseteq Callers /\ stale \subseteq Callers
    /\ call \in [Callers -> [step : {"idle", "missed", "waiting", "retiring", "returned"},
                             key : Keys \cup {None}, flight : Callers \cup {None},
                             at : Nat, floor : Nat]]
    /\ flights \in [Keys -> Callers \cup {None}] /\ tokens \in 0..MaxLookups
    /\ flight \in [Callers -> [step : {"none", "looking", "looked", "prepared", "done"},
                               key : Keys \cup {None}, cancelled : BOOLEAN, deadline : Nat,
                               waiters : SUBSET Callers, res : {Nothing, Temporary} \cup Answers,
                               admit : BOOLEAN, at : Nat]]
    /\ cache \in [Keys -> {Nothing} \cup Answers] /\ published \in [Keys -> Nat]
    /\ recency \in Seq(Keys)

Init ==
    /\ now = 0
    /\ call = [c \in Callers |-> NoCall] /\ ctxDone = {} /\ stale = {}
    /\ flights = [k \in Keys |-> None] /\ flight = [c \in Callers |-> NoFlight] /\ tokens = 0
    /\ cache = [k \in Keys |-> Nothing] /\ recency = << >> /\ published = [k \in Keys |-> 0]

(* A call that began at a time, when floor was the newest observation of   *)
(* its key ever published, returns r.  It is stale if it had then outlived *)
(* both its TTL and the lookup timeout, or is older than floor.            *)
Stale(r, at, floor) == /\ r.kind = "answer"
                       /\ (at >= r.expiry /\ at >= r.obs + Timeout) \/ r.obs < floor
Returned == [NoCall EXCEPT !.step = "returned"]

(* Return r, or the error of a context that has ended.                     *)
Return(c, r) ==
    /\ call' = [call EXCEPT ![c] = Returned]
    /\ stale' = IF c \notin ctxDone /\ Stale(r, call[c].at, call[c].floor)
                THEN stale \cup {c} ELSE stale
    /\ ctxDone' = ctxDone \ {c}

(***************************************************************************)
(* The cache.                                                              *)
(***************************************************************************)
Without(k) == SelectSeq(recency, LAMBDA x : x # k)

(* lookup: an entry is served up to its expiry and moved to the back, an   *)
(* expired one is removed.                                                 *)
Live(e) == e # Nothing /\ now < e.expiry
Lookup(k) == /\ cache' = [cache EXCEPT ![k] = IF Live(@) THEN @ ELSE Nothing]
             /\ recency' = IF Live(cache[k]) THEN Append(Without(k), k) ELSE Without(k)

(* putLocked: purge what had expired at the time prepared, make room,      *)
(* insert at the back.                                                     *)
Room(k, kept) == IF k \in Range(kept) \/ Len(kept) < Capacity THEN kept ELSE Tail(kept)
Put(k, e, at) ==
    LET kept   == SelectSeq(recency, LAMBDA x : at < cache[x].expiry)
        others == SelectSeq(Room(k, kept), LAMBDA x : x # k)
    IN  /\ recency' = Append(others, k)
        /\ cache' = [x \in Keys |-> IF x = k THEN e
                                    ELSE IF x \in Range(others) THEN cache[x] ELSE Nothing]

(***************************************************************************)
(* A call: the cache first, then a flight.  A call whose context has ended *)
(* before it begins returns at once and touches nothing: it is left out.   *)
(***************************************************************************)
Resolve(c) ==
    /\ call[c].step = "idle"
    /\ \E k \in Keys :
          /\ Lookup(k)
          /\ IF Live(cache[k])
             THEN /\ call' = [call EXCEPT ![c] = Returned]
                  /\ stale' = IF Stale(cache[k], now, published[k]) THEN stale \cup {c} ELSE stale
             ELSE /\ call' = [call EXCEPT ![c] = [NoCall EXCEPT !.step = "missed", !.key = k,
                                                  !.at = now, !.floor = published[k]]]
                  /\ UNCHANGED stale
    /\ UNCHANGED <<now, ctxDone, groupVars, published>>

(* pruneCanceledWaitersLocked.                                             *)
Prune(f) == LET left == f.waiters \ ctxDone
            IN  [f EXCEPT !.waiters = left, !.cancelled = @ \/ (left = {} /\ f.step # "done")]

(* One more waiter, under an identity of its own.                          *)
Admitted(f, c) == [f EXCEPT !.waiters = @ \cup {c}]

Wait(c, f) == /\ call' = [call EXCEPT ![c].step = "waiting", ![c].flight = f]
              /\ UNCHANGED <<ctxDone, stale>>

(* Mutant of Join: a flight whose waiters have all gone is joined.         *)
JoinAbandoned(c, f) ==
    /\ f # None
    /\ Cardinality(Prune(flight[f]).waiters) < MaxWaiters
    /\ flight' = [flight EXCEPT ![f] = Admitted(Prune(@), c)]
    /\ Wait(c, f) /\ UNCHANGED <<flights, tokens>>

(* do, with the map's flight f of the key after pruning, or None: join it, *)
(* or start one, or report saturation.                                     *)
Join(c, f) ==
    /\ f # None /\ Prune(flight[f]).waiters # {}
    /\ Cardinality(Prune(flight[f]).waiters) < MaxWaiters
    /\ flight' = [flight EXCEPT ![f] = Admitted(Prune(@), c)]
    /\ Wait(c, f) /\ UNCHANGED <<flights, tokens>>

TooManyWaiters(c, f) ==
    /\ f # None /\ Cardinality(Prune(flight[f]).waiters) >= MaxWaiters
    /\ flight' = [flight EXCEPT ![f] = Prune(@)]
    /\ Return(c, Temporary) /\ UNCHANGED <<flights, tokens>>

(* Nobody is left in the map's flight: it is dropped.                      *)
Dropped(f) == IF f = None THEN flight ELSE [flight EXCEPT ![f] = Prune(@)]
Vacant(f)  == IF f = None THEN TRUE ELSE Prune(flight[f]).waiters = {}

Begin(c, f) ==
    /\ Vacant(f) /\ tokens < MaxLookups
    /\ flight' = [Dropped(f) EXCEPT ![c] =
                     [NoFlight EXCEPT !.step = "looking", !.key = call[c].key,
                                      !.deadline = now + Timeout, !.waiters = {c}]]
    /\ flights' = [flights EXCEPT ![call[c].key] = c] /\ tokens' = tokens + 1
    /\ Wait(c, c)

TooManyLookups(c, f) ==
    /\ Vacant(f) /\ tokens >= MaxLookups
    /\ flight' = Dropped(f) /\ flights' = [flights EXCEPT ![call[c].key] = None]
    /\ Return(c, Temporary) /\ UNCHANGED tokens

Do(c) ==
    /\ call[c].step = "missed"
    /\ IF c \in ctxDone
       THEN Return(c, Nothing) /\ UNCHANGED groupVars
       ELSE LET f == flights[call[c].key]
            IN  Join(c, f) \/ TooManyWaiters(c, f) \/ Begin(c, f) \/ TooManyLookups(c, f)
    /\ UNCHANGED <<now, cacheVars>>

(* A waiter goes; a result that nobody waits for any more is forgotten.    *)
Kept(f) == IF f.step = "done" /\ f.waiters = {} THEN [NoFlight EXCEPT !.step = "done"] ELSE f
Left(f, c) == Kept([f EXCEPT !.waiters = @ \ {c}])

(* wait: the flight is done.                                               *)
WaitDone(c) ==
    LET f == call[c].flight IN
    /\ call[c].step = "waiting" /\ flight[f].step = "done"
    /\ flight' = [flight EXCEPT ![f] = Left(@, c)]
    /\ Return(c, flight[f].res)
    /\ UNCHANGED <<now, flights, tokens, cacheVars>>

(* wait: the context ended first.  leave; the last one to go cancels the   *)
(* lookup and stays until it has retired.                                  *)
LastToLeave(f, c) == f.waiters \ {c} = {} /\ f.step # "done"
Abandoned(f, last) == [f EXCEPT !.cancelled = @ \/ last]
Leave(c) ==
    LET f    == call[c].flight
        k    == call[c].key
        last == LastToLeave(flight[f], c)
    IN
    /\ call[c].step = "waiting" /\ c \in ctxDone
    /\ flight' = [flight EXCEPT ![f] = Abandoned(Left(@, c), last)]
    /\ flights' = IF last /\ flights[k] = f THEN [flights EXCEPT ![k] = None] ELSE flights
    /\ IF last THEN call' = [call EXCEPT ![c].step = "retiring"] /\ UNCHANGED <<ctxDone, stale>>
               ELSE Return(c, Nothing)
    /\ UNCHANGED <<now, tokens, cacheVars>>

Retired(c) == /\ call[c].step = "retiring" /\ flight[call[c].flight].step = "done"
              /\ Return(c, Nothing)
              /\ UNCHANGED <<now, groupVars, cacheVars>>

(***************************************************************************)
(* The worker of a flight.                                                 *)
(***************************************************************************)
(* ctx.Err() of the worker's context.  The deadline is taken as exact; the *)
(* runtime's timer may fire a little behind it.                            *)
Over(f) == f.cancelled \/ now >= f.deadline

(* LookupTXT returns: resolveLookup and resolveDomainPolicyLookup make a   *)
(* stable answer with a bounded lifetime (which may be none), or a failure *)
(* that no cache keeps.                                                    *)
Results == {Temporary} \cup {Answer(now, now + ttl) : ttl \in 0..MaxTTL}
LookupTXT(f) ==
    /\ flight[f].step = "looking"
    /\ \E r \in Results :
          /\ Over(flight[f]) => r = Temporary
          /\ flight' = [flight EXCEPT ![f].step = "looked", ![f].res = r]
    /\ UNCHANGED <<now, callVars, flights, tokens, cacheVars>>

(* prepareAdmission reads the clock outside the lock.                      *)
Admissible(f) == /\ ~Over(f) /\ Capacity > 0
                 /\ f.res.kind = "answer" /\ now < f.res.expiry
PrepareAdmission(f) ==
    /\ flight[f].step = "looked"
    /\ flight' = [flight EXCEPT ![f].step = "prepared", ![f].admit = Admissible(flight[f]),
                                ![f].at = IF Admissible(flight[f]) THEN now ELSE 0]
    /\ UNCHANGED <<now, callVars, flights, tokens, cacheVars>>

(* Mutant of Publishable: an abandoned lookup publishes too.               *)
PublishesAnyway(f) == TRUE

(* Under the lock: the check that decides between publishing and           *)
(* discarding, then the flight is completed and the token returned.        *)
Publishable(f) == /\ ~Over(Prune(flight[f])) /\ flights[flight[f].key] = f
                  /\ Prune(flight[f]).waiters # {}

(* Mutant of Completed: a flight nobody waits for is dropped unfinished.   *)
CompletedUnlessVacant(f, ok) ==
    IF f.waiters \ ctxDone = {} THEN NoFlight
    ELSE [NoFlight EXCEPT !.step = "done", !.waiters = f.waiters \ ctxDone,
                          !.res = IF ok THEN f.res ELSE Temporary]

Completed(f, ok) ==
    Kept([NoFlight EXCEPT !.step = "done", !.waiters = f.waiters \ ctxDone,
                          !.res = IF ok THEN f.res ELSE Temporary])
Finish(f) ==
    LET k == flight[f].key IN
    /\ flight[f].step = "prepared"
    /\ flight' = [flight EXCEPT ![f] = Completed(@, Publishable(f))]
    /\ flights' = IF flights[k] = f THEN [flights EXCEPT ![k] = None] ELSE flights
    /\ tokens' = tokens - 1
    /\ IF Publishable(f) /\ flight[f].admit
       THEN /\ Put(k, flight[f].res, flight[f].at)
            /\ published' = [published EXCEPT ![k] = IF @ > flight[f].res.obs THEN @
                                                     ELSE flight[f].res.obs]
       ELSE UNCHANGED cacheVars
    /\ UNCHANGED <<now, callVars>>

(***************************************************************************)
(* Contexts and time.                                                      *)
(***************************************************************************)
Cancel(c) == /\ call[c].step \in {"missed", "waiting"} /\ c \notin ctxDone
             /\ ctxDone' = ctxDone \cup {c}
             /\ UNCHANGED <<now, call, stale, groupVars, cacheVars>>
Tick == /\ now < MaxTime /\ now' = now + 1
        /\ UNCHANGED <<callVars, groupVars, cacheVars>>

Caller(c) == Resolve(c) \/ Do(c) \/ WaitDone(c) \/ Leave(c) \/ Retired(c)
Worker(f) == LookupTXT(f) \/ PrepareAdmission(f) \/ Finish(f)
Next == \/ \E c \in Callers : Caller(c) \/ Worker(c) \/ Cancel(c)
        \/ Tick
Spec == Init /\ [][Next]_vars

(***************************************************************************)
(* Properties.                                                             *)
(***************************************************************************)
Running(f) == flight[f].step \in {"looking", "looked", "prepared"}

(* A caller that still wants an answer is never made to pay for one that   *)
(* left: as long as one waiter's context lives, its flight is the one in   *)
(* the map and nobody has cancelled it (flight.go: do, leave, prune).      *)
LiveWaiterKeepsFlight ==
    \A f \in Callers : Running(f) => \A c \in flight[f].waiters \ ctxDone :
        flights[flight[f].key] = f /\ ~flight[f].cancelled

(* No lookup runs without a caller that waits for it, cancelled or not     *)
(* ("wait returns completion or retains final ownership until canceled     *)
(* work retires"), no caller waits for a flight that is never completed,   *)
(* and tokens are taken by exactly the running lookups.                    *)
Attends(c) == call[c].step \in {"waiting", "retiring"}
NoOrphanWork ==
    /\ \A f \in Callers : Running(f) => \E c \in Callers : Attends(c) /\ call[c].flight = f
    /\ \A c \in Callers : Attends(c) => flight[call[c].flight].step # "none"
    /\ tokens = Cardinality({f \in Callers : Running(f)})

(* No call gets an answer that had outlived both its TTL and the lookup    *)
(* timeout when the call began, however late workers and callers run; and  *)
(* once an observation was published, no call that begins afterwards gets  *)
(* an older one: an abandoned lookup neither overwrites nor answers.       *)
AnswersFresh == stale = {}
==============================================================================
