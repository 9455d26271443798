-------------------------- MODULE KeyResolverProofs --------------------------
(***************************************************************************)
(* Proofs about the key resolver, for any number of callers and keys, any  *)
(* limits, and a clock that runs as far as MaxTime says.                   *)
(*                                                                         *)
(* The invariant ties the three structures the group's lock protects       *)
(* together: what the map names (Mapped), who is on the list of a flight   *)
(* (Listed, Present), and what a caller remembers of its flight            *)
(* (Remembered).  Freshness needs more than the list: an answer is dated   *)
(* against the lookup's deadline while the lookup runs (Observed), and     *)
(* against each waiter once it is done (Delivered).                        *)
(***************************************************************************)
EXTENDS KeyResolver, FiniteSetTheorems, TLAPS

CallRecords ==
    [step : {"idle", "missed", "waiting", "retiring", "returned"}, key : Keys \cup {None},
     flight : Callers \cup {None}, at : Nat, floor : Nat]
FlightRecords ==
    [step : {"none", "looking", "looked", "prepared", "done"}, key : Keys \cup {None},
     cancelled : BOOLEAN, deadline : Nat, waiters : SUBSET Callers,
     res : {Nothing, Temporary} \cup Answers, admit : BOOLEAN, at : Nat]

Types ==
    /\ now \in Nat /\ ctxDone \subseteq Callers
    /\ call \in [Callers -> CallRecords] /\ flight \in [Callers -> FlightRecords]
    /\ flights \in [Keys -> Callers \cup {None}]
    /\ cache \in [Keys -> {Nothing} \cup Answers] /\ published \in [Keys -> Nat]

\* The map names running flights, each under its key.
Mapped ==
    /\ \A f \in Callers : Running(f) => flight[f].key \in Keys
    /\ \A k \in Keys : flights[k] # None =>
          Running(flights[k]) /\ flight[flights[k]].key = k

\* Who is listed by a flight waits for it, and who waits and was not cancelled is listed.
Listed  == \A f, c \in Callers : c \in flight[f].waiters =>
              call[c].step = "waiting" /\ call[c].flight = f
Present == \A c \in Callers : call[c].step = "waiting" /\ c \notin ctxDone =>
              c \in flight[call[c].flight].waiters

\* What a caller remembers: no flight of its own before it waits, then one flight, whose
\* key is its own as long as the lookup runs.
Remembered ==
    /\ \A c \in Callers : call[c].step \in {"idle", "missed"} => flight[c].step = "none"
    /\ \A c \in Callers : call[c].step \in {"missed", "waiting", "retiring"} => call[c].key \in Keys
    /\ \A c \in Callers : Attends(c) => call[c].flight \in Callers
    /\ \A c \in Callers : Attends(c) /\ Running(call[c].flight) =>
          call[c].key = flight[call[c].flight].key

\* Nothing is dated after now, and a call's floor is what was published when it began.
Dated ==
    /\ \A k \in Keys : published[k] <= now
    /\ \A c \in Callers : call[c].at <= now
    /\ \A c \in Callers : call[c].step \in {"missed", "waiting"} =>
          call[c].floor <= published[call[c].key]
    /\ \A k \in Keys : cache[k].kind = "answer" => cache[k].obs >= published[k]

\* An answer under way was observed at most a time-out before the deadline of its lookup,
\* and is as new as anything published as long as the map names its flight.
Observed ==
    /\ \A f \in Callers : flight[f].step = "looking" =>
          flight[f].res.kind # "answer" /\ flight[f].deadline <= now + Timeout
    /\ \A f \in Callers : flight[f].step = "prepared" /\ flight[f].admit =>
          flight[f].res.kind = "answer"
    /\ \A f \in Callers : Running(f) /\ flight[f].res.kind = "answer" =>
          /\ flight[f].res.obs <= now /\ flight[f].deadline <= flight[f].res.obs + Timeout
          /\ flights[flight[f].key] = f => published[flight[f].key] <= flight[f].res.obs

Delivered ==
    \A f \in Callers : flight[f].step = "done" =>
        \A c \in flight[f].waiters \ ctxDone :
            ~Stale(flight[f].res, call[c].at, call[c].floor)

IInv == /\ Types /\ Mapped /\ Listed /\ Present /\ Remembered /\ LiveWaiterKeepsFlight
        /\ NoOrphanWork /\ Dated /\ Observed /\ Delivered /\ AnswersFresh

----------------------------------------------------------------------------
(* What the operators on flights do to their fields.                       *)

\* Pruning drops the waiters whose context ended; an emptied flight is cancelled.
LEMMA PruneFields ==
    ASSUME Types, NEW f \in FlightRecords
    PROVE  /\ Prune(f) \in FlightRecords
           /\ Prune(f).step = f.step /\ Prune(f).key = f.key /\ Prune(f).res = f.res
           /\ Prune(f).deadline = f.deadline /\ Prune(f).admit = f.admit
           /\ Prune(f).waiters = f.waiters \ ctxDone
           /\ Prune(f).cancelled <=> f.cancelled \/ (f.waiters \ ctxDone = {} /\ f.step # "done")
<1>1. (f.cancelled \/ (f.waiters \ ctxDone = {} /\ f.step # "done")) \in BOOLEAN
  OBVIOUS
<1> QED
  BY <1>1 DEF Prune, FlightRecords

\* A waiter that goes leaves the other fields alone, but for a finished flight nobody
\* waits for.
LEMMA LeftFields ==
    ASSUME NEW f \in FlightRecords, NEW c \in Callers
    PROVE  /\ Left(f, c) \in FlightRecords /\ Left(f, c).step = f.step
           /\ Left(f, c).waiters = f.waiters \ {c}
           /\ f.step # "done" => Left(f, c) = [f EXCEPT !.waiters = @ \ {c}]
           /\ f.waiters \ {c} # {} => Left(f, c).res = f.res
  BY DEF Left, Kept, FlightRecords, NoFlight, Nothing

\* Completion keeps the waiters whose context lives, and the answer if it was published.
LEMMA CompletedFields ==
    ASSUME Types, NEW f \in FlightRecords, NEW ok \in BOOLEAN
    PROVE  /\ Completed(f, ok) \in FlightRecords /\ Completed(f, ok).step = "done"
           /\ Completed(f, ok).waiters = f.waiters \ ctxDone
           /\ Completed(f, ok).waiters # {} =>
                 Completed(f, ok).res = IF ok THEN f.res ELSE Temporary
  BY DEF Completed, Kept, FlightRecords, NoFlight, Nothing

\* A return forgets the call's key, flight and dates.
LEMMA ReturnedRecord ==
    /\ Returned \in CallRecords /\ Returned.step = "returned" /\ Returned.at = 0
    /\ NoCall \in CallRecords
  BY DEF Returned, NoCall, CallRecords

\* The two halves of NoOrphanWork, which are kept for different reasons.
Attended ==
    /\ \A f \in Callers : Running(f) => \E c \in Callers : Attends(c) /\ call[c].flight = f
    /\ \A c \in Callers : Attends(c) => flight[call[c].flight].step # "none"
Counted == tokens = Cardinality({f \in Callers : Running(f)})

LEMMA NoOrphanSplit == (NoOrphanWork <=> Attended /\ Counted)
  BY DEF NoOrphanWork, Attended, Counted

\* A step that starts and completes no lookup keeps the count.
LEMMA SameCount ==
    ASSUME Counted, tokens' = tokens, \A f \in Callers : Running(f)' <=> Running(f)
    PROVE  Counted'
<1>1. {f \in Callers : Running(f)'} = {f \in Callers : Running(f)}
  OBVIOUS
<1> QED
  BY <1>1 DEF Counted

\* The dates of a flight are numbers.
LEMMA FlightDates ==
    ASSUME Types, NEW f \in Callers
    PROVE  /\ flight[f] \in FlightRecords /\ flight[f].deadline \in Nat
           /\ flight[f].res.kind = "answer" => flight[f].res \in Answers
           /\ flight[f].res.kind = "answer" => flight[f].res.obs \in Nat
  BY DEF Types, FlightRecords, Answers, Nothing, Temporary

\* Whoever is still listed by a completed flight, and was before, got the same answer.
LEMMA SameDelivery ==
    ASSUME Types, Types', Delivered,
           \A g \in Callers : flight'[g].step = "done" => \A d \in flight'[g].waiters \ ctxDone' :
               /\ flight[g].step = "done" /\ d \in flight[g].waiters \ ctxDone
               /\ flight'[g].res = flight[g].res /\ call'[d] = call[d]
    PROVE  Delivered'
  BY DEF Delivered, Stale

USE DEF callVars, groupVars, cacheVars


\* Time passes: every date stays in the past, every deadline comes nearer.
LEMMA TickIInv ==
    ASSUME IInv, Tick
    PROVE  IInv'
<1>0. /\ Types /\ Mapped /\ Listed /\ Present /\ Remembered /\ LiveWaiterKeepsFlight
      /\ NoOrphanWork /\ Dated /\ Observed /\ Delivered /\ AnswersFresh
  BY DEF IInv
<1>1. now' = now + 1 /\ UNCHANGED <<callVars, groupVars, cacheVars>>
  BY DEF Tick
<1>2. Types' /\ Mapped' /\ Listed' /\ Present'
  BY <1>0, <1>1 DEF Types, Mapped, Listed, Present, Running
<1>3. Remembered' /\ LiveWaiterKeepsFlight' /\ NoOrphanWork'
  BY <1>0, <1>1 DEF Remembered, LiveWaiterKeepsFlight, NoOrphanWork, Running, Attends
<1>4. Delivered' /\ AnswersFresh'
  BY <1>0, <1>1 DEF Delivered, Stale, AnswersFresh
<1>5. Dated'
  BY <1>0, <1>1 DEF Types, CallRecords, Dated
<1>6. Observed'
  <2>1. \A f \in Callers :
           flight[f].deadline \in Nat /\ (flight[f].res.kind = "answer" => flight[f].res.obs \in Nat)
    BY <1>0, FlightDates
  <2>2. now \in Nat /\ Timeout \in Nat
    BY <1>0, ResolverAssumption DEF Types
  <2> QED
    BY <1>0, <1>1, <2>1, <2>2 DEF Observed, Running
<1> QED
  BY <1>2, <1>3, <1>4, <1>5, <1>6 DEF IInv

\* The context of a caller ends: fewer waiters are live.
LEMMA CancelIInv ==
    ASSUME IInv, NEW c \in Callers, Cancel(c)
    PROVE  IInv'
<1>0. /\ Types /\ Mapped /\ Listed /\ Present /\ Remembered /\ LiveWaiterKeepsFlight
      /\ NoOrphanWork /\ Dated /\ Observed /\ Delivered /\ AnswersFresh
  BY DEF IInv
<1>1. ctxDone' = ctxDone \cup {c} /\ UNCHANGED <<now, call, stale, groupVars, cacheVars>>
  BY DEF Cancel
<1>2. Types' /\ Mapped' /\ Listed' /\ Present'
  BY <1>0, <1>1 DEF Types, Mapped, Listed, Present, Running
<1>3. Remembered' /\ LiveWaiterKeepsFlight' /\ NoOrphanWork'
  BY <1>0, <1>1 DEF Remembered, LiveWaiterKeepsFlight, NoOrphanWork, Running, Attends
<1>4. Dated' /\ Observed' /\ Delivered' /\ AnswersFresh'
  BY <1>0, <1>1 DEF Dated, Observed, Delivered, Stale, AnswersFresh, Running
<1> QED
  BY <1>2, <1>3, <1>4 DEF IInv

\* The caller that cancelled a lookup returns once the lookup has ended.
LEMMA RetiredIInv ==
    ASSUME IInv, NEW c \in Callers, Retired(c)
    PROVE  IInv'
<1>0. /\ Types /\ Mapped /\ Listed /\ Present /\ Remembered /\ LiveWaiterKeepsFlight
      /\ Attended /\ Counted /\ Dated /\ Observed /\ Delivered /\ AnswersFresh
  BY NoOrphanSplit DEF IInv
<1>1. /\ call[c].step = "retiring" /\ flight[call[c].flight].step = "done"
      /\ call' = [call EXCEPT ![c] = Returned] /\ ctxDone' = ctxDone \ {c}
      /\ UNCHANGED <<now, groupVars, cacheVars>>
  BY DEF Retired, Return
<1>2. AnswersFresh'
  BY <1>0 DEF Retired, Return, Stale, Nothing, AnswersFresh
<1>3. \A g \in Callers : flight[g].waiters \subseteq Callers \ {c}
  BY <1>0, <1>1 DEF Listed, Types, FlightRecords
<1>4. /\ call'[c] = Returned /\ Returned \in CallRecords /\ Returned.step = "returned"
      /\ Returned.at = 0 /\ \A d \in Callers \ {c} : call'[d] = call[d]
  BY <1>0, <1>1, ReturnedRecord DEF Types
<1>5. Types' /\ Mapped' /\ Listed'
  BY <1>0, <1>1, <1>3, <1>4 DEF Types, Mapped, Listed, Running
<1>6. Present' /\ Remembered' /\ Attended'
  BY <1>0, <1>1, <1>4 DEF Present, Remembered, Attended, Running, Attends
<1>7. LiveWaiterKeepsFlight' /\ Observed'
  BY <1>0, <1>1, <1>3 DEF LiveWaiterKeepsFlight, Observed, Running
<1>8. Counted'
  BY <1>0, <1>1, SameCount DEF Running
<1>9. Dated'
  BY <1>0, <1>1, <1>4 DEF Types, Dated
<1>10. Delivered'
  BY <1>0, <1>1, <1>3, <1>4, <1>5, SameDelivery
<1> QED
  BY <1>2, <1>5, <1>6, <1>7, <1>8, <1>9, <1>10, NoOrphanSplit, PTL DEF IInv

\* The worker's lookup returns: an observation is dated now.
LEMMA LookupTXTIInv ==
    ASSUME IInv, NEW f \in Callers, LookupTXT(f)
    PROVE  IInv'
<1>0. /\ Types /\ Mapped /\ Listed /\ Present /\ Remembered /\ LiveWaiterKeepsFlight
      /\ Attended /\ Counted /\ Dated /\ Observed /\ Delivered /\ AnswersFresh
  BY NoOrphanSplit DEF IInv
<1>1. PICK r \in Results :
        flight' = [flight EXCEPT ![f].step = "looked", ![f].res = r]
  BY DEF LookupTXT
<1>2. r \in {Temporary} \cup Answers /\ (r.kind = "answer" => r.obs = now)
  <2>1. CASE r = Temporary
    BY <2>1 DEF Temporary
  <2>2. CASE r # Temporary
    <3>1. PICK ttl \in 0..MaxTTL : r = Answer(now, now + ttl)
      BY <2>2 DEF Results
    <3> QED
      BY <1>0, <3>1, ResolverAssumption DEF Answer, Answers, Types
  <2> QED
    BY <2>1, <2>2
<1> DEFINE new == [flight[f] EXCEPT !.step = "looked", !.res = r]
<1>3. /\ flight' = [flight EXCEPT ![f] = new] /\ flight[f].step = "looking"
      /\ new \in FlightRecords /\ new.step = "looked" /\ new.res = r
      /\ new.key = flight[f].key /\ new.cancelled = flight[f].cancelled
      /\ new.deadline = flight[f].deadline /\ new.waiters = flight[f].waiters
  <2>1. flight[f] \in FlightRecords
    BY <1>0 DEF Types
  <2>2. flight' = [flight EXCEPT ![f] = new] /\ flight[f].step = "looking"
    BY <1>0, <1>1 DEF LookupTXT, Types
  <2> QED
    BY <1>2, <2>1, <2>2 DEF FlightRecords
<1> HIDE DEF new
<1>4. UNCHANGED <<now, callVars, flights, tokens, cacheVars>>
  BY DEF LookupTXT
<1>5. Types' /\ Mapped' /\ Listed' /\ Present'
  BY <1>0, <1>3, <1>4 DEF Types, Mapped, Listed, Present, Running
<1>6. Remembered'
  BY <1>0, <1>3, <1>4 DEF Types, Remembered, Running, Attends
<1>7. LiveWaiterKeepsFlight'
  BY <1>0, <1>3, <1>4 DEF Types, LiveWaiterKeepsFlight, Running
<1>8. Attended'
  BY <1>0, <1>3, <1>4 DEF Types, Attended, Running, Attends
<1>9. Counted'
  <2>1. \A g \in Callers : Running(g)' <=> Running(g)
    BY <1>0, <1>3 DEF Types, Running
  <2> QED
    BY <1>0, <1>4, <2>1, SameCount
<1>10. Dated' /\ AnswersFresh'
  BY <1>0, <1>4 DEF Dated, AnswersFresh
<1>11. Observed'
  BY <1>0, <1>2, <1>3, <1>4 DEF Types, Observed, Dated, Mapped, Running
<1>12. Delivered'
  BY <1>0, <1>3, <1>4 DEF Types, Delivered, Stale
<1> QED
  BY <1>5, <1>6, <1>7, <1>8, <1>9, <1>10, <1>11, <1>12, NoOrphanSplit, PTL DEF IInv

\* prepareAdmission decides outside the lock whether the cache may keep the answer.
LEMMA PrepareAdmissionIInv ==
    ASSUME IInv, NEW f \in Callers, PrepareAdmission(f)
    PROVE  IInv'
<1>0. /\ Types /\ Mapped /\ Listed /\ Present /\ Remembered /\ LiveWaiterKeepsFlight
      /\ Attended /\ Counted /\ Dated /\ Observed /\ Delivered /\ AnswersFresh
  BY NoOrphanSplit DEF IInv
<1> DEFINE adm == Admissible(flight[f])
           new == [flight[f] EXCEPT !.step = "prepared", !.admit = adm,
                                    !.at = IF adm THEN now ELSE 0]
<1>1. adm \in BOOLEAN /\ (adm => flight[f].res.kind = "answer")
  BY DEF Admissible
<1>2. flight' = [flight EXCEPT ![f] = new] /\ flight[f].step = "looked"
  BY <1>0 DEF PrepareAdmission, Types, FlightRecords
<1> HIDE DEF adm
<1>3. /\ new \in FlightRecords /\ new.step = "prepared" /\ new.res = flight[f].res
      /\ new.key = flight[f].key /\ new.cancelled = flight[f].cancelled
      /\ new.deadline = flight[f].deadline /\ new.waiters = flight[f].waiters
  <2>1. flight[f] \in FlightRecords /\ now \in Nat
    BY <1>0 DEF Types
  <2> QED
    BY <1>1, <2>1 DEF FlightRecords
<1>4. new.admit => flight[f].res.kind = "answer"
  BY <1>0, <1>1 DEF Types, FlightRecords
<1> HIDE DEF new
<1>5. UNCHANGED <<now, callVars, flights, tokens, cacheVars>>
  BY DEF PrepareAdmission
<1>6. Types' /\ Mapped' /\ Listed' /\ Present'
  BY <1>0, <1>2, <1>3, <1>5 DEF Types, Mapped, Listed, Present, Running
<1>7. Remembered' /\ Attended'
  BY <1>0, <1>2, <1>3, <1>5 DEF Types, Remembered, Attended, Running, Attends
<1>8. LiveWaiterKeepsFlight'
  BY <1>0, <1>2, <1>3, <1>5 DEF Types, LiveWaiterKeepsFlight, Running
<1>9. Counted'
  <2>1. \A g \in Callers : Running(g)' <=> Running(g)
    BY <1>0, <1>2, <1>3 DEF Types, Running
  <2> QED
    BY <1>0, <1>5, <2>1, SameCount
<1>10. Dated' /\ AnswersFresh'
  BY <1>0, <1>5 DEF Dated, AnswersFresh
<1>11. Observed'
  BY <1>0, <1>2, <1>3, <1>4, <1>5 DEF Types, Observed, Running
<1>12. Delivered'
  BY <1>0, <1>2, <1>3, <1>5 DEF Types, Delivered, Stale
<1> QED
  BY <1>6, <1>7, <1>8, <1>9, <1>10, <1>11, <1>12, NoOrphanSplit, PTL DEF IInv

\* A call looks at the cache: it returns a live entry, or has missed.
LEMMA ResolveIInv ==
    ASSUME IInv, NEW c \in Callers, Resolve(c)
    PROVE  IInv'
<1>0. /\ Types /\ Mapped /\ Listed /\ Present /\ Remembered /\ LiveWaiterKeepsFlight
      /\ Attended /\ Counted /\ Dated /\ Observed /\ Delivered /\ AnswersFresh
  BY NoOrphanSplit DEF IInv
<1>1. call[c].step = "idle" /\ UNCHANGED <<now, ctxDone, groupVars, published>>
  BY DEF Resolve
<1>2. PICK k \in Keys :
        /\ Lookup(k)
        /\ IF Live(cache[k])
           THEN /\ call' = [call EXCEPT ![c] = Returned]
                /\ stale' = IF Stale(cache[k], now, published[k]) THEN stale \cup {c} ELSE stale
           ELSE /\ call' = [call EXCEPT ![c] = [NoCall EXCEPT !.step = "missed", !.key = k,
                                                !.at = now, !.floor = published[k]]]
                /\ UNCHANGED stale
  BY DEF Resolve
<1> DEFINE missed == [NoCall EXCEPT !.step = "missed", !.key = k, !.at = now,
                                    !.floor = published[k]]
           new == IF Live(cache[k]) THEN Returned ELSE missed
<1>3. call' = [call EXCEPT ![c] = new]
  BY <1>2
<1>4. /\ new \in CallRecords /\ new.step \in {"returned", "missed"} /\ new.at <= now
      /\ new.step = "missed" => new.key = k /\ new.floor = published[k]
  <2>1. /\ missed \in CallRecords /\ missed.step = "missed" /\ missed.at = now
        /\ missed.key = k /\ missed.floor = published[k] /\ now \in Nat
    BY <1>0 DEF CallRecords, NoCall, Types
  <2> QED
    BY <2>1, ReturnedRecord
<1> HIDE DEF missed, new
<1>5. /\ cache' \in [Keys -> {Nothing} \cup Answers]
      /\ \A x \in Keys : cache'[x] = cache[x] \/ cache'[x] = Nothing
  BY <1>0, <1>2 DEF Lookup, Types
<1>6. AnswersFresh'
  <2>1. ASSUME Live(cache[k]) PROVE ~Stale(cache[k], now, published[k])
    <3>1. /\ cache[k] \in Answers /\ cache[k].kind = "answer" /\ now < cache[k].expiry
          /\ cache[k].expiry \in Nat /\ cache[k].obs \in Nat
      BY <1>0, <2>1 DEF Types, Answers, Live
    <3>2. cache[k].obs >= published[k] /\ published[k] \in Nat /\ now \in Nat
      BY <1>0, <3>1 DEF Dated, Types
    <3> QED
      BY <3>1, <3>2 DEF Stale
  <2> QED
    BY <1>0, <1>2, <2>1 DEF AnswersFresh
<1>7. Types' /\ Mapped'
  BY <1>0, <1>1, <1>3, <1>4, <1>5 DEF Types, Mapped, Running
<1>8. Listed' /\ Present'
  BY <1>0, <1>1, <1>3, <1>4 DEF Types, Listed, Present
<1>9. Remembered' /\ Attended'
  BY <1>0, <1>1, <1>3, <1>4 DEF Types, Remembered, Attended, Running, Attends
<1>10. LiveWaiterKeepsFlight' /\ Observed'
  BY <1>0, <1>1 DEF LiveWaiterKeepsFlight, Observed, Running
<1>11. Counted'
  BY <1>0, <1>1, SameCount DEF Running
<1>12. Dated'
  BY <1>0, <1>1, <1>3, <1>4, <1>5 DEF Types, Dated, Nothing
<1>13. Delivered'
  <2>1. \A g \in Callers : flight[g].waiters \subseteq Callers \ {c}
    BY <1>0, <1>1 DEF Types, FlightRecords, Listed
  <2>2. \A d \in Callers \ {c} : call'[d] = call[d]
    BY <1>0, <1>3 DEF Types
  <2> QED
    BY <1>0, <1>1, <1>7, <2>1, <2>2, SameDelivery
<1> QED
  BY <1>6, <1>7, <1>8, <1>9, <1>10, <1>11, <1>12, <1>13, NoOrphanSplit, PTL DEF IInv

\* wait returns what a completed flight holds, and the caller leaves its list.
LEMMA WaitDoneIInv ==
    ASSUME IInv, NEW c \in Callers, WaitDone(c)
    PROVE  IInv'
<1>0. /\ Types /\ Mapped /\ Listed /\ Present /\ Remembered /\ LiveWaiterKeepsFlight
      /\ Attended /\ Counted /\ Dated /\ Observed /\ Delivered /\ AnswersFresh
  BY NoOrphanSplit DEF IInv
<1> DEFINE f == call[c].flight
           new == Left(flight[f], c)
<1>1. /\ call[c].step = "waiting" /\ flight[f].step = "done"
      /\ flight' = [flight EXCEPT ![f] = new] /\ Return(c, flight[f].res)
      /\ UNCHANGED <<now, flights, tokens, cacheVars>>
  BY DEF WaitDone
<1>2. f \in Callers /\ flight[f] \in FlightRecords
  BY <1>0, <1>1 DEF Remembered, Attends, Types
<1>3. /\ new \in FlightRecords /\ new.step = "done" /\ new.waiters = flight[f].waiters \ {c}
      /\ new.waiters # {} => new.res = flight[f].res
  BY <1>1, <1>2, LeftFields
<1>4. call' = [call EXCEPT ![c] = Returned] /\ ctxDone' = ctxDone \ {c}
  BY <1>1 DEF Return
<1>5. AnswersFresh'
  <2>1. ASSUME c \notin ctxDone PROVE ~Stale(flight[f].res, call[c].at, call[c].floor)
    BY <1>0, <1>1, <1>2, <2>1 DEF Present, Delivered
  <2> QED
    BY <1>0, <1>1, <2>1 DEF Return, AnswersFresh
<1> HIDE DEF new, f
<1>6. Types' /\ Mapped'
  BY <1>0, <1>1, <1>2, <1>3, <1>4, ReturnedRecord DEF Types, Mapped, Running
<1>7. Listed' /\ Present'
  BY <1>0, <1>1, <1>2, <1>3, <1>4, ReturnedRecord DEF Types, Listed, Present, f
<1>8. Remembered'
  BY <1>0, <1>1, <1>2, <1>3, <1>4, ReturnedRecord DEF Types, Remembered, Running, Attends
<1>9. Attended'
  BY <1>0, <1>1, <1>2, <1>3, <1>4, ReturnedRecord DEF Types, Attended, Running, Attends, f
<1>10. LiveWaiterKeepsFlight'
  BY <1>0, <1>1, <1>2, <1>3, <1>4 DEF Types, LiveWaiterKeepsFlight, Listed, Running, f
<1>11. Observed'
  BY <1>0, <1>1, <1>2, <1>3 DEF Types, Observed, Running
<1>12. Counted'
  <2>1. \A g \in Callers : Running(g)' <=> Running(g)
    BY <1>0, <1>1, <1>2, <1>3 DEF Types, Running
  <2> QED
    BY <1>0, <1>1, <2>1, SameCount
<1>13. Dated'
  BY <1>0, <1>1, <1>4, ReturnedRecord DEF Types, Dated
<1>14. Delivered'
  <2>1. \A g \in Callers : flight'[g].waiters \subseteq flight[g].waiters \ {c}
    BY <1>0, <1>1, <1>2, <1>3 DEF Types, FlightRecords, Listed, f
  <2>2. \A g \in Callers : /\ flight'[g].step = flight[g].step
                           /\ flight'[g].waiters # {} => flight'[g].res = flight[g].res
    BY <1>0, <1>1, <1>2, <1>3 DEF Types
  <2>3. (\A d \in Callers \ {c} : call'[d] = call[d]) /\ ctxDone \ {c} \subseteq ctxDone'
    BY <1>0, <1>4 DEF Types
  <2>4. \A g \in Callers : flight[g].waiters \subseteq Callers
    BY <1>0 DEF Types, FlightRecords
  <2> QED
    BY <1>0, <1>6, <2>1, <2>2, <2>3, <2>4, SameDelivery
<1> QED
  BY <1>5, <1>6, <1>7, <1>8, <1>9, <1>10, <1>11, <1>12, <1>13, <1>14, NoOrphanSplit, PTL DEF IInv

\* The context of a waiter ended.  Whoever leaves last takes the flight out of the map,
\* cancels it, and stays until it has retired.
LEMMA LeaveIInv ==
    ASSUME IInv, NEW c \in Callers, Leave(c)
    PROVE  IInv'
<1>0. /\ Types /\ Mapped /\ Listed /\ Present /\ Remembered /\ LiveWaiterKeepsFlight
      /\ Attended /\ Counted /\ Dated /\ Observed /\ Delivered /\ AnswersFresh
  BY NoOrphanSplit DEF IInv
<1> DEFINE f == call[c].flight
           k == call[c].key
           last == LastToLeave(flight[f], c)
           new == Abandoned(Left(flight[f], c), last)
<1>1. /\ call[c].step = "waiting" /\ c \in ctxDone
      /\ flight' = [flight EXCEPT ![f] = new]
      /\ flights' = IF last /\ flights[k] = f THEN [flights EXCEPT ![k] = None] ELSE flights
      /\ UNCHANGED <<now, tokens, cacheVars>>
  BY DEF Leave
<1>2. f \in Callers /\ k \in Keys /\ flight[f] \in FlightRecords
      /\ (Running(f) => k = flight[f].key)
  BY <1>0, <1>1 DEF Remembered, Attends, Types
<1>3. /\ new \in FlightRecords /\ new.step = flight[f].step
      /\ new.waiters = flight[f].waiters \ {c} /\ (new.waiters # {} => new.res = flight[f].res)
      /\ Running(f) => /\ new.key = flight[f].key /\ new.deadline = flight[f].deadline
                       /\ new.res = flight[f].res /\ new.admit = flight[f].admit
  <2>1. /\ Left(flight[f], c) \in FlightRecords /\ Left(flight[f], c).step = flight[f].step
        /\ Left(flight[f], c).waiters = flight[f].waiters \ {c}
        /\ flight[f].step # "done" => Left(flight[f], c) = [flight[f] EXCEPT !.waiters = @ \ {c}]
        /\ flight[f].waiters \ {c} # {} => Left(flight[f], c).res = flight[f].res
    BY <1>2, LeftFields
  <2>2. (Left(flight[f], c).cancelled \/ last) \in BOOLEAN
    OBVIOUS
  <2> QED
    BY <1>2, <2>1, <2>2 DEF FlightRecords, Running, Abandoned
<1>4. Running(f) /\ ~last => (new.cancelled <=> flight[f].cancelled)
  BY <1>2, LeftFields DEF FlightRecords, Running, Abandoned
<1>5. last <=> flight[f].waiters \ {c} = {} /\ flight[f].step # "done"
  BY DEF LastToLeave
<1>6. /\ last => call' = [call EXCEPT ![c].step = "retiring"] /\ UNCHANGED <<ctxDone, stale>>
      /\ ~last => call' = [call EXCEPT ![c] = Returned] /\ ctxDone' = ctxDone \ {c}
      /\ stale' = stale
  BY <1>1 DEF Leave, Return
<1> DEFINE mine == IF last THEN [call[c] EXCEPT !.step = "retiring"] ELSE Returned
<1>7. call' = [call EXCEPT ![c] = mine]
  BY <1>0, <1>6 DEF Types
<1>8. /\ mine \in CallRecords /\ mine.at <= now
      /\ last => mine.step = "retiring" /\ mine.key = k /\ mine.flight = f
      /\ ~last => mine.step = "returned"
  BY <1>0, ReturnedRecord DEF Types, CallRecords, Dated
<1> HIDE DEF new, f, k, last, mine
<1>9. Types'
  BY <1>0, <1>1, <1>2, <1>3, <1>6, <1>7, <1>8 DEF Types
<1>10. Mapped'
  BY <1>0, <1>1, <1>2, <1>3 DEF Types, Mapped, Running
<1>11. Listed'
  BY <1>0, <1>1, <1>2, <1>3, <1>7 DEF Types, Listed, f
<1>12. Present'
  BY <1>0, <1>1, <1>2, <1>3, <1>6, <1>7, <1>8 DEF Types, Present
<1>13. Remembered'
  BY <1>0, <1>1, <1>2, <1>3, <1>7, <1>8 DEF Types, Remembered, Running, Attends
<1>14. LiveWaiterKeepsFlight'
  BY <1>0, <1>1, <1>2, <1>3, <1>4, <1>5, <1>6 DEF Types, LiveWaiterKeepsFlight, Listed, Mapped,
     Running, f
<1>15. Attended'
  <2>1. ASSUME NEW g \in Callers, Running(g)'
        PROVE  \E d \in Callers : (Attends(d) /\ call[d].flight = g)'
    <3>1. Running(g)
      BY <1>0, <1>1, <1>2, <1>3, <2>1 DEF Types, Running
    <3>2. CASE g # f
      BY <1>0, <1>7, <3>1, <3>2 DEF Attended, Attends, Types, f
    <3>3. CASE g = f /\ last
      BY <1>0, <1>7, <1>8, <3>3 DEF Attends, Types
    <3>4. CASE g = f /\ ~last
      <4>1. PICK d \in flight[f].waiters : d # c
        BY <1>5, <3>1, <3>4 DEF Running
      <4> QED
        BY <1>0, <1>2, <1>7, <3>4, <4>1 DEF Listed, Attends, Types, FlightRecords
    <3> QED
      BY <3>2, <3>3, <3>4
  <2>2. \A d \in Callers : Attends(d)' => flight'[call'[d].flight].step # "none"
    BY <1>0, <1>1, <1>2, <1>3, <1>7, <1>8 DEF Attended, Attends, Types, f
  <2> QED
    BY <2>1, <2>2 DEF Attended
<1>16. Counted'
  <2>1. \A g \in Callers : Running(g)' <=> Running(g)
    BY <1>0, <1>1, <1>2, <1>3 DEF Types, Running
  <2> QED
    BY <1>0, <1>1, <2>1, SameCount
<1>17. Dated' /\ AnswersFresh'
  BY <1>0, <1>1, <1>6, <1>7, <1>8 DEF Types, Dated, AnswersFresh
<1>18. Observed'
  BY <1>0, <1>1, <1>2, <1>3, ResolverAssumption DEF Types, Observed, Mapped, Running
<1>19. Delivered'
  <2>1. \A g \in Callers : flight'[g].waiters \subseteq flight[g].waiters \ {c}
    BY <1>0, <1>1, <1>2, <1>3 DEF Types, FlightRecords, Listed, f
  <2>2. \A g \in Callers : /\ flight'[g].step = flight[g].step
                           /\ flight'[g].waiters # {} => flight'[g].res = flight[g].res
    BY <1>0, <1>1, <1>2, <1>3 DEF Types
  <2>3. (\A d \in Callers \ {c} : call'[d] = call[d]) /\ ctxDone \ {c} \subseteq ctxDone'
    BY <1>0, <1>6, <1>7 DEF Types
  <2>4. \A g \in Callers : flight[g].waiters \subseteq Callers
    BY <1>0 DEF Types, FlightRecords
  <2> QED
    BY <1>0, <1>9, <2>1, <2>2, <2>3, <2>4, SameDelivery
<1> QED
  BY <1>9, <1>10, <1>11, <1>12, <1>13, <1>14, <1>15, <1>16, <1>17, <1>18, <1>19, NoOrphanSplit,
     PTL
     DEF IInv

\* The worker completes its flight under the lock: it publishes, or its answer is
\* discarded.
LEMMA FinishIInv ==
    ASSUME IInv, NEW f \in Callers, Finish(f)
    PROVE  IInv'
<1>0. /\ Types /\ Mapped /\ Listed /\ Present /\ Remembered /\ LiveWaiterKeepsFlight
      /\ Attended /\ Counted /\ Dated /\ Observed /\ Delivered /\ AnswersFresh
  BY NoOrphanSplit DEF IInv
<1> DEFINE k == flight[f].key
           res == flight[f].res
           ok == Publishable(f)
           new == Completed(flight[f], ok)
<1>1. /\ flight[f].step = "prepared" /\ flight' = [flight EXCEPT ![f] = new]
      /\ flights' = IF flights[k] = f THEN [flights EXCEPT ![k] = None] ELSE flights
      /\ tokens' = tokens - 1 /\ UNCHANGED <<now, callVars>>
      /\ IF ok /\ flight[f].admit
         THEN /\ Put(k, res, flight[f].at)
              /\ published' = [published EXCEPT ![k] = IF @ > res.obs THEN @ ELSE res.obs]
         ELSE UNCHANGED cacheVars
  BY DEF Finish
<1>2. /\ flight[f] \in FlightRecords /\ Running(f) /\ k \in Keys /\ now \in Nat
      /\ flight[f].deadline \in Nat /\ Timeout \in Nat
      /\ res.kind = "answer" => res \in Answers /\ res.obs \in Nat
  BY <1>0, <1>1, FlightDates, ResolverAssumption DEF Types, Mapped, Running
<1>3. ok \in BOOLEAN /\ (ok => now < flight[f].deadline /\ flights[k] = f)
  BY <1>0, <1>2, PruneFields DEF Publishable, Over
<1>4. /\ new \in FlightRecords /\ new.step = "done"
      /\ new.waiters = flight[f].waiters \ ctxDone
      /\ new.waiters # {} => new.res = IF ok THEN res ELSE Temporary
  BY <1>0, <1>2, <1>3, CompletedFields
<1> HIDE DEF new, ok
<1>5. ok /\ flight[f].admit =>
        /\ res \in Answers /\ res.kind = "answer" /\ published[k] <= res.obs /\ res.obs <= now
        /\ published' = [published EXCEPT ![k] = res.obs]
        /\ cache' \in [Keys -> {Nothing} \cup Answers] /\ cache'[k] = res
        /\ \A x \in Keys \ {k} : cache'[x] = cache[x] \/ cache'[x] = Nothing
  <2> SUFFICES ASSUME ok, flight[f].admit
               PROVE  /\ res \in Answers /\ res.kind = "answer"
                      /\ published[k] <= res.obs /\ res.obs <= now
                      /\ published' = [published EXCEPT ![k] = res.obs]
                      /\ cache' \in [Keys -> {Nothing} \cup Answers] /\ cache'[k] = res
                      /\ \A x \in Keys \ {k} : cache'[x] = cache[x] \/ cache'[x] = Nothing
    OBVIOUS
  <2>1. /\ res \in Answers /\ res.kind = "answer" /\ res.obs <= now
        /\ published[k] <= res.obs /\ res.obs \in Nat /\ published[k] \in Nat
    BY <1>0, <1>1, <1>2, <1>3 DEF Observed, Types
  <2>2. published' = [published EXCEPT ![k] = res.obs]
    BY <1>0, <1>1, <1>2, <2>1 DEF Types
  <2>3. PICK others : cache' = [x \in Keys |-> IF x = k THEN res
                                  ELSE IF x \in Range(others) THEN cache[x] ELSE Nothing]
    BY <1>1 DEF Put
  <2>4. cache' \in [Keys -> {Nothing} \cup Answers]
    BY <1>0, <2>1, <2>3 DEF Types
  <2> QED
    BY <1>2, <2>1, <2>2, <2>3, <2>4
<1>6. ~(ok /\ flight[f].admit) => UNCHANGED <<cache, published>>
  BY <1>1
<1>7. Types'
  BY <1>0, <1>1, <1>2, <1>4, <1>5, <1>6 DEF Types, Answers
<1> HIDE DEF k, res
<1>8. Mapped'
  BY <1>0, <1>1, <1>2, <1>4 DEF Types, Mapped, Running, k
<1>9. Listed' /\ Present'
  BY <1>0, <1>1, <1>2, <1>4 DEF Types, Listed, Present
<1>10. Remembered' /\ Attended'
  BY <1>0, <1>1, <1>2, <1>4 DEF Types, Remembered, Attended, Running, Attends
<1>11. LiveWaiterKeepsFlight'
  BY <1>0, <1>1, <1>2, <1>4 DEF Types, LiveWaiterKeepsFlight, Mapped, Running, k
<1>12. Counted'
  <2> DEFINE S == {g \in Callers : Running(g)}
             T == {g \in Callers : Running(g)'}
  <2>1. T = S \ {f} /\ f \in S
    BY <1>0, <1>1, <1>2, <1>4 DEF Types, Running
  <2>2. IsFiniteSet(S)
    BY FS_Subset, ResolverAssumption
  <2>3. Cardinality(T) = Cardinality(S) - 1
    BY <2>1, <2>2, FS_RemoveElement
  <2> QED
    BY <1>0, <1>1, <2>3 DEF Counted
<1>13. Dated' /\ AnswersFresh'
  <2>1. \A x \in Keys : /\ published[x] <= published'[x] /\ published'[x] <= now
                        /\ cache'[x].kind = "answer" => cache'[x].obs >= published'[x]
    BY <1>0, <1>2, <1>5, <1>6 DEF Types, Dated, Nothing, Answers
  <2>2. \A c \in Callers : call[c].step \in {"missed", "waiting"} =>
           call[c].floor <= published'[call[c].key]
    <3> SUFFICES ASSUME NEW c \in Callers, call[c].step \in {"missed", "waiting"}
                 PROVE  call[c].floor <= published'[call[c].key]
      OBVIOUS
    <3>1. call[c].key \in Keys /\ call[c].floor \in Nat
      BY <1>0 DEF Remembered, Types, CallRecords
    <3>2. published[call[c].key] \in Nat /\ published'[call[c].key] \in Nat
      BY <1>0, <1>7, <3>1 DEF Types
    <3> QED
      BY <1>0, <2>1, <3>1, <3>2 DEF Dated
  <2> QED
    BY <1>0, <1>1, <2>1, <2>2 DEF Dated, AnswersFresh
<1>14. Observed'
  <2> SUFFICES ASSUME NEW g \in Callers, Running(g)', flight'[g].res.kind = "answer"
               PROVE  /\ g # f /\ flight'[g] = flight[g]
                      /\ flights'[flight[g].key] = g =>
                            published'[flight[g].key] = published[flight[g].key]
    <3>1. \A g \in Callers : g # f => flight'[g] = flight[g]
      BY <1>0, <1>1 DEF Types
    <3>2. flight'[f].step = "done"
      BY <1>0, <1>1, <1>4 DEF Types
    <3>3. \A g \in Callers : g # f => (Running(g)' <=> Running(g))
      BY <3>1 DEF Running
    <3>4. ASSUME NEW g \in Callers, g # f, flights'[flight[g].key] = g, Running(g)
          PROVE  flights[flight[g].key] = g
      BY <1>0, <1>1, <1>2, <3>4, ResolverAssumption DEF Types, Mapped
    <3> QED
      BY <1>0, <1>1, <3>1, <3>2, <3>3, <3>4 DEF Observed
  <2>1. g # f /\ flight'[g] = flight[g] /\ Running(g)
    BY <1>0, <1>1, <1>4 DEF Types, Running
  <2>2. ASSUME flights'[flight[g].key] = g, ok
        PROVE  flight[g].key # k
    BY <1>0, <1>1, <1>2, <1>3, <2>1, <2>2, ResolverAssumption DEF Types, k
  <2>3. flight[g].key \in Keys
    BY <1>0, <2>1 DEF Mapped
  <2> QED
    BY <1>0, <1>2, <1>5, <1>6, <2>1, <2>2, <2>3 DEF Types
<1>15. Delivered'
  <2> SUFFICES ASSUME NEW g \in Callers, flight'[g].step = "done",
                      NEW c \in flight'[g].waiters, c \notin ctxDone
               PROVE  ~Stale(flight'[g].res, call[c].at, call[c].floor)
    BY <1>1 DEF Delivered, Stale
  <2>1. CASE g # f
    BY <1>0, <1>1, <2>1 DEF Types, Delivered
  <2>2. CASE g = f /\ ~ok
    BY <1>0, <1>1, <1>2, <1>4, <2>2 DEF Types, Stale, Temporary
  <2>3. CASE g = f /\ ok
    <3>1. flight'[g].res = res /\ c \in flight[f].waiters /\ c \in Callers
      BY <1>0, <1>1, <1>2, <1>4, <2>3 DEF Types, FlightRecords
    <3>2. call[c].step = "waiting" /\ call[c].key = k
      BY <1>0, <1>2, <3>1 DEF Listed, Remembered, Attends, k
    <3>3. /\ call[c].at <= now /\ call[c].at \in Nat /\ call[c].floor <= published[k]
          /\ call[c].floor \in Nat /\ published[k] \in Nat
      BY <1>0, <1>2, <3>1, <3>2 DEF Dated, Types, CallRecords
    <3>4. ASSUME res.kind = "answer"
          PROVE  flight[f].deadline <= res.obs + Timeout /\ published[k] <= res.obs
      BY <1>0, <1>2, <1>3, <2>3, <3>4 DEF Observed, k, res
    <3> QED
      BY <1>2, <1>3, <2>3, <3>1, <3>3, <3>4 DEF Stale
  <2> QED
    BY <2>1, <2>2, <2>3
<1> QED
  BY <1>7, <1>8, <1>9, <1>10, <1>11, <1>12, <1>13, <1>14, <1>15, NoOrphanSplit, PTL DEF IInv

\* F is the flights after some were pruned: waiters whose context lives are still listed,
\* and keep their flight uncancelled.
Pruned(F) ==
    /\ F \in [Callers -> FlightRecords]
    /\ \A g \in Callers :
          /\ F[g].step = flight[g].step /\ F[g].key = flight[g].key /\ F[g].res = flight[g].res
          /\ F[g].deadline = flight[g].deadline /\ F[g].admit = flight[g].admit
          /\ F[g].waiters \subseteq flight[g].waiters
          /\ flight[g].waiters \ ctxDone \subseteq F[g].waiters
          /\ flight[g].waiters \ ctxDone # {} => (F[g].cancelled <=> flight[g].cancelled)

\* do prunes at most the flight the map names.
LEMMA DroppedPruned ==
    ASSUME Types, NEW f \in Callers \cup {None}
    PROVE  Pruned(Dropped(f)) /\ Pruned(flight)
<1>1. Pruned(flight)
  BY DEF Pruned, Types
<1>2. CASE f = None
  BY <1>1, <1>2 DEF Dropped
<1>3. CASE f # None
  <2>1. flight[f] \in FlightRecords
    BY <1>3 DEF Types
  <2>2. /\ Prune(flight[f]) \in FlightRecords
        /\ Prune(flight[f]).step = flight[f].step /\ Prune(flight[f]).key = flight[f].key
        /\ Prune(flight[f]).res = flight[f].res /\ Prune(flight[f]).admit = flight[f].admit
        /\ Prune(flight[f]).deadline = flight[f].deadline
        /\ Prune(flight[f]).waiters = flight[f].waiters \ ctxDone
        /\ flight[f].waiters \ ctxDone # {} =>
              (Prune(flight[f]).cancelled <=> flight[f].cancelled)
    BY <2>1, PruneFields
  <2>3. Dropped(f) = [flight EXCEPT ![f] = Prune(flight[f])]
    BY <1>3 DEF Dropped
  <2> QED
    BY <1>1, <1>3, <2>2, <2>3 DEF Pruned, Types
<1> QED
  BY <1>2, <1>3

\* A call that has missed is listed nowhere and has started nothing; the map's flight for
\* its key, if there is one, runs.
LEMMA MissedCall ==
    ASSUME IInv, NEW c \in Callers, call[c].step = "missed"
    PROVE  /\ call[c].key \in Keys /\ flight[c].step = "none"
           /\ \A g \in Callers : c \notin flight[g].waiters
           /\ flights[call[c].key] \in Callers \cup {None}
           /\ flights[call[c].key] # None =>
                 /\ flights[call[c].key] \in Callers \ {c} /\ Running(flights[call[c].key])
                 /\ flight[flights[call[c].key]].key = call[c].key
<1>1. call[c].key \in Keys /\ flight[c].step = "none"
  BY DEF IInv, Remembered
<1>2. \A g \in Callers : c \notin flight[g].waiters
  BY DEF IInv, Listed
<1> QED
  BY <1>1, <1>2 DEF IInv, Types, Mapped, Running

\* do returns at once: its context ended, or there are too many waiters or lookups.  The
\* map loses at most a flight that no live caller waits for.
LEMMA EarlyReturn ==
    ASSUME IInv, NEW c \in Callers, call[c].step = "missed",
           call' = [call EXCEPT ![c] = Returned], ctxDone' = ctxDone \ {c}, stale' = stale,
           UNCHANGED <<now, tokens, cacheVars>>, Pruned(flight'),
           \/ flights' = flights
           \/ /\ flights' = [flights EXCEPT ![call[c].key] = None]
              /\ flights[call[c].key] # None =>
                    flight[flights[call[c].key]].waiters \subseteq ctxDone
    PROVE  IInv'
<1>0. /\ Types /\ Mapped /\ Listed /\ Present /\ Remembered /\ LiveWaiterKeepsFlight
      /\ Attended /\ Counted /\ Dated /\ Observed /\ Delivered /\ AnswersFresh
  BY NoOrphanSplit DEF IInv
<1>1. /\ call[c].key \in Keys /\ \A g \in Callers : c \notin flight[g].waiters
      /\ \A g \in Callers : Running(g)' <=> Running(g)
  BY MissedCall DEF Pruned, Running
<1>2. /\ \A d \in Callers \ {c} : call'[d] = call[d]
      /\ call'[c] = Returned /\ Returned \in CallRecords /\ Returned.step = "returned"
      /\ Returned.at = 0
  BY <1>0, ReturnedRecord DEF Types
<1>3. Types'
  BY <1>0, <1>1, <1>2 DEF Types, Pruned
<1>4. Mapped'
  BY <1>0, <1>1 DEF Types, Mapped, Pruned
<1>5. Listed'
  BY <1>0, <1>1, <1>2 DEF Types, Listed, Pruned
<1>6. Present'
  BY <1>0, <1>2 DEF Types, Present, Pruned, Remembered, Attends
<1>7. Remembered'
  BY <1>0, <1>1, <1>2 DEF Remembered, Attends, Pruned
<1>8. LiveWaiterKeepsFlight'
  <2> SUFFICES ASSUME NEW g \in Callers, Running(g), NEW d \in flight'[g].waiters, d \notin ctxDone'
               PROVE  flights'[flight'[g].key] = g /\ ~flight'[g].cancelled
    BY <1>1 DEF LiveWaiterKeepsFlight
  <2>1. d \in flight[g].waiters \ ctxDone /\ flight'[g].key = flight[g].key
    BY <1>1 DEF Pruned
  <2>2. flights[flight[g].key] = g /\ ~flight[g].cancelled
    BY <1>0, <2>1 DEF LiveWaiterKeepsFlight
  <2>3. ~flight'[g].cancelled
    BY <2>1, <2>2 DEF Pruned
  <2>4. flights'[flight[g].key] = g
    <3>1. flight[g].key \in Keys /\ g # None
      BY <1>0, ResolverAssumption DEF Mapped
    <3>2. flight[g].key = call[c].key => flights' = flights
      BY <2>1, <2>2, <3>1
    <3> QED
      BY <1>0, <1>1, <2>2, <3>1, <3>2 DEF Types
  <2> QED
    BY <2>1, <2>3, <2>4
<1>9. Attended'
  BY <1>0, <1>1, <1>2 DEF Attended, Attends, Pruned, Remembered
<1>10. Counted'
  BY <1>0, <1>1, SameCount
<1>11. Dated' /\ AnswersFresh'
  BY <1>0, <1>2 DEF Types, Dated, AnswersFresh
<1>12. Observed'
  BY <1>0, <1>1, ResolverAssumption DEF Observed, Mapped, Pruned, Types
<1>13. Delivered'
  <2>1. \A g \in Callers : flight'[g].waiters \subseteq flight[g].waiters \ {c}
    BY <1>1 DEF Pruned
  <2>2. \A g \in Callers : flight'[g].step = flight[g].step /\ flight'[g].res = flight[g].res
    BY DEF Pruned
  <2>3. \A g \in Callers : flight[g].waiters \subseteq Callers
    BY <1>0 DEF Types, FlightRecords
  <2>4. ctxDone \ {c} \subseteq ctxDone'
    OBVIOUS
  <2> QED
    BY <1>0, <1>2, <1>3, <2>1, <2>2, <2>3, <2>4, SameDelivery
<1> QED
  BY <1>3, <1>4, <1>5, <1>6, <1>7, <1>8, <1>9, <1>10, <1>11, <1>12, <1>13, NoOrphanSplit, PTL
     DEF IInv

\* do joins the running flight of its key, which has a live waiter.
LEMMA JoinIInv ==
    ASSUME IInv, NEW c \in Callers, call[c].step = "missed", c \notin ctxDone,
           Join(c, flights[call[c].key]), UNCHANGED <<now, cacheVars>>
    PROVE  IInv'
<1>0. /\ Types /\ Mapped /\ Listed /\ Present /\ Remembered /\ LiveWaiterKeepsFlight
      /\ Attended /\ Counted /\ Dated /\ Observed /\ Delivered /\ AnswersFresh
  BY NoOrphanSplit DEF IInv
<1> DEFINE f == flights[call[c].key]
           new == Admitted(Prune(flight[f]), c)
           mine == [call[c] EXCEPT !.step = "waiting", !.flight = f]
<1>1. /\ f # None /\ Prune(flight[f]).waiters # {}
      /\ flight' = [flight EXCEPT ![f] = new]
      /\ UNCHANGED <<now, cacheVars, ctxDone, stale, flights, tokens>>
  BY DEF Join, Wait
<1>2. call' = [call EXCEPT ![c] = mine]
  BY <1>0 DEF Join, Wait, Types
<1>3. /\ f \in Callers /\ f # c /\ Running(f) /\ flight[f].key = call[c].key
      /\ call[c].key \in Keys /\ flight[f] \in FlightRecords
      /\ \A g \in Callers : c \notin flight[g].waiters
  BY <1>0, <1>1, MissedCall DEF Types
<1>4. /\ mine \in CallRecords /\ mine.step = "waiting" /\ mine.flight = f
      /\ mine.key = call[c].key /\ mine.at = call[c].at /\ mine.floor = call[c].floor
  BY <1>0, <1>3 DEF Types, CallRecords
<1>5. /\ Prune(flight[f]) \in FlightRecords /\ Prune(flight[f]).step = flight[f].step
      /\ Prune(flight[f]).key = flight[f].key /\ Prune(flight[f]).res = flight[f].res
      /\ Prune(flight[f]).deadline = flight[f].deadline
      /\ Prune(flight[f]).admit = flight[f].admit
      /\ Prune(flight[f]).waiters = flight[f].waiters \ ctxDone
      /\ Prune(flight[f]).cancelled <=>
            flight[f].cancelled \/ (flight[f].waiters \ ctxDone = {} /\ flight[f].step # "done")
  BY <1>0, <1>3, PruneFields
<1>6. /\ new \in FlightRecords /\ new.step = flight[f].step /\ new.key = flight[f].key
      /\ new.res = flight[f].res /\ new.deadline = flight[f].deadline
      /\ new.admit = flight[f].admit /\ new.waiters = (flight[f].waiters \ ctxDone) \cup {c}
      /\ new.cancelled = Prune(flight[f]).cancelled
  BY <1>5 DEF Admitted, FlightRecords
<1>7. ~new.cancelled
  BY <1>0, <1>1, <1>3, <1>5, <1>6 DEF LiveWaiterKeepsFlight
<1> HIDE DEF f, new, mine
<1>8. Types' /\ Mapped'
  BY <1>0, <1>1, <1>2, <1>3, <1>4, <1>6 DEF Types, Mapped, Running
<1>9. Listed' /\ Present'
  BY <1>0, <1>1, <1>2, <1>3, <1>4, <1>6 DEF Types, Listed, Present, Remembered, Attends
<1>10. Remembered' /\ Attended'
  <2>1. \A g \in Callers : flight'[g].step = flight[g].step /\ flight'[g].key = flight[g].key
    BY <1>0, <1>1, <1>3, <1>6 DEF Types
  <2>2. /\ \A d \in Callers \ {c} : call'[d] = call[d]
        /\ call'[c] = mine
    BY <1>0, <1>2 DEF Types
  <2>3. Remembered'
    BY <1>0, <1>3, <1>4, <2>1, <2>2 DEF Remembered, Running, Attends
  <2>4. Attended'
    BY <1>0, <1>3, <1>4, <2>1, <2>2 DEF Attended, Remembered, Running, Attends
  <2> QED
    BY <2>3, <2>4
<1>11. LiveWaiterKeepsFlight'
  BY <1>0, <1>1, <1>3, <1>6, <1>7 DEF Types, LiveWaiterKeepsFlight, Running, f
<1>12. Counted'
  <2>1. \A g \in Callers : Running(g)' <=> Running(g)
    BY <1>0, <1>1, <1>3, <1>6 DEF Types, Running
  <2> QED
    BY <1>0, <1>1, <2>1, SameCount
<1>13. Dated' /\ AnswersFresh'
  BY <1>0, <1>1, <1>2, <1>4 DEF Types, Dated, AnswersFresh
<1>14. Observed'
  BY <1>0, <1>1, <1>3, <1>6 DEF Types, Observed, Running
<1>15. Delivered'
  <2>1. \A g \in Callers : flight'[g].step = "done" =>
           flight'[g] = flight[g] /\ flight[g].waiters \subseteq Callers \ {c}
    BY <1>0, <1>1, <1>3, <1>6 DEF Types, FlightRecords, Running
  <2>2. \A d \in Callers \ {c} : call'[d] = call[d]
    BY <1>0, <1>2 DEF Types
  <2> QED
    BY <1>0, <1>1, <1>8, <2>1, <2>2, SameDelivery
<1> QED
  BY <1>8, <1>9, <1>10, <1>11, <1>12, <1>13, <1>14, <1>15, NoOrphanSplit, PTL DEF IInv

\* do starts a flight: the map's flight for the key, if any, has no live waiter.
LEMMA BeginIInv ==
    ASSUME IInv, NEW c \in Callers, call[c].step = "missed", c \notin ctxDone,
           Begin(c, flights[call[c].key]), UNCHANGED <<now, cacheVars>>
    PROVE  IInv'
<1>0. /\ Types /\ Mapped /\ Listed /\ Present /\ Remembered /\ LiveWaiterKeepsFlight
      /\ Attended /\ Counted /\ Dated /\ Observed /\ Delivered /\ AnswersFresh
  BY NoOrphanSplit DEF IInv
<1> DEFINE f == flights[call[c].key]
           k == call[c].key
           D == Dropped(f)
           new == [NoFlight EXCEPT !.step = "looking", !.key = k, !.deadline = now + Timeout,
                                   !.waiters = {c}]
           mine == [call[c] EXCEPT !.step = "waiting", !.flight = c]
<1>1. /\ Vacant(f) /\ flight' = [D EXCEPT ![c] = new]
      /\ flights' = [flights EXCEPT ![k] = c] /\ tokens' = tokens + 1
      /\ UNCHANGED <<now, cacheVars, ctxDone, stale>>
  BY DEF Begin, Wait
<1>2. call' = [call EXCEPT ![c] = mine]
  BY <1>0 DEF Begin, Wait, Types
<1>3. /\ k \in Keys /\ flight[c].step = "none" /\ f \in Callers \cup {None}
      /\ \A g \in Callers : c \notin flight[g].waiters
      /\ f # None => Running(f) /\ flight[f].key = k
  BY MissedCall
<1>4. /\ mine \in CallRecords /\ mine.step = "waiting" /\ mine.flight = c
      /\ mine.key = k /\ mine.at = call[c].at /\ mine.floor = call[c].floor
  BY <1>0 DEF Types, CallRecords
<1>5. /\ new \in FlightRecords /\ new.step = "looking" /\ new.key = k /\ new.res = Nothing
      /\ new.deadline = now + Timeout /\ new.waiters = {c} /\ new.cancelled = FALSE
  <2>1. now + Timeout \in Nat
    BY <1>0, ResolverAssumption DEF Types
  <2> QED
    BY <1>3, <2>1 DEF FlightRecords, NoFlight
<1>6. Pruned(D)
  BY <1>0, <1>3, DroppedPruned
<1>7. f # None => flight[f].waiters \subseteq ctxDone
  BY <1>0, <1>1, <1>3, PruneFields DEF Vacant, Types
<1> HIDE DEF f, k, D, new, mine
<1>8. /\ flight'[c] = new
      /\ \A g \in Callers \ {c} :
           /\ flight'[g] \in FlightRecords
           /\ flight'[g].step = flight[g].step /\ flight'[g].key = flight[g].key
           /\ flight'[g].res = flight[g].res /\ flight'[g].deadline = flight[g].deadline
           /\ flight'[g].admit = flight[g].admit
           /\ flight'[g].waiters \subseteq flight[g].waiters
           /\ flight[g].waiters \ ctxDone \subseteq flight'[g].waiters
           /\ flight[g].waiters \ ctxDone # {} => (flight'[g].cancelled <=> flight[g].cancelled)
  BY <1>1, <1>6 DEF Pruned
<1>9. /\ \A d \in Callers \ {c} : call'[d] = call[d]
      /\ call'[c] = mine
  BY <1>0, <1>2 DEF Types
<1>10. Types'
  BY <1>0, <1>1, <1>2, <1>3, <1>4, <1>5, <1>6 DEF Types, Pruned
<1>11. Mapped'
  BY <1>0, <1>1, <1>3, <1>5, <1>8 DEF Types, Mapped, Running
<1>12. Listed'
  BY <1>0, <1>3, <1>4, <1>5, <1>8, <1>9 DEF Listed
<1>13. Present'
  <2>1. ASSUME NEW d \in Callers \ {c}, call'[d].step = "waiting", d \notin ctxDone'
        PROVE  d \in flight'[call'[d].flight].waiters
    <3>1. call[d].flight \in Callers /\ d \in flight[call[d].flight].waiters
      BY <1>0, <1>1, <1>9, <2>1 DEF Present, Remembered, Attends
    <3>2. call[d].flight # c
      BY <1>0, <1>9, <2>1, <1>3 DEF Attended, Attends
    <3> QED
      BY <1>1, <1>8, <1>9, <2>1, <3>1, <3>2
  <2> QED
    BY <1>4, <1>5, <1>8, <1>9, <2>1 DEF Present
<1>14. Remembered'
  <2>1. ASSUME NEW d \in Callers \ {c}, Attends(d)
        PROVE  call[d].flight \in Callers \ {c}
    BY <1>0, <1>3, <2>1 DEF Remembered, Attended
  <2> QED
    BY <1>0, <1>3, <1>4, <1>5, <1>8, <1>9, <2>1 DEF Remembered, Attends, Running
<1>15. Attended'
  <2>1. ASSUME NEW g \in Callers, Running(g)'
        PROVE  \E d \in Callers : (Attends(d) /\ call[d].flight = g)'
    <3>1. CASE g = c
      BY <1>4, <1>9, <3>1 DEF Attends
    <3>2. CASE g # c
      <4>1. PICK d \in Callers : Attends(d) /\ call[d].flight = g
        BY <1>0, <1>8, <2>1, <3>2 DEF Attended, Running
      <4>2. d # c
        BY <4>1 DEF Attends
      <4> QED
        BY <1>9, <4>1, <4>2 DEF Attends
    <3> QED
      BY <3>1, <3>2
  <2>2. \A d \in Callers : Attends(d)' => flight'[call'[d].flight].step # "none"
    BY <1>0, <1>4, <1>5, <1>8, <1>9 DEF Attended, Remembered, Attends
  <2> QED
    BY <2>1, <2>2 DEF Attended
<1>16. LiveWaiterKeepsFlight'
  <2> SUFFICES ASSUME NEW g \in Callers, Running(g)', NEW d \in flight'[g].waiters, d \notin ctxDone
               PROVE  flights'[flight'[g].key] = g /\ ~flight'[g].cancelled
    BY <1>1 DEF LiveWaiterKeepsFlight
  <2>1. CASE g = c
    BY <1>0, <1>1, <1>3, <1>5, <1>8, <2>1 DEF Types
  <2>2. CASE g # c
    <3>1. Running(g) /\ d \in flight[g].waiters \ ctxDone /\ flight'[g].key = flight[g].key
      BY <1>8, <2>2 DEF Running
    <3>2. flights[flight[g].key] = g /\ ~flight[g].cancelled /\ flight[g].key \in Keys
      BY <1>0, <3>1 DEF LiveWaiterKeepsFlight, Mapped
    <3>3. flight[g].key # k
      BY <1>7, <3>1, <3>2, ResolverAssumption DEF f, k
    <3> QED
      BY <1>0, <1>1, <1>8, <2>2, <3>1, <3>2, <3>3 DEF Types
  <2> QED
    BY <2>1, <2>2
<1>17. Counted'
  <2> DEFINE S == {g \in Callers : Running(g)}
             T == {g \in Callers : Running(g)'}
  <2>1. T = S \cup {c} /\ c \notin S
    BY <1>3, <1>5, <1>8 DEF Running
  <2>2. IsFiniteSet(S)
    BY FS_Subset, ResolverAssumption
  <2>3. Cardinality(T) = Cardinality(S) + 1
    BY <2>1, <2>2, FS_AddElement
  <2> QED
    BY <1>0, <1>1, <2>3 DEF Counted
<1>18. Dated' /\ AnswersFresh'
  BY <1>0, <1>1, <1>4, <1>9 DEF Types, Dated, AnswersFresh, k
<1>19. Observed'
  <2>1. \A g \in Callers \ {c} : Running(g)' => Running(g) /\
           (flights'[flight[g].key] = g => flights[flight[g].key] = g)
    BY <1>0, <1>1, <1>3, <1>8 DEF Types, Mapped, Running
  <2>2. flight'[c].step = "looking" /\ flight'[c].res.kind = "none"
        /\ flight'[c].deadline = now + Timeout
    BY <1>5, <1>8 DEF Nothing
  <2>3. now + Timeout \in Nat /\ now + Timeout <= now + Timeout
    BY <1>0, ResolverAssumption DEF Types
  <2> QED
    BY <1>0, <1>1, <1>8, <2>1, <2>2, <2>3 DEF Observed
<1>20. Delivered'
  <2>1. \A g \in Callers : flight'[g].step = "done" =>
           /\ flight[g].step = "done" /\ flight'[g].res = flight[g].res
           /\ flight'[g].waiters \subseteq flight[g].waiters
           /\ flight[g].waiters \subseteq Callers \ {c}
    BY <1>0, <1>3, <1>5, <1>8 DEF Types, FlightRecords
  <2> QED
    BY <1>0, <1>1, <1>9, <1>10, <2>1, SameDelivery
<1> QED
  BY <1>10, <1>11, <1>12, <1>13, <1>14, <1>15, <1>16, <1>17, <1>18, <1>19, <1>20, NoOrphanSplit,
     PTL
     DEF IInv

\* do: join, start, or return at once.
LEMMA DoIInv ==
    ASSUME IInv, NEW c \in Callers, Do(c)
    PROVE  IInv'
<1> DEFINE f == flights[call[c].key]
<1>1. call[c].step = "missed" /\ UNCHANGED <<now, cacheVars>>
  BY DEF Do
<1>2. Types /\ f \in Callers \cup {None} /\ (f # None => flight[f] \in FlightRecords)
  BY <1>1, MissedCall DEF IInv, Types
<1>3. Pruned(Dropped(f)) /\ Pruned(flight)
  BY <1>2, DroppedPruned
<1>4. CASE c \in ctxDone
  <2>1. Return(c, Nothing) /\ UNCHANGED groupVars
    BY <1>4 DEF Do
  <2>2. call' = [call EXCEPT ![c] = Returned] /\ ctxDone' = ctxDone \ {c} /\ stale' = stale
    BY <1>4, <2>1 DEF Return
  <2> QED
    BY <1>1, <1>3, <2>1, <2>2, EarlyReturn
<1>5. ASSUME Return(c, Temporary)
      PROVE  call' = [call EXCEPT ![c] = Returned] /\ ctxDone' = ctxDone \ {c} /\ stale' = stale
  BY <1>5 DEF Return, Stale, Temporary
<1>6. CASE c \notin ctxDone /\ Join(c, f)
  BY <1>1, <1>6, JoinIInv
<1>7. CASE c \notin ctxDone /\ TooManyWaiters(c, f)
  <2>1. flight' = Dropped(f) /\ flights' = flights /\ tokens' = tokens /\ Return(c, Temporary)
    BY <1>7 DEF TooManyWaiters, Dropped
  <2> QED
    BY <1>1, <1>3, <1>5, <2>1, EarlyReturn
<1>8. CASE c \notin ctxDone /\ Begin(c, f)
  BY <1>1, <1>8, BeginIInv
<1>9. CASE c \notin ctxDone /\ TooManyLookups(c, f)
  <2>1. /\ flight' = Dropped(f) /\ flights' = [flights EXCEPT ![call[c].key] = None]
        /\ tokens' = tokens /\ Return(c, Temporary) /\ Vacant(f)
    BY <1>9 DEF TooManyLookups
  <2>2. f # None => flight[f].waiters \subseteq ctxDone
    BY <1>2, <2>1, PruneFields DEF Vacant
  <2> QED
    BY <1>1, <1>3, <1>5, <2>1, <2>2, EarlyReturn
<1> QED
  BY <1>4, <1>6, <1>7, <1>8, <1>9 DEF Do

----------------------------------------------------------------------------
(* The theorems.                                                           *)

\* The resolver starts in the invariant.
LEMMA InitIInv == Init => IInv
<1> SUFFICES ASSUME Init PROVE IInv
  OBVIOUS
<1>1. NoFlight \in FlightRecords /\ NoFlight.step = "none" /\ NoFlight.waiters = {}
  BY DEF NoFlight, FlightRecords, Nothing
<1>2. NoCall \in CallRecords /\ NoCall.step = "idle" /\ NoCall.at = 0
  BY DEF NoCall, CallRecords
<1>3. Types
  BY <1>1, <1>2 DEF Init, Types
<1>4. \A f \in Callers : ~Running(f) /\ flight[f].step = "none" /\ flight[f].waiters = {}
  BY <1>1 DEF Init, Running
<1>5. \A c \in Callers : call[c].step = "idle" /\ call[c].at = 0 /\ ~Attends(c)
  BY <1>2 DEF Init, Attends
<1>6. Mapped /\ Listed /\ Present /\ Remembered /\ LiveWaiterKeepsFlight /\ Delivered
  BY <1>4, <1>5 DEF Init, Mapped, Listed, Present, Remembered, LiveWaiterKeepsFlight, Delivered
<1>7. NoOrphanWork
  <2>1. {f \in Callers : Running(f)} = {}
    BY <1>4
  <2> QED
    BY <1>4, <1>5, <2>1, FS_EmptySet DEF Init, NoOrphanWork
<1>8. Dated /\ Observed /\ AnswersFresh
  BY <1>4, <1>5 DEF Init, Dated, Observed, AnswersFresh, Nothing
<1> QED
  BY <1>3, <1>6, <1>7, <1>8 DEF IInv

\* A step that changes nothing keeps it.
LEMMA StutterIInv == IInv /\ UNCHANGED vars => IInv'
<1> SUFFICES ASSUME IInv, UNCHANGED vars PROVE IInv'
  OBVIOUS
<1>1. Types' /\ Mapped' /\ Listed' /\ Present'
  BY DEF IInv, vars, Types, Mapped, Listed, Present, Running
<1>2. Remembered' /\ LiveWaiterKeepsFlight' /\ NoOrphanWork'
  BY DEF IInv, vars, Remembered, LiveWaiterKeepsFlight, NoOrphanWork, Running, Attends
<1>3. Dated' /\ Observed' /\ Delivered' /\ AnswersFresh'
  BY DEF IInv, vars, Dated, Observed, Delivered, AnswersFresh, Running
<1> QED
  BY <1>1, <1>2, <1>3 DEF IInv

\* The invariant is inductive for any number of callers and keys and for any limits: no
\* interleaving of callers, workers, cancellations and the clock leaves it.
THEOREM Invariance == Spec => []IInv
<1>1. Init => IInv
  BY InitIInv
<1>2. IInv /\ [Next]_vars => IInv'
  BY ResolveIInv, DoIInv, WaitDoneIInv, LeaveIInv, RetiredIInv, LookupTXTIInv,
     PrepareAdmissionIInv, FinishIInv, CancelIInv, TickIInv, StutterIInv
     DEF Next, Caller, Worker
<1> QED
  BY <1>1, <1>2, PTL DEF Spec

\* flightGroup never makes a live waiter pay for callers that left: its flight stays in
\* the map and runs on.
THEOREM LiveWaiterKeepsFlightHolds == Spec => []LiveWaiterKeepsFlight
<1>1. IInv => LiveWaiterKeepsFlight
  BY DEF IInv
<1> QED
  BY <1>1, Invariance, PTL

\* Every running lookup has a caller that waits for it to end, nobody waits for a flight
\* that was never started, and the semaphore counts exactly the running lookups.
THEOREM NoOrphanWorkHolds == Spec => []NoOrphanWork
<1>1. IInv => NoOrphanWork
  BY DEF IInv
<1> QED
  BY <1>1, Invariance, PTL

\* No call is answered from an entry or a flight that was out of date, or older than what
\* had been published, when the call began.
THEOREM AnswersFreshHolds == Spec => []AnswersFresh
<1>1. IInv => AnswersFresh
  BY DEF IInv
<1> QED
  BY <1>1, Invariance, PTL

\* MaxConcurrentLookups bounds the lookups that run, cancelled and abandoned ones included:
\* a lookup nobody waits for holds its token until it ends.
THEOREM LookupsBounded == Spec => [](Cardinality({f \in Callers : Running(f)}) <= MaxLookups)
<1> DEFINE B == tokens \in 0..MaxLookups
<1>1. Init => B
  BY ResolverAssumption DEF Init
<1>2. IInv /\ IInv' /\ B /\ [Next]_vars => B'
  <2> SUFFICES ASSUME IInv', B, [Next]_vars PROVE B'
    OBVIOUS
  <2>1. tokens' \in Nat
    <3>1. IsFiniteSet({f \in Callers : Running(f)'})
      BY FS_Subset, ResolverAssumption
    <3> QED
      BY <3>1, FS_CardinalityType DEF IInv, NoOrphanWork
  <2>2. \/ tokens' = tokens \/ tokens' = tokens - 1
        \/ tokens < MaxLookups /\ tokens' = tokens + 1
    BY DEF Next, vars, Caller, Worker, Resolve, Do, Join, TooManyWaiters, Begin,
         TooManyLookups, WaitDone, Leave, Retired, LookupTXT, PrepareAdmission, Finish,
         Cancel, Tick
  <2> QED
    BY <2>1, <2>2, ResolverAssumption
<1>3. IInv /\ B => Cardinality({f \in Callers : Running(f)}) <= MaxLookups
  BY DEF IInv, NoOrphanWork
<1> QED
  BY <1>1, <1>2, <1>3, Invariance, PTL DEF Spec
==============================================================================
