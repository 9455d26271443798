------------------------ MODULE RedisStoreLifecycle -------------------------
(***************************************************************************)
(* The lifecycle of one Redis replay store (redisstore/lifecycle.go,       *)
(* store.go, health.go): bounded admission of operations, closing against  *)
(* running operations and probes, and the recovery facts that readiness    *)
(* follows.  What an operation writes is RedisPropagation's subject; here  *)
(* it is a use of the client with an outcome.                              *)
(*                                                                         *)
(* Every operation is a goroutine that starts over when it has returned.   *)
(* A caller's context may be over whenever the code looks at it.           *)
(***************************************************************************)
EXTENDS Integers, FiniteSets

CONSTANTS Ops,              \* operation goroutines
          Probers,          \* health-probe loops
          Closers,          \* callers of Close
          MaxInFlight,      \* replay.limits.max_in_flight
          MaxWaiters,       \* replay.limits.max_admission_waiters
          Threshold         \* health failure_threshold

ASSUME LifecycleAssumption ==
    /\ MaxInFlight \in Nat \ {0} /\ MaxWaiters \in Nat /\ Threshold \in Nat \ {0}
    /\ Ops \cap Probers = {}
    /\ IsFiniteSet(Ops) /\ IsFiniteSet(Probers)

VARIABLES
    state,      \* admissionGate.state; its closing channel is closed with it
    slots,      \* free tokens in admissionGate.slots
    inFlight,   \* admissionGate.inFlight
    drained,    \* the drained channel is closed
    facts,      \* recoveryFacts.bits
    failures,   \* probeFailures, saturated at Threshold
    client,     \* the owned client: "open", or "released" (closed and nil)
    pc,         \* step of every operation and probe
    cpc,        \* step of every closing caller
    up          \* every primary answers a PING in time

gateVars == <<state, slots, inFlight, drained>>
healthVars == <<facts, failures>>
vars == <<gateVars, healthVars, client, pc, cpc, up>>

Work == Ops \cup Probers

(* "slotted" and "slotted_waiter" hold a slot and are not yet registered;  *)
(* waiters are counted until finishAdmission has returned.                 *)
WaiterSteps == {"waiting", "slotted_waiter"}
Steps == WaiterSteps \cup {"idle", "entered", "slotted", "running", "ok", "transient",
         "restart", "probed", "leaving", "returning"}

TypeOK == /\ state \in {"ready", "closing", "closed"}
          /\ slots \in 0..MaxInFlight
          /\ inFlight \in Nat
          /\ drained \in BOOLEAN
          /\ facts \subseteq {"transient", "restart"}
          /\ failures \in 0..Threshold
          /\ client \in {"open", "released"}
          /\ pc \in [Work -> Steps]
          /\ cpc \in [Closers -> {"idle", "draining", "drained", "releasing", "closed", "invariant"}]
          /\ up \in BOOLEAN

Init == /\ state = "ready" /\ slots = MaxInFlight /\ inFlight = 0 /\ drained = FALSE
        /\ facts = {} /\ failures = 0
        /\ client = "open"
        /\ pc = [w \in Work |-> "idle"]
        /\ cpc = [q \in Closers |-> "idle"]
        /\ up = TRUE

Goto(w, step) == pc' = [pc EXCEPT ![w] = step]

(***************************************************************************)
(* Admission.                                                              *)
(***************************************************************************)
(* admitOperation: the lifecycle refusal ahead of nonce and key work.      *)
admitOperation(o) == /\ pc[o] = "idle"
                     /\ state = "ready"
                     /\ Goto(o, "entered")
                     /\ UNCHANGED <<gateVars, healthVars, client, cpc, up>>

Waiters == {o \in Ops : pc[o] \in WaiterSteps}

(* admit up to its blocking select: refuse, take a slot, or wait.          *)
admit(o) ==
    /\ pc[o] = "entered"
    /\ \/ Goto(o, "idle") /\ UNCHANGED slots      \* context over, or the store closes
       \/ /\ state = "ready" /\ slots > 0
          /\ slots' = slots - 1
          /\ Goto(o, "slotted")
       \/ /\ state = "ready" /\ slots = 0
          /\ Goto(o, IF Cardinality(Waiters) < MaxWaiters THEN "waiting" ELSE "idle")
          /\ UNCHANGED slots
    /\ UNCHANGED <<state, inFlight, drained, healthVars, client, cpc, up>>

(* The select: closing, the context, or a slot; all ready ones compete.    *)
WaitForSlot(o) ==
    /\ pc[o] = "waiting"
    /\ slots > 0
    /\ slots' = slots - 1
    /\ Goto(o, "slotted_waiter")
    /\ UNCHANGED <<state, inFlight, drained, healthVars, client, cpc, up>>

StopWaiting(o) == /\ pc[o] = "waiting" /\ state # "ready"
                  /\ Goto(o, "idle")
                  /\ UNCHANGED <<gateVars, healthVars, client, cpc, up>>

CancelWaiting(o) == /\ pc[o] = "waiting"
                    /\ Goto(o, "idle")
                    /\ UNCHANGED <<gateVars, healthVars, client, cpc, up>>

(* Mutant: a refused caller keeps its slot.                                *)
refuseAdmissionLeaks(o) ==
    /\ pc[o] \in {"slotted", "slotted_waiter"}
    /\ Goto(o, "idle")
    /\ UNCHANGED <<gateVars, healthVars, client, cpc, up>>

(* finishAdmission, the refusals: context over, or closed in between.      *)
refuseAdmission(o) ==
    /\ pc[o] \in {"slotted", "slotted_waiter"}
    /\ slots' = slots + 1
    /\ Goto(o, "idle")
    /\ UNCHANGED <<state, inFlight, drained, healthVars, client, cpc, up>>

(* Mutant: the state is not read again under the lock.                     *)
finishAdmissionUnchecked(o) ==
    /\ pc[o] \in {"slotted", "slotted_waiter"}
    /\ inFlight' = inFlight + 1
    /\ \E step \in {"running", "leaving"} : Goto(o, step)
    /\ UNCHANGED <<state, slots, drained, healthVars, client, cpc, up>>

(* finishAdmission: register under the lock; the context is read again.    *)
finishAdmission(o) ==
    /\ pc[o] \in {"slotted", "slotted_waiter"}
    /\ state = "ready"
    /\ inFlight' = inFlight + 1
    /\ \E step \in {"running", "leaving"} : Goto(o, step)
    /\ UNCHANGED <<state, slots, drained, healthVars, client, cpc, up>>

(* admitLifecycle: a probe registers without a slot.                       *)
admitLifecycle(p) == /\ pc[p] = "idle"
                     /\ state = "ready"
                     /\ inFlight' = inFlight + 1
                     /\ \E step \in {"running", "leaving"} : Goto(p, step)
                     /\ UNCHANGED <<state, slots, drained, healthVars, client, cpc, up>>

(* publishDrainedLocked                                                    *)
publishDrained(s, n) == drained' = (drained \/ (s = "closing" /\ n = 0))

(* Mutant: a leaving operation does not publish the drain.                 *)
finishSilent(w) == /\ pc[w] = "leaving"
                   /\ inFlight' = inFlight - 1
                   /\ Goto(w, IF w \in Ops THEN "returning" ELSE "idle")
                   /\ UNCHANGED <<state, slots, drained, healthVars, client, cpc, up>>

(* finish: leave under the lock, then give the slot back.                  *)
finish(w) == /\ pc[w] = "leaving"
             /\ inFlight' = inFlight - 1
             /\ publishDrained(state, inFlight - 1)
             /\ Goto(w, IF w \in Ops THEN "returning" ELSE "idle")
             /\ UNCHANGED <<state, slots, healthVars, client, cpc, up>>

returnSlot(o) == /\ pc[o] = "returning"
                 /\ slots' = slots + 1
                 /\ Goto(o, "idle")
                 /\ UNCHANGED <<state, inFlight, drained, healthVars, client, cpc, up>>

(***************************************************************************)
(* Operations and probes use the client, then publish what they saw.       *)
(***************************************************************************)
(* dispatch, mapValueReply and mapCommandError: an authoritative reply, a  *)
(* failure that may pass, or one that needs a restart.  Each is possible   *)
(* whether or not the primaries answer a PING: a write fails for an ended  *)
(* caller context, a pool time-out, OOM, READONLY or BUSY, and a takeover  *)
(* that finds the record gone is published as transient too.               *)
dispatch(o) == /\ pc[o] = "running"
               /\ \E step \in {"ok", "transient", "restart"} : Goto(o, step)
               /\ UNCHANGED <<gateVars, healthVars, client, cpc, up>>

(* publishFailure: one compare-and-swap on the facts.                      *)
publishFailure(w) == /\ pc[w] \in {"transient", "restart"}
                     /\ facts' = facts \cup {pc[w]}
                     /\ Goto(w, "leaving")
                     /\ UNCHANGED <<gateVars, failures, client, cpc, up>>

(* Mutant: a success leaves the facts alone.                               *)
publishSuccessSilent(w) == /\ pc[w] = "ok"
                           /\ Goto(w, "leaving")
                           /\ UNCHANGED <<gateVars, healthVars, client, cpc, up>>

(* publishSuccess: clears only the transient fact.                         *)
publishSuccess(w) == /\ pc[w] = "ok"
                     /\ facts' = facts \ {"transient"}
                     /\ Goto(w, "leaving")
                     /\ UNCHANGED <<gateVars, failures, client, cpc, up>>

(* Probe: a failed ping counts, unless the caller's context is over or the *)
(* failure is an internal invariant; a good one resets the count.          *)
Probe(p) ==
    /\ pc[p] = "running"
    /\ \/ up /\ failures' = 0 /\ Goto(p, "ok")
       \/ ~up /\ failures' = (IF failures < Threshold THEN failures + 1 ELSE Threshold)
              /\ Goto(p, IF failures + 1 >= Threshold THEN "transient" ELSE "leaving")
       \/ Goto(p, "leaving") /\ UNCHANGED failures
       \/ Goto(p, "restart") /\ UNCHANGED failures
    /\ UNCHANGED <<gateVars, facts, client, cpc, up>>

(***************************************************************************)
(* Close.                                                                  *)
(***************************************************************************)
beginClose(q) == /\ cpc[q] = "idle"
                 /\ state' = IF state = "ready" THEN "closing" ELSE state
                 /\ publishDrained(state', inFlight)
                 /\ cpc' = [cpc EXCEPT ![q] = "draining"]
                 /\ UNCHANGED <<slots, inFlight, healthVars, client, pc, up>>

waitAdmissionDrain(q) ==
    /\ cpc[q] = "draining"
    /\ drained
    /\ cpc' = [cpc EXCEPT ![q] = "drained"]
    /\ UNCHANGED <<gateVars, healthVars, client, pc, up>>

(* The closing caller's context ends first; Close may be called again.     *)
AbandonClose(q) == /\ cpc[q] = "draining"
                   /\ cpc' = [cpc EXCEPT ![q] = "idle"]
                   /\ UNCHANGED <<gateVars, healthVars, client, pc, up>>

publishClosed(q) ==
    /\ cpc[q] = "drained"
    /\ IF state = "closed" \/ (state = "closing" /\ inFlight = 0)
       THEN state' = "closed" /\ cpc' = [cpc EXCEPT ![q] = "releasing"]
       ELSE cpc' = [cpc EXCEPT ![q] = "invariant"] /\ UNCHANGED state
    /\ UNCHANGED <<slots, inFlight, drained, healthVars, client, pc, up>>

(* closeOnce: the client is closed and dropped, the credentials cleared.   *)
release(q) == /\ cpc[q] = "releasing"
              /\ client' = "released"
              /\ cpc' = [cpc EXCEPT ![q] = "closed"]
              /\ UNCHANGED <<gateVars, healthVars, pc, up>>

(* A primary stops answering, or all answer again (outside this code).     *)
Weather == /\ up' = ~up
           /\ UNCHANGED <<gateVars, healthVars, client, pc, cpc>>

OpStep(o) == \/ admit(o) \/ WaitForSlot(o) \/ StopWaiting(o)
             \/ finishAdmission(o) \/ refuseAdmission(o)
             \/ dispatch(o) \/ publishSuccess(o) \/ publishFailure(o)
             \/ finish(o) \/ returnSlot(o)
ProbeStep(p) == \/ admitLifecycle(p) \/ Probe(p)
                \/ publishSuccess(p) \/ publishFailure(p) \/ finish(p)
CloseStep(q) == waitAdmissionDrain(q) \/ publishClosed(q) \/ release(q)

Next == \/ \E o \in Ops : admitOperation(o) \/ CancelWaiting(o) \/ OpStep(o)
        \/ \E p \in Probers : ProbeStep(p)
        \/ \E q \in Closers : beginClose(q) \/ AbandonClose(q) \/ CloseStep(q)
        \/ Weather

Spec == Init /\ [][Next]_vars

(* Goroutines that can run do run; the select of a waiter is fair to a     *)
(* slot that keeps coming free.  The context of the probe loop ends only   *)
(* with the daemon, so probes are not cut short for ever.  Nobody need     *)
(* call, cancel or close.                                                  *)
FairSpec == /\ Spec
            /\ \A o \in Ops : WF_vars(OpStep(o)) /\ SF_vars(WaitForSlot(o))
            /\ \A p \in Probers : /\ WF_vars(ProbeStep(p))
                                  /\ SF_vars(admitLifecycle(p) /\ pc'[p] = "running")
                                  /\ SF_vars(Probe(p) /\ pc'[p] = "ok")
            /\ \A q \in Closers : WF_vars(CloseStep(q))

(***************************************************************************)
(* Properties.                                                             *)
(***************************************************************************)
(* NoUseAfterRelease: no operation and no probe reaches for the client     *)
(* after Close released it, although Close runs against admissions that    *)
(* hold a slot and are not registered yet (finishAdmission, release).      *)
NoUseAfterRelease == client = "released" => \A w \in Work : pc[w] # "running"

(* CloseNeverInvariant: a closing caller that saw the drain never finds    *)
(* work in flight; publishClosed's failure branch is dead code.            *)
CloseNeverInvariant == \A q \in Closers : cpc[q] # "invariant"

Holders == {o \in Ops : pc[o] \in {"slotted", "slotted_waiter", "running", "ok",
                                   "transient", "restart", "leaving", "returning"}}

(* SlotsConserved: every slot is in the channel or with one operation,     *)
(* through refusals, cancellations and closing, so admission neither       *)
(* overbooks the backend nor shrinks over time.                            *)
SlotsConserved == slots + Cardinality(Holders) = MaxInFlight

(* WaitersLeave: a caller waiting for admission gets a slot or is refused, *)
(* whatever the callers before it do.                                      *)
WaitersLeave == \A o \in Ops : pc[o] = "waiting" ~> pc[o] # "waiting"

(* ClosingDrains: once the store is closing, admitted work ends and the    *)
(* drain is published.                                                     *)
ClosingDrains == state = "closing" ~> drained

(* RecoversAlone: when the primaries answer PING for good and the store    *)
(* neither closes nor needs a restart, the probe loop clears the transient *)
(* fact again and again however often operations set it, and for good once *)
(* no operation fails any more, late failures of earlier ones included.    *)
Healthy == up /\ state = "ready" /\ "restart" \notin facts
Failing == \E o \in Ops : pc[o] = "transient"
RecoversAlone ==
    /\ <>[]Healthy => []<>("transient" \notin facts)
    /\ <>[](Healthy /\ ~Failing) => <>[]("transient" \notin facts)
=============================================================================
