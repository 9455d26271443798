---------------------- MODULE RedisStoreLifecycleProofs ---------------------
(***************************************************************************)
(* Proofs about RedisStoreLifecycle, for any number of operations, probes, *)
(* closing callers, slots and waiters.                                     *)
(***************************************************************************)
EXTENDS RedisStoreLifecycle, FiniteSetTheorems, TLAPS

(* Work that finishAdmission has registered and finish has not removed.    *)
Registered == {w \in Work : pc[w] \in {"running", "ok", "transient", "restart", "leaving"}}

(* What the drain stands for: nobody is registered and nobody will be.  It *)
(* is published as soon as that is so.                                     *)
DrainInv == /\ inFlight = Cardinality(Registered)
            /\ drained => state # "ready" /\ inFlight = 0
            /\ state = "closed" \/ (state = "closing" /\ inFlight = 0) => drained
            /\ \A q \in Closers : cpc[q] \in {"drained", "releasing"} => drained
            /\ \A q \in Closers : cpc[q] = "releasing" => state = "closed"
            /\ client = "released" => state = "closed"
            /\ \A q \in Closers : cpc[q] # "invariant"

(* Only operations hold slots or wait for one.                             *)
ProbeSteps == \A p \in Probers : pc[p] \in
                 {"idle", "running", "ok", "transient", "restart", "leaving"}

IInv == TypeOK /\ DrainInv /\ SlotsConserved /\ ProbeSteps

(* Counting: a set of goroutines that gains or loses one member.           *)
LEMMA Counting ==
    ASSUME NEW S \in SUBSET Work
    PROVE  /\ IsFiniteSet(S) /\ Cardinality(S) \in Nat
           /\ \A w \in S : Cardinality(S \ {w}) = Cardinality(S) - 1 /\ Cardinality(S) > 0
           /\ \A w \in Work \ S : Cardinality(S \cup {w}) = Cardinality(S) + 1
<1>1. IsFiniteSet(Work)
  BY LifecycleAssumption, FS_Union DEF Work
<1>2. IsFiniteSet(S) /\ Cardinality(S) \in Nat
  BY <1>1, FS_Subset, FS_CardinalityType
<1>3. \A w \in S : Cardinality(S \ {w}) = Cardinality(S) - 1 /\ Cardinality(S \ {w}) \in Nat
  BY <1>2, FS_RemoveElement, FS_CardinalityType
<1>4. \A w \in Work \ S : Cardinality(S \cup {w}) = Cardinality(S) + 1
  BY <1>2, FS_AddElement
<1>5. QED
  BY <1>2, <1>3, <1>4

(* An operation or probe that keeps its registration and its slot.         *)
LEMMA Keeps ==
    ASSUME NEW w \in Work, NEW step \in Steps, pc \in [Work -> Steps],
           pc' = [pc EXCEPT ![w] = step],
           w \in Registered <=> step \in {"running", "ok", "transient", "restart", "leaving"}
    PROVE  Registered' = Registered
BY DEF Registered

LEMMA Joins ==
    ASSUME NEW w \in Work, NEW step \in {"running", "ok", "transient", "restart", "leaving"},
           pc \in [Work -> Steps], pc' = [pc EXCEPT ![w] = step], w \notin Registered
    PROVE  Cardinality(Registered') = Cardinality(Registered) + 1
<1>1. Registered' = Registered \cup {w}
  BY DEF Registered
<1>2. QED
  BY <1>1, Counting DEF Registered

LEMMA Leaves ==
    ASSUME NEW w \in Registered, NEW step \in {"returning", "idle"},
           pc \in [Work -> Steps], pc' = [pc EXCEPT ![w] = step]
    PROVE  Cardinality(Registered') = Cardinality(Registered) - 1 /\ Cardinality(Registered) > 0
<1>1. Registered' = Registered \ {w}
  BY DEF Registered
<1>2. QED
  BY <1>1, Counting DEF Registered

(* The same for the slots, held by operations.                             *)
HolderSteps == {"slotted", "slotted_waiter", "running", "ok", "transient", "restart",
                "leaving", "returning"}

LEMMA HolderTakes ==
    ASSUME NEW o \in Ops, o \notin Holders, NEW step \in HolderSteps,
           pc \in [Work -> Steps], pc' = [pc EXCEPT ![o] = step]
    PROVE  Cardinality(Holders') = Cardinality(Holders) + 1
<1>1. Holders' = Holders \cup {o}
  BY DEF Holders, HolderSteps, Work
<1>2. QED
  BY <1>1, Counting DEF Holders, Work

LEMMA HolderReturns ==
    ASSUME NEW o \in Holders, pc \in [Work -> Steps], pc' = [pc EXCEPT ![o] = "idle"]
    PROVE  Cardinality(Holders') = Cardinality(Holders) - 1 /\ Cardinality(Holders) > 0
<1>1. Holders' = Holders \ {o}
  BY DEF Holders, HolderSteps, Work
<1>2. QED
  BY <1>1, Counting DEF Holders, Work

(* A step keeps the accounting of registered work and the drain.           *)
LEMMA DrainStep == IInv /\ [Next]_vars => DrainInv'
<1> SUFFICES ASSUME IInv, [Next]_vars PROVE DrainInv'
  OBVIOUS
<1> USE DEF IInv, TypeOK, DrainInv, Goto, gateVars, healthVars
<1>0. /\ Cardinality(Registered) \in Nat /\ Registered \subseteq Work
      /\ \A w \in Registered : Cardinality(Registered) > 0
  BY Counting DEF Registered
<1>1. ASSUME NEW o \in Ops, \/ admitOperation(o) \/ admit(o) \/ WaitForSlot(o) \/ StopWaiting(o)
                            \/ CancelWaiting(o) \/ refuseAdmission(o) \/ returnSlot(o)
      PROVE  DrainInv'
  <2>1. Registered' = Registered
    BY <1>1, Keeps DEF admitOperation, admit, WaitForSlot, StopWaiting, CancelWaiting,
       refuseAdmission, returnSlot, Registered, Work, Steps, WaiterSteps
  <2>2. UNCHANGED <<state, inFlight, drained, client, cpc>>
    BY <1>1 DEF admitOperation, admit, WaitForSlot, StopWaiting, CancelWaiting,
       refuseAdmission, returnSlot
  <2>3. QED
    BY <2>1, <2>2
<1>2. ASSUME NEW o \in Ops, finishAdmission(o) PROVE DrainInv'
  <2>1. PICK step \in {"running", "leaving"} : pc' = [pc EXCEPT ![o] = step]
    BY <1>2 DEF finishAdmission
  <2>2. Cardinality(Registered') = Cardinality(Registered) + 1
    BY <1>2, <2>1, Joins DEF finishAdmission, Registered, Work
  <2>3. QED
    BY <1>2, <2>2 DEF finishAdmission
<1>3. ASSUME NEW p \in Probers, admitLifecycle(p) PROVE DrainInv'
  <2>1. PICK step \in {"running", "leaving"} : pc' = [pc EXCEPT ![p] = step]
    BY <1>3 DEF admitLifecycle
  <2>2. Cardinality(Registered') = Cardinality(Registered) + 1
    BY <1>3, <2>1, Joins DEF admitLifecycle, Registered, Work
  <2>3. QED
    BY <1>3, <2>2 DEF admitLifecycle
<1>4. ASSUME NEW w \in Work, dispatch(w) \/ publishSuccess(w) \/ publishFailure(w) \/ Probe(w)
      PROVE  DrainInv'
  <2>1. Registered' = Registered
    BY <1>4, Keeps DEF dispatch, publishSuccess, publishFailure, Probe, Registered, Steps
  <2>2. UNCHANGED <<state, inFlight, drained, client, cpc>>
    BY <1>4 DEF dispatch, publishSuccess, publishFailure, Probe
  <2>3. QED
    BY <2>1, <2>2
<1>5. ASSUME NEW w \in Work, finish(w) PROVE DrainInv'
  <2>1. PICK step \in {"returning", "idle"} : pc' = [pc EXCEPT ![w] = step]
    BY <1>5 DEF finish
  <2>2. /\ Cardinality(Registered') = Cardinality(Registered) - 1
        /\ Cardinality(Registered) > 0
    BY <1>5, <2>1, Leaves DEF finish, Registered
  <2>3. drained' <=> drained \/ (state = "closing" /\ inFlight - 1 = 0)
    BY <1>5 DEF finish, publishDrained
  <2>4. UNCHANGED <<state, client, cpc>> /\ inFlight' = inFlight - 1
    BY <1>5 DEF finish
  <2>5. QED
    BY <1>0, <2>2, <2>3, <2>4
<1>6. ASSUME NEW q \in Closers, beginClose(q) PROVE DrainInv'
  BY <1>6 DEF beginClose, publishDrained, Registered
<1>7. ASSUME NEW q \in Closers, AbandonClose(q) PROVE DrainInv'
  BY <1>7 DEF AbandonClose, Registered
<1>8. ASSUME NEW q \in Closers, waitAdmissionDrain(q) PROVE DrainInv'
  BY <1>8 DEF waitAdmissionDrain, Registered
<1>9. ASSUME NEW q \in Closers, publishClosed(q) PROVE DrainInv'
  BY <1>9 DEF publishClosed, Registered
<1>10. ASSUME NEW q \in Closers, release(q) PROVE DrainInv'
  BY <1>10 DEF release, Registered
<1>11. CASE Weather \/ UNCHANGED vars
  BY <1>11 DEF Weather, vars, Registered
<1>12. QED
  BY <1>1, <1>2, <1>3, <1>4, <1>5, <1>6, <1>7, <1>8, <1>9, <1>10, <1>11
     DEF Next, OpStep, ProbeStep, CloseStep, Work

(* A step keeps every slot accounted for.                                  *)
LEMMA SlotStep == IInv /\ [Next]_vars => SlotsConserved'
<1> SUFFICES ASSUME IInv, [Next]_vars PROVE SlotsConserved'
  OBVIOUS
<1> USE DEF IInv, TypeOK, SlotsConserved, Goto, gateVars, healthVars
<1>0. /\ Cardinality(Holders) \in Nat /\ Holders \subseteq Work
      /\ Ops \subseteq Work /\ Probers \subseteq Work /\ MaxInFlight \in Nat
  BY Counting, LifecycleAssumption DEF Holders, Work
<1>1. ASSUME NEW o \in Ops, \/ admitOperation(o) \/ StopWaiting(o) \/ CancelWaiting(o)
                            \/ admit(o) /\ slots' = slots
      PROVE  SlotsConserved'
  <2>1. Holders' = Holders
    BY <1>0, <1>1 DEF admitOperation, admit, StopWaiting, CancelWaiting, Holders
  <2>2. slots' = slots
    BY <1>1 DEF admitOperation, StopWaiting, CancelWaiting
  <2>3. QED
    BY <2>1, <2>2
<1>2. ASSUME NEW o \in Ops, WaitForSlot(o) \/ (admit(o) /\ slots' # slots)
      PROVE  SlotsConserved'
  <2>1. o \notin Holders /\ slots' = slots - 1
        /\ \E step \in HolderSteps : pc' = [pc EXCEPT ![o] = step]
    BY <1>2 DEF WaitForSlot, admit, Holders, HolderSteps
  <2>2. Cardinality(Holders') = Cardinality(Holders) + 1
    BY <2>1, HolderTakes
  <2>3. QED
    BY <1>0, <2>1, <2>2
<1>3. ASSUME NEW o \in Ops, refuseAdmission(o) \/ returnSlot(o) PROVE SlotsConserved'
  <2>1. o \in Holders /\ slots' = slots + 1 /\ pc' = [pc EXCEPT ![o] = "idle"]
    BY <1>3 DEF refuseAdmission, returnSlot, Holders
  <2>2. Cardinality(Holders') = Cardinality(Holders) - 1
    BY <2>1, HolderReturns
  <2>3. QED
    BY <1>0, <2>1, <2>2
<1>4. ASSUME NEW o \in Ops, \/ finishAdmission(o) \/ dispatch(o) \/ publishSuccess(o)
                            \/ publishFailure(o) \/ finish(o)
      PROVE  SlotsConserved'
  <2>1. Holders' = Holders
    BY <1>0, <1>4 DEF finishAdmission, dispatch, publishSuccess, publishFailure, finish, Holders
  <2>2. slots' = slots
    BY <1>4 DEF finishAdmission, dispatch, publishSuccess, publishFailure, finish
  <2>3. QED
    BY <2>1, <2>2
<1>5. ASSUME NEW p \in Probers, ProbeStep(p) PROVE SlotsConserved'
  <2>1. p \notin Ops
    BY LifecycleAssumption
  <2>2. slots' = slots /\ \E step \in Steps : pc' = [pc EXCEPT ![p] = step]
    BY <1>5, <2>1 DEF ProbeStep, admitLifecycle, Probe, publishSuccess, publishFailure, finish,
       Steps, WaiterSteps
  <2>3. Holders' = Holders
    BY <1>0, <2>1, <2>2 DEF Holders
  <2>4. QED
    BY <2>2, <2>3
<1>6. ASSUME NEW q \in Closers, beginClose(q) \/ AbandonClose(q) \/ CloseStep(q)
      PROVE  SlotsConserved'
  BY <1>6 DEF beginClose, AbandonClose, CloseStep, waitAdmissionDrain, publishClosed, release,
     Holders
<1>7. CASE Weather \/ UNCHANGED vars
  BY <1>7 DEF Weather, vars, Holders
<1>8. QED
  BY <1>1, <1>2, <1>3, <1>4, <1>5, <1>6, <1>7 DEF Next, OpStep

(* A step keeps the types; the counters stay in range because of the two   *)
(* accounting invariants.                                                  *)
LEMMA TypeStep == IInv /\ [Next]_vars => TypeOK' /\ ProbeSteps'
<1> SUFFICES ASSUME IInv, [Next]_vars PROVE TypeOK' /\ ProbeSteps'
  OBVIOUS
<1> USE LifecycleAssumption DEF IInv, TypeOK, ProbeSteps, Goto, gateVars, healthVars
<1>0. Ops \subseteq Work /\ Probers \subseteq Work /\ Ops \cap Probers = {}
  BY DEF Work
<1>1. ASSUME NEW o \in Ops, \/ admitOperation(o) \/ admit(o) \/ WaitForSlot(o) \/ StopWaiting(o)
                            \/ CancelWaiting(o) \/ finishAdmission(o) \/ dispatch(o)
      PROVE  TypeOK' /\ ProbeSteps'
  <2>1. CASE admitOperation(o) \/ StopWaiting(o) \/ CancelWaiting(o)
    BY <1>0, <2>1 DEF admitOperation, StopWaiting, CancelWaiting, Steps
  <2>2. CASE admit(o)
    BY <1>0, <2>2 DEF admit, Steps, WaiterSteps
  <2>3. CASE WaitForSlot(o)
    BY <1>0, <2>3 DEF WaitForSlot, Steps, WaiterSteps
  <2>4. CASE finishAdmission(o)
    BY <1>0, <2>4 DEF finishAdmission, Steps
  <2>5. CASE dispatch(o)
    BY <1>0, <2>5 DEF dispatch, Steps
  <2>6. QED
    BY <1>1, <2>1, <2>2, <2>3, <2>4, <2>5
<1>2. ASSUME NEW o \in Ops, refuseAdmission(o) \/ returnSlot(o) PROVE TypeOK' /\ ProbeSteps'
  <2>1. o \in Holders
    BY <1>2 DEF refuseAdmission, returnSlot, Holders
  <2>2. Cardinality(Holders) \in Nat /\ Cardinality(Holders) > 0
    BY <1>0, <2>1, Counting DEF Holders
  <2>3. slots + 1 \in 0..MaxInFlight
    BY <2>2 DEF SlotsConserved
  <2>4. QED
    BY <1>0, <1>2, <2>3 DEF refuseAdmission, returnSlot, Steps
<1>3. ASSUME NEW p \in Probers, admitLifecycle(p) \/ Probe(p) PROVE TypeOK' /\ ProbeSteps'
  <2>1. PICK step \in {"running", "leaving", "ok", "transient", "restart"} :
             pc' = [pc EXCEPT ![p] = step]
    BY <1>3 DEF admitLifecycle, Probe
  <2>2. failures' \in 0..Threshold /\ inFlight' \in Nat
    BY <1>3 DEF admitLifecycle, Probe
  <2>3. UNCHANGED <<state, slots, drained, facts, client, cpc, up>>
    BY <1>3 DEF admitLifecycle, Probe
  <2>4. pc' \in [Work -> Steps] /\ ProbeSteps'
    BY <1>0, <2>1 DEF Steps
  <2>5. QED
    BY <2>2, <2>3, <2>4
<1>4. ASSUME NEW w \in Work, publishSuccess(w) \/ publishFailure(w) PROVE TypeOK' /\ ProbeSteps'
  BY <1>0, <1>4 DEF publishSuccess, publishFailure, Steps
<1>5. ASSUME NEW w \in Work, finish(w) PROVE TypeOK' /\ ProbeSteps'
  <2>1. w \in Registered
    BY <1>5 DEF finish, Registered
  <2>2. Cardinality(Registered) \in Nat /\ Cardinality(Registered) > 0
    BY <2>1, Counting DEF Registered
  <2>3. inFlight - 1 \in Nat
    BY <2>2 DEF DrainInv
  <2>4. drained' \in BOOLEAN
    BY <1>5 DEF finish, publishDrained
  <2>5. QED
    BY <1>0, <1>5, <2>3, <2>4 DEF finish, Steps
<1>6. ASSUME NEW q \in Closers, beginClose(q) PROVE TypeOK' /\ ProbeSteps'
  <2>1. drained' \in BOOLEAN
    BY <1>6 DEF beginClose, publishDrained
  <2>2. QED
    BY <1>6, <2>1 DEF beginClose
<1>7. ASSUME NEW q \in Closers, AbandonClose(q) \/ CloseStep(q) PROVE TypeOK' /\ ProbeSteps'
  BY <1>7 DEF AbandonClose, CloseStep, waitAdmissionDrain, publishClosed, release
<1>8. CASE Weather
  <2>1. up' \in BOOLEAN
    BY <1>8 DEF Weather
  <2>2. QED
    BY <1>8, <2>1 DEF Weather
<1>9. CASE UNCHANGED vars
  BY <1>9 DEF vars
<1>10. QED
  BY <1>0, <1>1, <1>2, <1>3, <1>4, <1>5, <1>6, <1>7, <1>8, <1>9
     DEF Next, OpStep, ProbeStep

(* The inductive invariant of the lifecycle.                               *)
LEMMA LifecycleInvariant == Spec => []IInv
<1>1. Init => IInv
  <2> SUFFICES ASSUME Init PROVE IInv
    OBVIOUS
  <2>1. TypeOK
    <3>1. drained \in BOOLEAN /\ up \in BOOLEAN
      BY DEF Init
    <3>2. QED
      BY <3>1, LifecycleAssumption DEF Init, TypeOK, Steps
  <2>2. Registered = {} /\ Holders = {}
    BY DEF Init, Registered, Holders, Work
  <2>3. DrainInv /\ SlotsConserved /\ ProbeSteps
    BY <2>2, FS_EmptySet, LifecycleAssumption DEF Init, DrainInv, SlotsConserved, ProbeSteps, Work
  <2>4. QED
    BY <2>1, <2>3 DEF IInv
<1>2. IInv /\ [Next]_vars => IInv'
  BY DrainStep, SlotStep, TypeStep DEF IInv
<1>3. QED
  BY <1>1, <1>2, PTL DEF Spec

(* LifecycleTypeCorrect: every variable keeps its type; inFlight never     *)
(* goes below zero and the slot channel never overflows (TypeOK).          *)
THEOREM LifecycleTypeCorrect == Spec => []TypeOK
<1>1. IInv => TypeOK
  BY DEF IInv
<1>2. QED
  BY <1>1, LifecycleInvariant, PTL

(* ClientOutlivesWork: no operation and no probe uses the client after     *)
(* Close released it.                                                      *)
THEOREM ClientOutlivesWork == Spec => []NoUseAfterRelease
<1>1. IInv => NoUseAfterRelease
  <2> SUFFICES ASSUME IInv, client = "released", NEW w \in Work, pc[w] = "running" PROVE FALSE
    BY DEF NoUseAfterRelease
  <2>1. w \in Registered
    BY DEF Registered
  <2>2. inFlight > 0
    BY <2>1, Counting DEF Registered, IInv, DrainInv
  <2>3. QED
    BY <2>2 DEF IInv, DrainInv
<1>2. QED
  BY <1>1, LifecycleInvariant, PTL

(* SlotsAreConserved: no slot is lost and none is made.                    *)
THEOREM SlotsAreConserved == Spec => []SlotsConserved
<1>1. IInv => SlotsConserved
  BY DEF IInv
<1>2. QED
  BY <1>1, LifecycleInvariant, PTL

(* CloseHasNoInvariantFailure: after the drain, publishClosed succeeds for *)
(* every closing caller.                                                   *)
THEOREM CloseHasNoInvariantFailure == Spec => []CloseNeverInvariant
<1>1. IInv => CloseNeverInvariant
  BY DEF IInv, DrainInv, CloseNeverInvariant
<1>2. QED
  BY <1>1, LifecycleInvariant, PTL

(* DrainIsNotLost, the safety half of ClosingDrains: while the store       *)
(* closes and the drain is not published, some registered work is left to  *)
(* publish it (finish, publishDrainedLocked).                              *)
THEOREM DrainIsNotLost == Spec => [](state = "closing" /\ ~drained => Registered # {})
<1>1. ASSUME IInv, state = "closing", Registered = {} PROVE drained
  BY <1>1, FS_EmptySet DEF IInv, DrainInv
<1>2. IInv => (state = "closing" /\ ~drained => Registered # {})
  BY <1>1
<1>3. QED
  BY <1>2, LifecycleInvariant, PTL

(* WaitersAreBounded: no more than MaxWaiters operations wait for a slot,  *)
(* counted until finishAdmission has returned (admit).                     *)
THEOREM WaitersAreBounded == Spec => [](Cardinality(Waiters) <= MaxWaiters)
<1> DEFINE Bounded == Cardinality(Waiters) <= MaxWaiters
<1>1. Init => Bounded
  <2> SUFFICES ASSUME Init PROVE Bounded
    OBVIOUS
  <2>1. Waiters = {}
    BY DEF Init, Waiters, Work, WaiterSteps
  <2>2. QED
    BY <2>1, FS_EmptySet, LifecycleAssumption
<1>2. ASSUME IInv, Bounded, [Next]_vars PROVE Bounded'
  <2>0. /\ MaxWaiters \in Nat /\ Waiters \subseteq Work /\ Ops \subseteq Work
        /\ pc \in [Work -> Steps] /\ Cardinality(Waiters) \in Nat
    BY <1>2, LifecycleAssumption, Counting DEF Waiters, Work, IInv, TypeOK
  <2>1. ASSUME Waiters' \subseteq Waiters PROVE Bounded'
    <3>1. IsFiniteSet(Waiters)
      BY <2>0, Counting
    <3>2. IsFiniteSet(Waiters') /\ Cardinality(Waiters') <= Cardinality(Waiters)
      BY <2>1, <3>1, FS_Subset
    <3>3. Cardinality(Waiters') \in Nat
      BY <3>2, FS_CardinalityType
    <3>4. QED
      BY <1>2, <2>0, <3>2, <3>3
  <2>2. ASSUME NEW o \in Ops, admit(o) PROVE Bounded'
    <3>1. CASE pc' = [pc EXCEPT ![o] = "waiting"] /\ Cardinality(Waiters) < MaxWaiters
      <4>1. Waiters' = Waiters \cup {o} /\ o \in Work \ Waiters
        BY <2>0, <2>2, <3>1 DEF Waiters, WaiterSteps, admit
      <4>2. Cardinality(Waiters') = Cardinality(Waiters) + 1
        BY <2>0, <4>1, Counting
      <4>3. QED
        BY <2>0, <3>1, <4>2
    <3>2. CASE pc' = [pc EXCEPT ![o] = "idle"] \/ pc' = [pc EXCEPT ![o] = "slotted"]
      BY <2>0, <2>1, <3>2 DEF Waiters, WaiterSteps
    <3>3. QED
      BY <2>2, <3>1, <3>2 DEF admit, Goto
  <2>3. ASSUME NEW o \in Ops, WaitForSlot(o) PROVE Bounded'
    BY <2>0, <2>1, <2>3 DEF WaitForSlot, Goto, Waiters, WaiterSteps
  <2>4. ASSUME NEW w \in Work, NEW step \in Steps \ WaiterSteps, pc' = [pc EXCEPT ![w] = step]
        PROVE  Bounded'
    BY <2>0, <2>1, <2>4 DEF Waiters
  <2>5. ASSUME NEW w \in Work,
               \/ admitOperation(w) \/ CancelWaiting(w) \/ StopWaiting(w) \/ finishAdmission(w)
               \/ refuseAdmission(w) \/ dispatch(w) \/ publishSuccess(w) \/ publishFailure(w)
               \/ finish(w) \/ returnSlot(w) \/ admitLifecycle(w) \/ Probe(w)
        PROVE  Bounded'
    <3>1. \E step \in Steps \ WaiterSteps : pc' = [pc EXCEPT ![w] = step]
      BY <2>5 DEF admitOperation, CancelWaiting, StopWaiting, finishAdmission, refuseAdmission,
         dispatch, publishSuccess, publishFailure, finish, returnSlot, admitLifecycle, Probe, Goto,
         Steps, WaiterSteps
    <3>2. QED
      BY <2>4, <3>1
  <2>6. ASSUME pc' = pc PROVE Bounded'
    BY <2>1, <2>6 DEF Waiters
  <2>7. ASSUME NEW q \in Closers, beginClose(q) \/ AbandonClose(q) \/ CloseStep(q)
        PROVE  pc' = pc
    BY <2>7 DEF beginClose, AbandonClose, CloseStep, waitAdmissionDrain, publishClosed, release
  <2>8. CASE Weather \/ UNCHANGED vars
    BY <2>6, <2>8 DEF Weather, vars
  <2>9. QED
    BY <1>2, <2>2, <2>3, <2>5, <2>6, <2>7, <2>8 DEF Next, OpStep, ProbeStep, Work
<1>3. QED
  BY <1>1, <1>2, LifecycleInvariant, PTL DEF Spec
=============================================================================
