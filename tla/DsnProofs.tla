------------------------------ MODULE DsnProofs ------------------------------
(***************************************************************************)
(* Proofs about the DSN propagator: the transactions of all its copies     *)
(* (DsnPropagation: any number of copies and connections, any lease and    *)
(* token life, any number of failures) and one of its attempts             *)
(* (ReinjectSession: any time-outs and any listener).                      *)
(***************************************************************************)
EXTENDS DsnPropagation, ReinjectSession, FiniteSetTheorems, TLAPS

(***************************************************************************)
(* Part 1: what an acknowledgement and a commit imply.                     *)
(***************************************************************************)
(* Every commit request follows an accepted re-injection.                  *)
CommitAfterSend ==
    \A s \in Slots : pc[s] = "commit" \/ dreq[s] = "commit" => injected > 0

(* Whatever says "committed" speaks of a commit that took effect.          *)
CommitIsSettled == /\ rec = "committed" => settled
                   /\ \A s \in Slots : resp[s] \in {"committed", "replayed"} => settled

(* An eligible notification is answered 250 only for a settled coordinate. *)
EligibleReplies ==
    kind = "eligible" =>
        \A s \in Slots : /\ resp[s] \notin {"discard", "reject"}
                         /\ rep[s] = "250" => settled

SafetyInv == /\ TypeOK
             /\ CommitAfterSend
             /\ SettledMeansInjected
             /\ CommitIsSettled
             /\ EligibleReplies
             /\ AckedMeansSettled

(* How many handlers wait for a commit is a natural number.                *)
LEMMA SlotCount == Cardinality({s \in Slots : pc[s] = "commit"}) \in Nat
<1>1. IsFiniteSet({s \in Slots : pc[s] = "commit"})
  BY FS_Subset, PropagationAssumption
<1>2. QED
  BY <1>1, FS_CardinalityType

(* Every step of the notification, its retries and its failures keeps the  *)
(* safety invariant.                                                       *)
LEMMA SafetyStep == SafetyInv /\ [Next]_vars => SafetyInv'
<1> SUFFICES ASSUME SafetyInv, [Next]_vars PROVE SafetyInv'
  OBVIOUS
<1> USE PropagationAssumption DEF SafetyInv, TypeOK, CommitAfterSend, SettledMeansInjected, CommitIsSettled, EligibleReplies, AckedMeansSettled, Kinds, Answers
<1>1. CASE \E c \in Copies, s \in Slots : Deliver(c, s)
  BY <1>1 DEF Deliver, storeVars
<1>2. CASE \E c \in Copies : MTATimeout(c)
  BY <1>2 DEF MTATimeout, Fault, Requeue, storeVars
<1>3. CASE \E s \in Slots : Classify(s)
  BY <1>3 DEF Classify, Fault, Respond, mtaVars, storeVars
<1>4. CASE \E s \in Slots : reserveAndSign(s)
  BY <1>4 DEF reserveAndSign, Reserve, Available, Fault, Respond, mtaVars, storeVars
<1>5. CASE \E s \in Slots : rebuildAndSign(s)
  BY <1>5 DEF rebuildAndSign, Fault, Respond, mtaVars, storeVars
<1>6. CASE \E s \in Slots : CommitPropagation(s)
  <2>1. PICK s \in Slots : CommitPropagation(s)
    BY <1>6
  <2>2. injected > 0
    BY <2>1 DEF CommitPropagation
  <2>3. CASE Settle
    <3>1. settled' = TRUE
      BY <2>3 DEF Settle
    <3>2. TypeOK'
      <4>1. UNCHANGED <<kind, queue, at, pc, rep, life, injected, excuses>>
        BY <2>1 DEF CommitPropagation, mtaVars
      <4>2. dreq' \in [Slots -> {"none", "propagate", "granted", "commit"}]
            /\ resp' \in [Slots -> Answers]
        BY <2>1 DEF CommitPropagation, Respond
      <4>3. faults' \in 0..MaxFaults
        BY <2>1 DEF CommitPropagation, Fault
      <4>4. rec' = "committed" /\ left' \in 0..Lease /\ holder' = holder /\ settled' \in BOOLEAN
        BY <2>3, <3>1 DEF Settle
      <4>5. QED
        BY <4>1, <4>2, <4>3, <4>4
    <3>3. CommitAfterSend' /\ SettledMeansInjected'
      BY <2>1, <2>2, <2>3 DEF CommitPropagation, Respond, mtaVars
    <3>4. CommitIsSettled' /\ AckedMeansSettled'
      BY <3>1
    <3>5. EligibleReplies'
      BY <2>1, <2>3, <3>1 DEF CommitPropagation, Respond, mtaVars
    <3>6. QED
      BY <3>2, <3>3, <3>4, <3>5
  <2>4. CASE ~Settle
    BY <2>1, <2>4 DEF CommitPropagation, Fault, Respond, mtaVars, storeVars
  <2>5. QED
    BY <2>3, <2>4
<1>7. CASE \E s \in Slots : Handle(s)
  BY <1>7 DEF Handle, Answer, rejectReply, mtaVars, daemonVars, storeVars
<1>8. CASE \E s \in Slots : SendAccepted(s)
  BY <1>8 DEF SendAccepted, mtaVars, storeVars
<1>9. CASE \E s \in Slots : ReadCommit(s)
  BY <1>9 DEF ReadCommit, Answer, Excuse, mtaVars, daemonVars, storeVars
<1>10. CASE \E s \in Slots : Reply(s)
  BY <1>10 DEF Reply, Server, daemonVars, storeVars
<1>11. CASE \E s \in Slots : SendFailed(s)
  BY <1>11 DEF SendFailed, Answer, Excuse, Fault, mtaVars, storeVars
<1>12. CASE \E s \in Slots : RequestTimeout(s)
  BY <1>12 DEF RequestTimeout, Answer, Excuse, Fault, mtaVars, daemonVars, storeVars
<1>13. CASE \E s \in Slots : EvictToken(s)
  BY <1>13 DEF EvictToken, Fault, mtaVars, storeVars
<1>14. CASE AdapterCrash
  BY SlotCount, <1>14 DEF AdapterCrash, Excuse, Fault, daemonVars, storeVars
<1>15. CASE DaemonRestart
  BY <1>15 DEF DaemonRestart, Excuse, Fault, mtaVars, storeVars
<1>16. CASE Forget
  BY <1>16 DEF Forget, Excuse, Fault, mtaVars
<1>17. CASE Tick
  BY <1>17 DEF Tick, Dec, Excuse, Fault, mtaVars
<1>18. CASE UNCHANGED vars
  BY <1>18 DEF vars
<1>19. QED
  BY <1>1, <1>2, <1>3, <1>4, <1>5, <1>6, <1>7, <1>8, <1>9, <1>10, <1>11, <1>12, <1>13, <1>14, <1>15, <1>16, <1>17, <1>18 DEF Next, DaemonStep, AdapterStep

(* The safety invariant holds at all times.                                *)
LEMMA SafetyHolds == Spec => []SafetyInv
<1>1. Init => SafetyInv
  <2> SUFFICES ASSUME Init PROVE SafetyInv
    OBVIOUS
  <2>1. TypeOK
    <3>1. settled \in BOOLEAN
      BY DEF Init
    <3>2. QED
      BY <3>1, PropagationAssumption DEF Init, TypeOK, Kinds, Answers
  <2>2. ~settled
    BY DEF Init
  <2>3. CommitAfterSend /\ CommitIsSettled /\ EligibleReplies
    BY DEF Init, CommitAfterSend, CommitIsSettled, EligibleReplies
  <2>4. SettledMeansInjected
    BY <2>2 DEF SettledMeansInjected
  <2>5. AckedMeansSettled
    BY DEF Init, AckedMeansSettled
  <2>6. QED
    BY <2>1, <2>3, <2>4, <2>5 DEF SafetyInv
<1>2. QED
  BY <1>1, SafetyStep, PTL DEF Spec

(* DsnTypeCorrect: every variable of the end-to-end protocol keeps its     *)
(* type (TypeOK).                                                          *)
THEOREM DsnTypeCorrect == Spec => []TypeOK
<1>1. SafetyInv => TypeOK
  BY DEF SafetyInv
<1>2. QED
  BY <1>1, SafetyHolds, PTL

(* CommitFollowsInjection: a coordinate is committed only after the        *)
(* re-injection listener accepted a propagated notification.               *)
THEOREM CommitFollowsInjection == Spec => []SettledMeansInjected
<1>1. SafetyInv => SettledMeansInjected
  BY DEF SafetyInv
<1>2. QED
  BY <1>1, SafetyHolds, PTL

(* AcknowledgementFollowsCommit: the MTA is told 250 for an eligible       *)
(* notification only once a commit of its coordinate has taken effect.     *)
THEOREM AcknowledgementFollowsCommit == Spec => []AckedMeansSettled
<1>1. SafetyInv => AckedMeansSettled
  BY DEF SafetyInv
<1>2. QED
  BY <1>1, SafetyHolds, PTL

(***************************************************************************)
(* Part 2: accounting for re-injections.                                   *)
(***************************************************************************)
(* A handler whose request took the record and has yet to re-inject.       *)
Act(s) == \/ dreq[s] = "granted"
          \/ pc[s] = "propagate" /\ resp[s] = "accept"
          \/ pc[s] = "send"

Active == {s \in Slots : Act(s)}

(* How the adapter's step, the daemon's request and the answer between     *)
(* them fit together on one connection.                                    *)
SlotInv ==
    \A s \in Slots :
        /\ dreq[s] \in {"propagate", "granted"} => pc[s] \notin {"send", "commit"}
        /\ dreq[s] = "commit" => pc[s] \notin {"send", "propagate"}
        /\ resp[s] # "none" => dreq[s] = "none" /\ pc[s] \in {"propagate", "commit"}
        /\ resp[s] = "accept" => pc[s] = "propagate"
        /\ resp[s] = "committed" => rec = "committed" \/ holder # s

Covered == rec = "committed" \/ (rec = "pending" /\ left > 0 /\ InProgress)

Debt == injected + Cardinality(Active)

(* Re-injections done and still to come are excused, but for one; and for  *)
(* none when a new reservation is possible or will become possible free of *)
(* charge.                                                                 *)
Account == /\ Debt <= 1 + excuses
           /\ ~Covered => Debt <= excuses
(* A step keeps the three views of a connection consistent.                *)
LEMMA SlotStep == TypeOK /\ SlotInv /\ [Next]_vars => SlotInv'
<1> SUFFICES ASSUME TypeOK, SlotInv, [Next]_vars PROVE SlotInv'
  OBVIOUS
<1> USE PropagationAssumption DEF TypeOK, SlotInv
<1>1. CASE \E c \in Copies, s \in Slots : Deliver(c, s)
  BY <1>1 DEF Deliver, storeVars
<1>2. CASE \E c \in Copies : MTATimeout(c)
  BY <1>2 DEF MTATimeout, storeVars
<1>3. CASE \E s \in Slots : Classify(s)
  BY <1>3 DEF Classify, Kinds, Respond, storeVars
<1>4. CASE \E s \in Slots : reserveAndSign(s)
  BY <1>4 DEF reserveAndSign, Reserve, Available, Respond, storeVars
<1>5. CASE \E s \in Slots : rebuildAndSign(s)
  BY <1>5 DEF rebuildAndSign, Respond, storeVars
<1>6. CASE \E s \in Slots : CommitPropagation(s)
  BY <1>6 DEF CommitPropagation, Settle, Respond, storeVars
<1>7. CASE \E s \in Slots : Handle(s)
  BY <1>7 DEF Handle, Answer, daemonVars, storeVars
<1>8. CASE \E s \in Slots : SendAccepted(s)
  BY <1>8 DEF SendAccepted, storeVars
<1>9. CASE \E s \in Slots : ReadCommit(s)
  BY <1>9 DEF ReadCommit, Answer, daemonVars, storeVars
<1>10. CASE \E s \in Slots : Reply(s)
  BY <1>10 DEF Reply, daemonVars, storeVars
<1>11. CASE \E s \in Slots : SendFailed(s)
  BY <1>11 DEF SendFailed, Answer, storeVars
<1>12. CASE \E s \in Slots : RequestTimeout(s)
  BY <1>12 DEF RequestTimeout, Answer, daemonVars, storeVars
<1>13. CASE \E s \in Slots : EvictToken(s)
  BY <1>13 DEF EvictToken, storeVars
<1>14. CASE AdapterCrash
  BY <1>14 DEF AdapterCrash, daemonVars, storeVars
<1>15. CASE DaemonRestart
  BY <1>15 DEF DaemonRestart, storeVars
<1>16. CASE Forget
  BY <1>16 DEF Forget
<1>17. CASE Tick
  BY <1>17 DEF Tick
<1>18. CASE UNCHANGED vars
  BY <1>18 DEF vars
<1>19. QED
  BY <1>1, <1>2, <1>3, <1>4, <1>5, <1>6, <1>7, <1>8, <1>9, <1>10, <1>11, <1>12, <1>13, <1>14, <1>15, <1>16, <1>17, <1>18 DEF Next, DaemonStep, AdapterStep

(* Sets of connections are finite and counted by natural numbers; a subset *)
(* has no more elements, and one less for each element it misses.          *)
LEMMA SlotSets ==
    ASSUME NEW S \in SUBSET Slots
    PROVE  IsFiniteSet(S) /\ Cardinality(S) \in Nat
BY PropagationAssumption, FS_Subset, FS_CardinalityType

LEMMA CountShrinks ==
    ASSUME NEW S \in SUBSET Slots, NEW T \in SUBSET S
    PROVE  /\ Cardinality(T) \in Nat
           /\ Cardinality(T) <= Cardinality(S)
BY SlotSets, FS_Subset, FS_CardinalityType

LEMMA CountDrops ==
    ASSUME NEW S \in SUBSET Slots, NEW s \in S, NEW T \in SUBSET (S \ {s})
    PROVE  Cardinality(T) + 1 <= Cardinality(S)
<1>1. IsFiniteSet(S) /\ Cardinality(S) \in Nat
  BY SlotSets
<1>2. IsFiniteSet(S \ {s}) /\ Cardinality(S \ {s}) = Cardinality(S) - 1
  BY <1>1, FS_RemoveElement
<1>3. Cardinality(T) \in Nat /\ Cardinality(T) <= Cardinality(S \ {s})
  BY CountShrinks
<1>4. QED
  BY <1>1, <1>2, <1>3

LEMMA CountGrows ==
    ASSUME NEW S \in SUBSET Slots, NEW s \in Slots, NEW T \in SUBSET (S \cup {s})
    PROVE  Cardinality(T) <= Cardinality(S) + 1
<1>1. IsFiniteSet(S) /\ Cardinality(S) \in Nat
  BY SlotSets
<1>2. IsFiniteSet(S \cup {s}) /\ Cardinality(S \cup {s}) <= Cardinality(S) + 1
  BY <1>1, FS_AddElement
<1>3. Cardinality(T) \in Nat /\ Cardinality(T) <= Cardinality(S \cup {s})
  BY CountShrinks
<1>4. Cardinality(S \cup {s}) \in Nat
  BY SlotSets
<1>5. QED
  BY <1>1, <1>2, <1>3, <1>4

(* Steps that start no attempt and uncover nothing keep the account.       *)
LEMMA QuietStep ==
    ASSUME TypeOK, TypeOK', Account,
           Active' \subseteq Active, injected' = injected, excuses' >= excuses,
           Covered => Covered' \/ excuses' >= excuses + 1
    PROVE  Account'
<1>1. Active \in SUBSET Slots /\ Active' \in SUBSET Active
  BY DEF Active
<1>2. Cardinality(Active') \in Nat /\ Cardinality(Active) \in Nat
      /\ Cardinality(Active') <= Cardinality(Active)
  BY <1>1, SlotSets, CountShrinks
<1>3. /\ injected \in Nat /\ excuses \in Nat /\ excuses' \in Nat
      /\ Covered \in BOOLEAN /\ Covered' \in BOOLEAN
  BY DEF TypeOK, Covered
<1>4. QED
  BY <1>2, <1>3 DEF Account, Debt

(* The arithmetic of the next lemma: a, b count active handlers, i, j      *)
(* re-injections and e, f excuses before and after the step.               *)
LEMMA EndArithmetic ==
    ASSUME NEW a \in Nat, NEW b \in Nat, NEW i \in Nat, NEW j \in Nat,
           NEW e \in Nat, NEW f \in Nat, b + 1 <= a, i + a <= 1 + e
    PROVE  /\ j + e <= i + f => j + b <= f
           /\ j = i + 1 /\ f = e => j + b <= i + a
OBVIOUS

(* So does the end of an attempt, if what it re-injected is excused or     *)
(* leaves the record covered.                                              *)
LEMMA EndStep ==
    ASSUME TypeOK, TypeOK', Account,
           NEW s \in Active, Active' \subseteq Active \ {s},
           \/ injected' + excuses <= injected + excuses'
           \/ injected' = injected + 1 /\ excuses' = excuses /\ (Covered => Covered')
    PROVE  Account'
<1>1. Active \in SUBSET Slots /\ Active' \in SUBSET (Active \ {s}) /\ Active' \in SUBSET Slots
  BY DEF Active
<1>2. Cardinality(Active') \in Nat /\ Cardinality(Active) \in Nat
      /\ Cardinality(Active') + 1 <= Cardinality(Active)
  BY <1>1, SlotSets, CountDrops
<1>3. /\ injected \in Nat /\ excuses \in Nat /\ injected' \in Nat /\ excuses' \in Nat
      /\ Covered \in BOOLEAN /\ Covered' \in BOOLEAN
  BY DEF TypeOK, Covered
<1>4. injected + Cardinality(Active) <= 1 + excuses
  BY DEF Account, Debt
<1>5. /\ injected' + excuses <= injected + excuses'
             => injected' + Cardinality(Active') <= excuses'
      /\ injected' = injected + 1 /\ excuses' = excuses
             => injected' + Cardinality(Active') <= injected + Cardinality(Active)
  BY <1>2, <1>3, <1>4, EndArithmetic
<1>6. CASE injected' + excuses <= injected + excuses'
  <2>1. Debt' <= excuses' /\ Debt' <= 1 + excuses'
    BY <1>2, <1>3, <1>5, <1>6 DEF Debt
  <2>2. QED
    BY <2>1 DEF Account
<1>7. CASE injected' = injected + 1 /\ excuses' = excuses /\ (Covered => Covered')
  <2>1. Debt' <= Debt /\ Debt' \in Nat /\ Debt \in Nat
    BY <1>2, <1>3, <1>5, <1>7 DEF Debt
  <2>2. Debt' <= 1 + excuses'
    BY <1>3, <1>4, <1>7, <2>1 DEF Debt
  <2>3. ASSUME ~Covered' PROVE Debt' <= excuses'
    <3>1. Debt <= excuses
      BY <1>7, <2>3 DEF Account
    <3>2. QED
      BY <1>3, <1>7, <2>1, <3>1 DEF Debt
  <2>4. QED
    BY <2>2, <2>3 DEF Account
<1>8. QED
  BY <1>6, <1>7

(* A step keeps the account.  Most steps leave the set of active handlers  *)
(* and the cover of the record alone (QuietStep), or end one attempt       *)
(* (EndStep); only a reservation starts one.                               *)
LEMMA AccountStep ==
    TypeOK /\ TypeOK' /\ SlotInv /\ Account /\ [Next]_vars => Account'
<1> SUFFICES ASSUME TypeOK, TypeOK', SlotInv, Account, [Next]_vars PROVE Account'
  OBVIOUS
<1> USE PropagationAssumption DEF SlotInv, Active, Act, Covered, InProgress
<1>1. ASSUME NEW c \in Copies, NEW s \in Slots, Deliver(c, s) PROVE Account'
  BY <1>1, QuietStep DEF Deliver, storeVars, TypeOK
<1>2. ASSUME NEW c \in Copies, MTATimeout(c) PROVE Account'
  BY <1>2, QuietStep DEF MTATimeout, storeVars, TypeOK
<1>3. ASSUME NEW s \in Slots, Classify(s) PROVE Account'
  BY <1>3, QuietStep DEF Classify, Respond, storeVars, TypeOK
<1>4. ASSUME NEW s \in Slots, reserveAndSign(s) PROVE Account'
  <2>1. CASE ~Reserve(s)
    BY <1>4, <2>1, QuietStep DEF reserveAndSign, Respond, storeVars, TypeOK
  <2>2. CASE Reserve(s) /\ dreq' = [dreq EXCEPT ![s] = "granted"]
    <3>1. Active \in SUBSET Slots /\ Active' \in SUBSET (Active \cup {s})
      BY <1>4, <2>2 DEF reserveAndSign, Respond, TypeOK
    <3>2. Covered'
      BY <1>4, <2>2 DEF reserveAndSign, Reserve, TypeOK
    <3>3. ~Covered /\ injected' = injected /\ excuses' = excuses
      BY <1>4, <2>2 DEF reserveAndSign, Reserve, Available
    <3>4. /\ Cardinality(Active) \in Nat /\ Cardinality(Active') \in Nat
          /\ Cardinality(Active') <= Cardinality(Active) + 1
      BY <3>1, SlotSets, CountGrows
    <3>5. injected \in Nat /\ excuses \in Nat
      BY DEF TypeOK
    <3>6. injected + Cardinality(Active) <= excuses
      BY <3>3 DEF Account, Debt
    <3>7. QED
      BY <3>2, <3>3, <3>4, <3>5, <3>6 DEF Account, Debt
  <2>3. CASE Reserve(s) /\ Respond(s, "tempfail")
    BY <1>4, <2>3, QuietStep DEF reserveAndSign, Reserve, Available, Respond, TypeOK
  <2>4. QED
    BY <1>4, <2>1, <2>2, <2>3 DEF reserveAndSign, Reserve, Available
<1>5. ASSUME NEW s \in Slots, rebuildAndSign(s) PROVE Account'
  <2>1. CASE Respond(s, "accept") /\ pc[s] = "propagate"
    <3>1. /\ dreq' = [dreq EXCEPT ![s] = "none"] /\ resp' = [resp EXCEPT ![s] = "accept"]
          /\ UNCHANGED <<pc, rec, left, holder, injected, excuses>>
      BY <1>5, <2>1 DEF rebuildAndSign, Respond, storeVars
    <3>2. Active' \subseteq Active
      BY <1>5, <2>1, <3>1 DEF rebuildAndSign, TypeOK
    <3>3. Covered => Covered'
      BY <1>5, <2>1, <3>1 DEF rebuildAndSign, TypeOK
    <3>4. injected' = injected /\ excuses' >= excuses
      BY <3>1 DEF TypeOK
    <3>5. QED
      BY <3>2, <3>3, <3>4, QuietStep
  <2>2. CASE ~(Respond(s, "accept") /\ pc[s] = "propagate")
    <3>1. s \in Active /\ Active' \subseteq Active \ {s}
      BY <1>5, <2>2 DEF rebuildAndSign, Respond, storeVars, TypeOK
    <3>2. injected' = injected /\ excuses' = excuses /\ injected \in Nat /\ excuses \in Nat
      BY <1>5 DEF rebuildAndSign, TypeOK
    <3>3. QED
      BY <3>1, <3>2, EndStep
  <2>3. QED
    BY <2>1, <2>2
<1>6. ASSUME NEW s \in Slots, CommitPropagation(s) PROVE Account'
  BY <1>6, QuietStep DEF CommitPropagation, Settle, Respond, storeVars, TypeOK
<1>7. ASSUME NEW s \in Slots, Handle(s) PROVE Account'
  BY <1>7, QuietStep DEF Handle, Answer, daemonVars, storeVars, TypeOK
<1>8. ASSUME NEW s \in Slots, SendAccepted(s) PROVE Account'
  BY <1>8, EndStep DEF SendAccepted, storeVars, TypeOK
<1>9. ASSUME NEW s \in Slots, ReadCommit(s) PROVE Account'
  BY <1>9, QuietStep DEF ReadCommit, Answer, Excuse, daemonVars, storeVars, TypeOK
<1>10. ASSUME NEW s \in Slots, Reply(s) PROVE Account'
  BY <1>10, QuietStep DEF Reply, daemonVars, storeVars, TypeOK
<1>11. ASSUME NEW s \in Slots, SendFailed(s) PROVE Account'
  <2>1. s \in Active /\ Active' \subseteq Active \ {s}
    BY <1>11 DEF SendFailed, Answer, storeVars, TypeOK
  <2>2. injected' + excuses <= injected + excuses'
    <3>1. injected \in Nat /\ excuses \in Nat
      BY DEF TypeOK
    <3>2. \/ injected' = injected /\ excuses' = excuses
          \/ injected' = injected + 1 /\ excuses' = excuses + 1
      BY <1>11 DEF SendFailed, Excuse
    <3>3. QED
      BY <3>1, <3>2
  <2>3. QED
    BY <2>1, <2>2, EndStep
<1>12. ASSUME NEW s \in Slots, RequestTimeout(s) PROVE Account'
  <2>1. CASE resp[s] = "accept"
    BY <1>12, <2>1, EndStep DEF RequestTimeout, Answer, Excuse, daemonVars, storeVars, TypeOK
  <2>2. CASE resp[s] # "accept"
    BY <1>12, <2>2, QuietStep DEF RequestTimeout, Answer, Excuse, daemonVars, storeVars, TypeOK
  <2>3. QED
    BY <2>1, <2>2
<1>13. ASSUME NEW s \in Slots, EvictToken(s) PROVE Account'
  BY <1>13, QuietStep DEF EvictToken, storeVars, TypeOK
<1>14. CASE AdapterCrash
  <2> DEFINE W == {s \in Slots : pc[s] = "commit"}
  <2>1. excuses' = excuses + Cardinality(W) /\ Cardinality(W) \in Nat
    BY <1>14, SlotSets DEF AdapterCrash, Excuse
  <2>2. Active' \subseteq Active /\ injected' = injected
    BY <1>14 DEF AdapterCrash, daemonVars, TypeOK
  <2>3. CASE holder \in Slots /\ pc[holder] = "commit"
    <3>1. Cardinality({}) + 1 <= Cardinality(W)
      BY <2>3, CountDrops
    <3>2. excuses' >= excuses + 1
      BY <2>1, <3>1, FS_EmptySet DEF TypeOK
    <3>3. QED
      BY <2>1, <2>2, <3>2, QuietStep DEF TypeOK
  <2>4. CASE holder \in Active /\ dreq[holder] # "granted"
    BY <1>14, <2>1, <2>2, <2>4, EndStep DEF AdapterCrash, daemonVars, TypeOK
  <2>5. CASE /\ ~(holder \in Slots /\ pc[holder] = "commit")
             /\ ~(holder \in Active /\ dreq[holder] # "granted")
    BY <1>14, <2>1, <2>2, <2>5, QuietStep DEF AdapterCrash, daemonVars, storeVars, TypeOK
  <2>6. QED
    BY <2>3, <2>4, <2>5
<1>15. CASE DaemonRestart
  <2>1. Active' \subseteq Active /\ injected' = injected
    BY <1>15 DEF DaemonRestart, TypeOK
  <2>2. CASE ~Persistent
    BY <1>15, <2>1, <2>2, QuietStep DEF DaemonRestart, Excuse, TypeOK
  <2>3. CASE Persistent /\ holder \in Slots /\ dreq[holder] = "granted"
    BY <1>15, <2>1, <2>3, EndStep DEF DaemonRestart, TypeOK
  <2>4. CASE Persistent /\ ~(holder \in Slots /\ dreq[holder] = "granted")
    BY <1>15, <2>1, <2>4, QuietStep DEF DaemonRestart, storeVars, TypeOK
  <2>5. QED
    BY <2>2, <2>3, <2>4
<1>16. CASE Forget
  BY <1>16, QuietStep DEF Forget, Excuse, TypeOK
<1>17. CASE Tick
  BY <1>17, QuietStep DEF Tick, Dec, Excuse, TypeOK
<1>18. CASE UNCHANGED vars
  BY <1>18, QuietStep DEF vars, TypeOK
<1>19. QED
  BY <1>1, <1>2, <1>3, <1>4, <1>5, <1>6, <1>7, <1>8, <1>9, <1>10, <1>11, <1>12, <1>13,
     <1>14, <1>15, <1>16, <1>17, <1>18 DEF Next, DaemonStep, AdapterStep

(* ReinjectionsAreExcused: with any number of copies, connections and      *)
(* failures, every re-injection but one is paid for by a failure the code  *)
(* cannot see through or a lease that ended too early; concurrent and      *)
(* repeated deliveries alone never propagate a notification twice.         *)
THEOREM ReinjectionsAreExcused == Spec => []DuplicatesAreExcused
<1> DEFINE IInv == TypeOK /\ SlotInv /\ Account
<1>1. Init => IInv
  <2> SUFFICES ASSUME Init PROVE SlotInv /\ Account /\ TypeOK
    OBVIOUS
  <2>1. SlotInv
    BY DEF Init, SlotInv
  <2>2. Active = {}
    BY DEF Init, Active, Act
  <2>3. Debt = 0 /\ excuses = 0
    BY <2>2, FS_EmptySet DEF Init, Debt
  <2>4. Account
    BY <2>3 DEF Account
  <2>5. TypeOK
    <3>1. settled \in BOOLEAN
      BY DEF Init
    <3>2. QED
      BY <3>1, PropagationAssumption DEF Init, TypeOK, Kinds, Answers
  <2>6. QED
    BY <2>1, <2>4, <2>5
<1>2. IInv => DuplicatesAreExcused
  <2> SUFFICES ASSUME TypeOK, Account PROVE injected <= 1 + excuses
    BY DEF DuplicatesAreExcused
  <2>1. Cardinality(Active) \in Nat
    BY SlotSets DEF Active
  <2>2. QED
    BY <2>1 DEF TypeOK, Account, Debt
<1>3. TypeOK /\ TypeOK' /\ SlotInv /\ Account /\ [Next]_vars => SlotInv' /\ Account'
  BY SlotStep, AccountStep
<1>4. QED
  BY <1>1, <1>2, <1>3, DsnTypeCorrect, PTL DEF Spec

(***************************************************************************)
(* Part 3: one attempt.  Client and listener move in lockstep: the         *)
(* listener owes at most one reply, and only while the client is about to  *)
(* read it (Lockstep).  So the reply read at "final" is the answer to the  *)
(* message, and tells whether the listener took it (Told); what a failure  *)
(* leaves behind is ambiguous only there (Left).  Spent adds up the        *)
(* deadlines.                                                              *)
(***************************************************************************)
\* Positions of Script that matter: the message, its reply, and the end.
Body  == 12
Final == 13
End   == 17
Writes == {4, 6, 8, 10, Body, 14}
Reads  == {3, 5, 7, 9, 11, Final, 15}

\* The deadlines of the steps before each position, added up.
Start == Request + Connect
Sent  == Start + 9 * Command + Data
Spent == << 0, Request, Start, Start + Command, Start + 2 * Command, Start + 3 * Command,
            Start + 4 * Command, Start + 5 * Command, Start + 6 * Command, Start + 7 * Command,
            Start + 8 * Command, Start + 9 * Command, Sent, Sent + Data,
            Sent + Data + Command, Sent + Data + 2 * Command,
            Sent + Data + 2 * Command + Commit >>

Types == /\ pos \in 1..End /\ elapsed \in Nat
         /\ link \in {"none", "up", "down", "closed"}
         /\ todo \in {"none", "connection", "EHLO", "MAIL", "RCPT", "DATA", "body", "QUIT"}
         /\ reply \in {"none"} \cup Codes
         /\ accepted \in BOOLEAN

\* run goes on until it fails or Commit has been called.
Course == /\ pos < End => outcome = "none" /\ failedAt = "none"
          /\ pos = End => outcome # "none" /\ (failedAt = "none" <=> outcome = "accepted")
          /\ pos < 3 => link = "none" /\ todo = "none" /\ reply = "none"
          /\ pos \in 3..16 => link \in {"up", "down"}

\* The listener owes one reply at most, and none when the client writes.
Lockstep == /\ todo # "none" => reply = "none"
            /\ link = "down" => todo = "none"
            /\ pos \in Writes => todo = "none" /\ reply \in {"none", "4xx"}
            /\ pos \in Writes /\ link = "up" => reply = "none"

\* What the reply to the message tells, and what is known before and after it.
Told == /\ pos <= Body => ~accepted /\ todo # "body"
        /\ pos = Final => /\ todo \in {"none", "body"}
                          /\ todo = "body" => ~accepted
                          /\ reply \in {"expected", "other"} => accepted
                          /\ accepted => reply \in {"expected", "other"} \/
                                         (link = "down" /\ reply = "none")
        /\ pos \in 14..16 => accepted /\ todo # "body"

\* What a finished attempt leaves behind.
Left == pos = End => /\ failedAt = "none" => accepted
                     /\ accepted \/ todo = "body" =>
                           failedAt = "none" \/ (failedAt = "final" /\ outcome = "failed")

Timely == elapsed <= Spent[pos]

AttemptInv == Types /\ Course /\ Lockstep /\ Told /\ Left /\ Timely

-----------------------------------------------------------------------------
(***************************************************************************)
(* The script.                                                             *)
(***************************************************************************)
\* run has 16 steps between the reservation and the end of the commit.
LEMMA ScriptLength == Len(Script) = 16
BY DEF Script, Requesting, Envelope, Quitting, Committing

\* What the code does at each position.
LEMMA ScriptKinds ==
    ASSUME NEW i \in 1..16
    PROVE  /\ Script[i].kind = "write" <=> i \in Writes
           /\ Script[i].kind = "read" <=> i \in Reads
           /\ Script[i].kind = "dial" <=> i = 2
           /\ Script[i].name = "request" <=> i = 1
           /\ Script[i].name = "commit" <=> i = 16
           /\ Script[i].name = "body" <=> i = Body
           /\ Script[i].name = "final" <=> i = Final
           /\ Script[i].name \in {"QUIT", "bye"} <=> i \in {14, 15}
           /\ i \in Writes => Script[i].name \in {"EHLO", "MAIL", "RCPT", "DATA", "body", "QUIT"}
           /\ Script[i].name # "none"
BY DEF Script, Requesting, Envelope, Quitting, Committing, Step, Writes, Reads, Body, Final

\* The time-outs are natural numbers.
LEMMA Durations == {Request, Connect, Command, Data, Commit} \subseteq Nat
BY BudgetAssumption

\* A step takes no longer than its deadline, and the sum is never exceeded.
LEMMA SpentAddsUp ==
    /\ Spent[1] = 0
    /\ \A i \in 1..16 : /\ Script[i].bound \in Nat
                        /\ Spent[i] + Script[i].bound = Spent[i + 1]
                        /\ Spent[i] + Script[i].bound <= Spent[End]
    /\ \A i \in 1..End : Spent[i] \in Nat
    /\ Spent[End] = Request + Connect + 11 * Command + 2 * Data + Commit
<1> USE Durations
<1>1. /\ Script[1].bound = Request /\ Script[2].bound = Connect /\ Script[16].bound = Commit
      /\ Script[12].bound = Data /\ Script[13].bound = Data
      /\ \A i \in (3..11) \cup {14, 15} : Script[i].bound = Command
  BY DEF Script, Requesting, Envelope, Quitting, Committing, Step
<1>2. \A i \in 1..End : Spent[i] \in Nat
  BY DEF Spent, Start, Sent, End
<1>3. \A i \in 1..16 : Script[i].bound \in Nat
  BY <1>1
<1>4. ASSUME NEW i \in 1..16 PROVE Spent[i] + Script[i].bound = Spent[i + 1]
  <2>1. CASE i \in {1, 2, 12, 13, 16}
    BY <1>1, <2>1 DEF Spent, Start, Sent
  <2>2. CASE i \in 3..7
    BY <1>1, <2>2 DEF Spent, Start, Sent
  <2>3. CASE i \in {8, 9, 10, 11, 14, 15}
    BY <1>1, <2>3 DEF Spent, Start, Sent
  <2>4. QED
    BY <2>1, <2>2, <2>3
<1>5. \A i \in 1..End : Spent[i] <= Spent[End]
  BY DEF Spent, Start, Sent, End
<1>6. Spent[1] = 0 /\ Spent[End] = Request + Connect + 11 * Command + 2 * Data + Commit
  BY DEF Spent, Start, Sent, End
<1>7. QED
  BY <1>2, <1>3, <1>4, <1>5, <1>6 DEF End

-----------------------------------------------------------------------------
(***************************************************************************)
(* The steps.                                                              *)
(***************************************************************************)
\* Where the adapter is, in terms of positions.
LEMMA Placed ==
    ASSUME Types, Running
    PROVE  /\ pos \in 1..16
           /\ Now.kind = "write" <=> pos \in Writes
           /\ Now.kind = "read" <=> pos \in Reads
           /\ Now.kind = "dial" <=> pos = 2
           /\ Now.name = "request" <=> pos = 1
           /\ Now.name = "commit" <=> pos = 16
           /\ Now.name = "body" <=> pos = Body
           /\ Now.name = "final" <=> pos = Final
           /\ Polite <=> pos \in {14, 15}
           /\ pos \in Writes => Now.name \in {"EHLO", "MAIL", "RCPT", "DATA", "body", "QUIT"}
           /\ Now.name # "none"
<1>1. pos \in 1..16
  BY ScriptLength DEF Types, Running
<1>2. QED
  BY <1>1, ScriptKinds DEF Now, Polite

\* A step that proceeds stays within the sum of the deadlines, and so does one that
\* ends the attempt.
LEMMA StepTimely ==
    ASSUME AttemptInv, Running, NEW d \in 0..Now.bound, Takes(d),
           pos' = pos + 1 \/ pos' = End
    PROVE  Timely' /\ elapsed' \in Nat
<1>1. pos \in 1..16
  BY Placed DEF AttemptInv
<1>2. /\ Script[pos].bound \in Nat /\ Spent[pos] \in Nat /\ Spent[End] \in Nat
      /\ Spent[pos] + Script[pos].bound = Spent[pos + 1]
      /\ Spent[pos] + Script[pos].bound <= Spent[End]
  BY <1>1, SpentAddsUp DEF End
<1>3. elapsed \in Nat /\ d \in Nat /\ d <= Script[pos].bound /\ elapsed <= Spent[pos]
  BY <1>2 DEF AttemptInv, Types, Timely, Now
<1>4. elapsed' = elapsed + d
  BY DEF Takes
<1>5. elapsed' <= Spent[pos']
  BY <1>2, <1>3, <1>4
<1>6. QED
  BY <1>3, <1>4, <1>5 DEF Timely

\* The daemon has answered: nothing has been said to the listener.
LEMMA AnsweredIInv ==
    ASSUME AttemptInv, Answered
    PROVE  AttemptInv'
<1>1. Running
  BY DEF Answered
<1>2. pos' = pos + 1 \/ pos' = End
  BY ScriptLength DEF Answered, Proceed
<1>3. PICK d \in 0..Now.bound : Takes(d)
  BY DEF Answered
<1>4. Timely' /\ elapsed' \in Nat
  BY <1>1, <1>2, <1>3, StepTimely
<1> USE <1>1, Placed, ScriptLength DEF Proceed
<1>5. Types'
  BY <1>4 DEF AttemptInv, Types, Answered, End
<1>6. Course'
  BY DEF AttemptInv, Course, Answered, End
<1>7. Lockstep'
  BY DEF AttemptInv, Course, Lockstep, Answered
<1>8. Told'
  BY DEF AttemptInv, Course, Told, Answered, Body
<1>9. Left'
  BY DEF AttemptInv, Left, Answered, End
<1>10. QED
  BY <1>4, <1>5, <1>6, <1>7, <1>8, <1>9 DEF AttemptInv

\* The connection is made, or the attempt ends.
LEMMA DialIInv ==
    ASSUME AttemptInv, Dial
    PROVE  AttemptInv'
<1>1. Running
  BY DEF Dial
<1>2. pos' = pos + 1 \/ pos' = End
  BY ScriptLength DEF Dial, Proceed, Fail, End
<1>3. PICK d \in 0..Now.bound : Takes(d)
  BY DEF Dial
<1>4. Timely' /\ elapsed' \in Nat
  BY <1>1, <1>2, <1>3, StepTimely
<1> USE <1>1, Placed, ScriptLength DEF Proceed
<1>5. Types'
  BY <1>4 DEF AttemptInv, Types, Dial, Fail, End
<1>6. Course'
  BY DEF AttemptInv, Course, Dial, Fail, End
<1>7. Lockstep'
  BY DEF AttemptInv, Course, Lockstep, Dial, Body, Writes
<1>8. Told'
  BY DEF AttemptInv, Told, Dial, Fail, Body, Final
<1>9. Left'
  BY DEF AttemptInv, Told, Left, Dial, Fail, Body, End
<1>10. QED
  BY <1>4, <1>5, <1>6, <1>7, <1>8, <1>9 DEF AttemptInv

\* A write leaves one reply owed; a failed one nothing.
LEMMA WriteIInv ==
    ASSUME AttemptInv, Write
    PROVE  AttemptInv'
<1>1. Running
  BY DEF Write
<1>2. pos' = pos + 1 \/ pos' = End
  BY ScriptLength DEF Write, Proceed, Fail, End
<1>3. PICK d \in 0..Now.bound : Takes(d)
  BY DEF Write
<1>4. Timely' /\ elapsed' \in Nat
  BY <1>1, <1>2, <1>3, StepTimely
<1> USE <1>1, Placed, ScriptLength DEF Proceed
<1>5. Types'
  BY <1>4 DEF AttemptInv, Types, Write, Fail, End
<1>6. Course'
  BY DEF AttemptInv, Course, Write, Fail, End
<1>7. Lockstep'
  BY DEF AttemptInv, Lockstep, Write, Fail, Body, Writes
<1>8. Told'
  BY DEF AttemptInv, Lockstep, Told, Write, Fail, Body, Final
<1>9. Left'
  BY DEF AttemptInv, Told, Left, Write, Fail, Body, Final, End
<1>10. QED
  BY <1>4, <1>5, <1>6, <1>7, <1>8, <1>9 DEF AttemptInv

\* A reply is consumed; the one to the message proves what it says.
LEMMA ReadReplyIInv ==
    ASSUME AttemptInv, ReadReply
    PROVE  AttemptInv'
<1>1. Running
  BY DEF ReadReply
<1>2. pos' = pos + 1 \/ pos' = End
  BY ScriptLength DEF ReadReply, Proceed, Fail, End
<1>3. PICK d \in 0..Now.bound : Takes(d)
  BY DEF ReadReply
<1>4. Timely' /\ elapsed' \in Nat
  BY <1>1, <1>2, <1>3, StepTimely
<1> USE <1>1, Placed, ScriptLength DEF Proceed
<1>5. Types'
  BY <1>4 DEF AttemptInv, Types, ReadReply, Fail, End
<1>6. Course'
  BY DEF AttemptInv, Course, ReadReply, Fail, Judge, helloCheck, classifyReply, End, Reads
<1>7. Lockstep'
  BY DEF AttemptInv, Lockstep, ReadReply
<1>8. Told'
  BY DEF AttemptInv, Lockstep, Told, ReadReply, Fail, Judge, classifyReply, Body, Final
<1>9. Left'
  BY DEF AttemptInv, Lockstep, Told, Left, ReadReply, Fail, Judge, classifyReply, Body, End, Reads
<1>10. QED
  BY <1>4, <1>5, <1>6, <1>7, <1>8, <1>9 DEF AttemptInv

\* A failed read is ambiguous only for the reply to the message.
LEMMA ReadFailsIInv ==
    ASSUME AttemptInv, ReadFails
    PROVE  AttemptInv'
<1>1. Running
  BY DEF ReadFails
<1>2. pos' = pos + 1 \/ pos' = End
  BY ScriptLength DEF ReadFails, Proceed, Fail, End
<1>3. PICK d \in 0..Now.bound : Takes(d)
  <2>1. Now.bound \in 0..Now.bound
    BY <1>1, Placed, SpentAddsUp DEF AttemptInv, Now
  <2>2. QED
    BY <2>1 DEF ReadFails
<1>4. Timely' /\ elapsed' \in Nat
  BY <1>1, <1>2, <1>3, StepTimely
<1> USE <1>1, Placed, ScriptLength DEF Proceed
<1>5. Types'
  BY <1>4 DEF AttemptInv, Types, ReadFails, Fail, End
<1>6. Course'
  BY DEF AttemptInv, Course, ReadFails, Fail, End
<1>7. Lockstep'
  BY DEF AttemptInv, Lockstep, ReadFails, Fail, Body, Writes
<1>8. Told'
  BY DEF AttemptInv, Told, ReadFails, Fail, Body, Final
<1>9. Left'
  BY DEF AttemptInv, Course, Told, Left, ReadFails, Fail, Body, Reads
<1>10. QED
  BY <1>4, <1>5, <1>6, <1>7, <1>8, <1>9 DEF AttemptInv

\* Commit is called with the message taken.
LEMMA CommitCallIInv ==
    ASSUME AttemptInv, CommitCall
    PROVE  AttemptInv'
<1>1. Running
  BY DEF CommitCall
<1>2. pos' = pos + 1 \/ pos' = End
  BY ScriptLength DEF CommitCall, Proceed
<1>3. PICK d \in 0..Now.bound : Takes(d)
  BY DEF CommitCall
<1>4. Timely' /\ elapsed' \in Nat
  BY <1>1, <1>2, <1>3, StepTimely
<1> USE <1>1, Placed, ScriptLength DEF Proceed
<1>5. Types'
  BY <1>4 DEF AttemptInv, Types, CommitCall, End
<1>6. Course'
  BY DEF AttemptInv, Course, CommitCall, End
<1>7. Lockstep'
  BY DEF AttemptInv, Lockstep, CommitCall, Body, Writes
<1>8. Told'
  BY DEF AttemptInv, Told, CommitCall, Body, Final
<1>9. Left'
  BY DEF AttemptInv, Course, Told, Left, CommitCall
<1>10. QED
  BY <1>4, <1>5, <1>6, <1>7, <1>8, <1>9 DEF AttemptInv

\* The listener takes the message only when it answers it.
LEMMA ListenerAnswersIInv ==
    ASSUME AttemptInv, ListenerAnswers
    PROVE  AttemptInv'
<1>1. Types'
  BY DEF AttemptInv, Types, ListenerAnswers, Body, Final, Writes, Reads
<1>2. Course'
  BY DEF AttemptInv, Course, ListenerAnswers, Body, Final, Writes, Reads
<1>3. Lockstep'
  BY DEF AttemptInv, Lockstep, ListenerAnswers
<1>4. Told'
  <2>1. CASE todo = "body" /\ pos # Final
    BY <2>1 DEF AttemptInv, Told, ListenerAnswers
  <2>2. CASE todo = "body" /\ pos = Final
    <3>1. link = "up" /\ ~accepted
      BY <2>2 DEF AttemptInv, Course, Told, Final, ListenerAnswers
    <3>2. PICK code \in Codes : reply' = code /\ (accepted' <=> code \in {"expected", "other"})
      BY <2>2, <3>1 DEF ListenerAnswers
    <3>3. pos' = Final /\ todo' = "none"
      BY <2>2 DEF ListenerAnswers
    <3>4. QED
      BY <3>2, <3>3 DEF Told, Body, Final
  <2>3. CASE todo # "body" /\ pos # Final
    BY <2>3 DEF AttemptInv, Told, ListenerAnswers
  <2>4. CASE todo # "body" /\ pos = Final
    BY <2>4 DEF AttemptInv, Told, ListenerAnswers
  <2>5. QED
    BY <2>1, <2>2, <2>3, <2>4
<1>5. Left'
  BY DEF AttemptInv, Left, ListenerAnswers
<1>6. Timely'
  BY DEF AttemptInv, Timely, ListenerAnswers, Body, Final, End, Writes, Reads
<1>7. QED
  BY <1>1, <1>2, <1>3, <1>4, <1>5, <1>6 DEF AttemptInv

\* A listener that leaves has said 4xx only if it had said nothing.
LEMMA ListenerLeavesIInv ==
    ASSUME AttemptInv, ListenerLeaves
    PROVE  AttemptInv'
<1>1. Types'
  BY DEF AttemptInv, Types, ListenerLeaves, Codes, Body, Final, Writes, Reads
<1>2. Course'
  BY DEF AttemptInv, Course, ListenerLeaves, Body, Final, Writes, Reads
<1>3. Lockstep'
  BY DEF AttemptInv, Lockstep, ListenerLeaves
<1>4. Told'
  BY DEF AttemptInv, Told, ListenerLeaves
<1>5. Left'
  BY DEF AttemptInv, Left, ListenerLeaves
<1>6. Timely'
  BY DEF AttemptInv, Timely, ListenerLeaves, Codes, Body, Final, End, Writes, Reads
<1>7. QED
  BY <1>1, <1>2, <1>3, <1>4, <1>5, <1>6 DEF AttemptInv

-----------------------------------------------------------------------------
(***************************************************************************)
(* Theorems.                                                               *)
(***************************************************************************)
\* An attempt, whatever its time-outs and its listener, keeps the invariant.
THEOREM Invariance == ReinjectSpec => []AttemptInv
<1>1. ReinjectInit => AttemptInv
  <2>1. ReinjectInit => Types
    <3>1. ReinjectInit => accepted \in BOOLEAN
      BY DEF ReinjectInit
    <3>2. ReinjectInit => pos \in 1..17 /\ elapsed \in Nat
      BY DEF ReinjectInit
    <3>3. ReinjectInit => /\ link \in {"none", "up", "down", "closed"} /\ reply \in {"none"} \cup Codes
                  /\ todo \in {"none", "connection", "EHLO", "MAIL", "RCPT", "DATA", "body", "QUIT"}
      BY DEF ReinjectInit
    <3>4. QED
      BY <3>1, <3>2, <3>3 DEF Types, End
  <2>2. ReinjectInit => Course
    BY DEF ReinjectInit, Course, End
  <2>3. ReinjectInit => Lockstep /\ Left
    BY DEF ReinjectInit, Lockstep, Left, End
  <2>4. ReinjectInit => Told
    BY DEF ReinjectInit, Told
  <2>5. ReinjectInit => Timely
    BY SpentAddsUp DEF ReinjectInit, Timely
  <2>6. QED
    BY <2>1, <2>2, <2>3, <2>4, <2>5 DEF AttemptInv
<1>2. AttemptInv /\ UNCHANGED reinjectVars => AttemptInv'
  BY DEF AttemptInv, Types, Course, Lockstep, Told, Left, Timely, reinjectVars
<1>3. AttemptInv /\ [ReinjectNext]_reinjectVars => AttemptInv'
  BY <1>2, AnsweredIInv, DialIInv, WriteIInv, ReadReplyIInv, ReadFailsIInv, CommitCallIInv,
     ListenerAnswersIInv, ListenerLeavesIInv DEF ReinjectNext, Adapter
<1>4. QED
  BY <1>1, <1>3, PTL DEF ReinjectSpec

\* propagate calls Commit only for a notification the listener has taken, although the
\* listener may hang up, answer late or answer QUIT badly.
THEOREM CommitsOnlyAcceptedHolds == ReinjectSpec => []CommitsOnlyAccepted
<1>1. AttemptInv => CommitsOnlyAccepted
  <2> SUFFICES ASSUME AttemptInv, outcome = "accepted" \/ (Running /\ Now.name = "commit")
               PROVE  accepted
    BY DEF CommitsOnlyAccepted
  <2>1. CASE outcome = "accepted"
    BY <2>1 DEF AttemptInv, Types, Course, Left, End
  <2>2. CASE Running /\ Now.name = "commit"
    BY <2>2, Placed DEF AttemptInv, Told
  <2>3. QED
    BY <2>1, <2>2
<1>2. QED
  BY <1>1, Invariance, PTL

\* A failed Send whose notification the listener took after all failed at the final reply
\* and was not told 4xx: every other failure means nothing was sent (reinject.Send).
THEOREM OnlyFinalIsAmbiguousHolds == ReinjectSpec => []OnlyFinalIsAmbiguous
<1>1. AttemptInv => OnlyFinalIsAmbiguous
  BY DEF AttemptInv, Types, Course, Left, End, OnlyFinalIsAmbiguous
<1>2. QED
  BY <1>1, Invariance, PTL

\* An attempt takes no longer than its deadlines add up to: 11 command deadlines and 2 data
\* deadlines, where config.TransactionBudget counts one of each.
THEOREM AttemptBoundedHolds == ReinjectSpec => []AttemptBounded
<1>1. AttemptInv => AttemptBounded
  <2> SUFFICES ASSUME AttemptInv PROVE elapsed <= Spent[End]
    BY SpentAddsUp DEF AttemptBounded
  <2>1. Spent[pos] \in Nat /\ Spent[End] \in Nat /\ Spent[pos] <= Spent[End]
    BY SpentAddsUp, Durations DEF AttemptInv, Types, End
  <2>2. QED
    BY <2>1 DEF AttemptInv, Types, Timely
<1>2. QED
  BY <1>1, Invariance, PTL
=============================================================================
