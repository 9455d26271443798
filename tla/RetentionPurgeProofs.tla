------------------------- MODULE RetentionPurgeProofs -------------------------
(***************************************************************************)
(* Proofs about rotation campaigns and the purge composed with them.       *)
(*                                                                         *)
(* The argument has two layers.  Control says, journal by journal, what    *)
(* the step of a process implies about its durable journal; it does not    *)
(* look at generations.  Ratchet says how far a step may change a journal. *)
(* The second layer relates generations, receipts, terminal records and    *)
(* the purge plan to the journals, and is preserved because journals only  *)
(* move as Ratchet says and because only four steps change the backend's   *)
(* rows or the pointer: Stage, Activate, RecordClosed/Abort (records) and  *)
(* PurgeGeneration.                                                        *)
(***************************************************************************)
EXTENDS RetentionPurge, FiniteSetTheorems, WellFoundedInduction, TLAPS

allVars == <<vars, purgeVars>>

(***************************************************************************)
(* The inductive invariant.                                                *)
(***************************************************************************)
Row == [op : Operations \cup {Earlier}, source : Nat, content : Nat, wasActive : BOOLEAN]
Journal == [state : States, op : Operations \cup {None}, source : Nat, candidate : Nat,
            digest : Nat, batches : 0..Batches]

(* The operations that can be drawn for one journal.                       *)
Own(j) == {j} \X (1..MaxRuns)

(* States in which the candidate is fixed, and those after its staging was *)
(* recorded.                                                               *)
Sealed    == States \ {"absent", "planned", "preparing"}
Published == Resumable \cup {"activated", "aborted"}

Bounded == \E b \in Nat : \A g \in DOMAIN gens : g <= b
Types ==
    /\ journal \in [Journals -> Journal] /\ step \in [Journals -> Steps]
    /\ aged \subseteq Journals /\ lock \in Operations \cup {None}
    /\ terminal \in [Operations -> {None, "closed", "aborted"}]
    /\ runs \in [Journals -> 0..MaxRuns] /\ made \in Nat /\ faults \in 0..MaxFaults
GenTypes ==
    /\ DOMAIN gens \subseteq Nat \ {0} /\ gens \in [DOMAIN gens -> Row]
    /\ Bounded /\ current \in DOMAIN gens /\ receipts \subseteq [gen : Nat, row : Row]

(* What a durable journal says by itself, after m key generations.         *)
WellFormed(j, n, m) ==
    /\ n.state = "absent" <=> n = NoJournal
    /\ n.state # "absent" => n.op \in Own(j) /\ n.source <= current /\ n.source < n.candidate
    /\ n.state \in {"activating", "activated"} => n.batches = Batches
    /\ n.state \in Sealed => n.digest \in 1..m
JournalOK(j) == WellFormed(j, journal[j], made)

(* What the step s of the process that holds the journal adds.             *)
Fits(s, state) ==
    /\ s = "plan" => state = "absent"
    /\ s = "prepare" => state \in {"planned", "preparing"}
    /\ s \in {"stage", "inspect", "save_staged"} => state = "prepared"
    /\ s \in {"prove", "save_aborted"} => state \in Abortable
    /\ s \in {"verify", "reconcile"} => state \in Resumable
    /\ s \in {"activate", "close", "save_activated"} => state = "activating"
StepOK(j) == Fits(step[j], journal[j].state) /\ (step[j] = "plan" => runs[j] > 0)

Distinct == \A i, j \in Journals : i # j /\ {journal[i].state, journal[j].state} \subseteq Sealed
                => journal[i].digest # journal[j].digest

Control == Types /\ GenTypes /\ (\A j \in Journals : JournalOK(j) /\ StepOK(j)) /\ Distinct

(* Generations and receipts against journals: every row is an earlier      *)
(* campaign's, or one journal's own, as that journal describes it.         *)
Describes(j, r) ==
    /\ journal[j].state \in Sealed /\ journal[j].op = r.row.op /\ journal[j].candidate = r.gen
    /\ journal[j].source = r.row.source /\ journal[j].digest = r.row.content
RowsDescribed == \A r \in Rows : r.row.op = Earlier \/ \E j \in Journals : Describes(j, r)
CurrentWasActive == gens[current].wasActive

(* A campaign on its way keeps its row until the pointer is past it.       *)
OnItsWay(j) == journal[j].state \in Resumable \/ step[j] \in {"inspect", "save_staged"}
KeptOrPassed == \A j \in Journals : OnItsWay(j) /\ terminal[journal[j].op] = None =>
    \/ /\ journal[j].candidate \in DOMAIN gens
       /\ gens[journal[j].candidate].op = journal[j].op
    \/ journal[j].candidate < current

(* The journal's claims, and those of the steps about to save them.        *)
HasRow(j) == \E r \in Rows : /\ r.gen = journal[j].candidate /\ r.row.op = journal[j].op
                             /\ r.row.content = journal[j].digest
Truthful ==
    /\ \A j \in Journals : journal[j].state \in Published \/ step[j] \in {"inspect", "save_staged"}
          => HasRow(j)
    /\ \A j \in Journals : journal[j].state = "activated" \/ step[j] = "save_activated"
          => terminal[journal[j].op] = "closed"
    /\ \A o \in Operations : terminal[o] = "closed" =>
          \E r \in Rows : r.row.op = o /\ r.row.wasActive

(* What a purge plan still guarantees about its targets when it is used,   *)
(* however old it is.                                                      *)
Settled(row) == \E j \in Journals :
    /\ journal[j].state \in Sealed /\ journal[j].op = row.op /\ journal[j].digest = row.content
    /\ terminal[row.op] # None
TargetOK(g) ==
    /\ g \in DOMAIN plan.inventory /\ g \in Nat
    /\ IF plan.inventory[g].row.wasActive
       THEN plan.current = current => g \in markRetainedNewest(Before, MinRollback)
       ELSE Settled(plan.inventory[g].row)
PlanSound == /\ plan.current \in Nat /\ plan.current <= current
             /\ pending \subseteq plan.targets /\ \A g \in plan.targets : TargetOK(g)

RetainedKept == Before \ markRetainedNewest(Before, MinRollback) \subseteq DOMAIN gens

Lineage == OneLineage /\ CurrentWasActive
IInv == /\ Control /\ RowsDescribed /\ Lineage /\ AnnouncedBeforeMoved /\ Truthful
        /\ KeptOrPassed /\ PlanSound /\ RetainedKept

(* How far a step may change a durable journal.                            *)
MayBecome(j, n) ==
    /\ journal[j].state \in Sealed =>
          /\ n.state \in Sealed /\ n.op = journal[j].op /\ n.source = journal[j].source
          /\ n.candidate = journal[j].candidate /\ n.digest = journal[j].digest
    /\ journal[j].state \in Announced => n.state \in Announced /\ n.batches = journal[j].batches
    /\ n.state \in Published => journal[j].state \in Published \/ step[j] = "save_staged"
    /\ n.state \in Resumable => journal[j].state \in Resumable \/ step[j] = "save_staged"
    /\ n.state = "activated" => journal[j].state = "activated" \/ step[j] = "save_activated"
Ratchet == \A j \in Journals : MayBecome(j, journal'[j])
Ratchets == [][Ratchet]_allVars

(* What a step may do to the rows and the pointer, and to the records.     *)
StagedBy(j) == /\ journal[j].state = "prepared" /\ MayStage(j) /\ gens' = Staged(j)
               /\ UNCHANGED <<journal, current, receipts, terminal>>
MovedBy(j)  == /\ journal[j].state = "activating" /\ Fenced(j) /\ Moved(j)
               /\ UNCHANGED <<journal, receipts, terminal>>
Deleted(g)  == /\ g \in pending /\ Deletable(g) /\ Delete(g)
               /\ UNCHANGED <<journal, step, current, terminal, plan>>
RowsMove == \/ UNCHANGED <<gens, current, receipts>>
            \/ \E j \in Journals : StagedBy(j) \/ MovedBy(j)
            \/ \E g \in Nat : Deleted(g)
RecordsMove == \A o \in Operations :
    /\ terminal[o] # None => terminal'[o] = terminal[o]
    /\ terminal'[o] = "closed" /\ terminal[o] # "closed" =>
          gens[current].op = o /\ UNCHANGED <<gens, current, receipts>>
StepsMove == \A j \in Journals :
    /\ step'[j] \in {"inspect", "save_staged"} =>
          step[j] \in {"inspect", "save_staged"} \/ StagedBy(j)
    /\ step'[j] = "save_activated" => journal'[j].op = journal[j].op
          /\ (step[j] = "save_activated" \/ terminal'[journal[j].op] = "closed")

(***************************************************************************)
(* Least and greatest elements: what the CHOOSEs of AllocateGeneration and *)
(* PurgeGeneration pick.                                                   *)
(***************************************************************************)
(* A set of natural numbers that is not empty has a least element.         *)
LEMMA HasLeast ==
    ASSUME NEW T \in SUBSET Nat, T # {}
    PROVE  \E x \in T : \A y \in T : x <= y
<1>1. \E x \in T : \A y \in T : ~(<<y, x>> \in OpToRel(<, Nat))
  BY NatLessThanWellFounded, WFMin
<1>2. PICK x \in T : \A y \in T : ~(<<y, x>> \in OpToRel(<, Nat))
  BY <1>1
<1>3. ASSUME NEW y \in T PROVE x <= y
  <2>1. x \in Nat /\ y \in Nat
    OBVIOUS
  <2>2. ~(y < x)
    BY <1>2, <2>1 DEF OpToRel
  <2> QED
    BY <2>1, <2>2
<1> QED
  BY <1>3

(* One that is bounded has a greatest.                                     *)
LEMMA HasGreatest ==
    ASSUME NEW T \in SUBSET Nat, T # {}, NEW b \in Nat, \A x \in T : x <= b
    PROVE  \E x \in T : \A y \in T : y <= x
<1> DEFINE U == {u \in Nat : \A x \in T : x <= u}
<1>1. b \in U
  OBVIOUS
<1>2. PICK u \in U : \A v \in U : u <= v
  BY <1>1, HasLeast
<1>3. u \in Nat /\ \A x \in T : x \in Nat /\ x <= u
  BY <1>2
<1>4. u \in T
  <2>0. PICK t \in T : TRUE
    OBVIOUS
  <2> SUFFICES ASSUME u \notin T PROVE FALSE
    OBVIOUS
  <2>1. \A x \in T : x <= u - 1
    BY <1>3
  <2>2. u - 1 \in Nat
    BY <1>3, <2>0, <2>1
  <2>3. u - 1 \in U
    BY <2>1, <2>2
  <2> QED
    BY <1>2, <1>3, <2>3
<1> QED
  BY <1>3, <1>4

(* AllocateGeneration is above every generation there is.                  *)
LEMMA AllocatedAbove ==
    ASSUME GenTypes
    PROVE  AllocateGeneration \in Nat /\ \A g \in DOMAIN gens : g < AllocateGeneration
<1> DEFINE m == CHOOSE g \in DOMAIN gens : \A h \in DOMAIN gens : h <= g
<1>1. PICK b \in Nat : \A g \in DOMAIN gens : g <= b
  BY DEF GenTypes, Bounded
<1>2. DOMAIN gens \in SUBSET Nat /\ DOMAIN gens # {}
  BY DEF GenTypes
<1>3. \E g \in DOMAIN gens : \A h \in DOMAIN gens : h <= g
  BY <1>1, <1>2, HasGreatest
<1>4. m \in DOMAIN gens /\ \A h \in DOMAIN gens : h <= m
  BY <1>3
<1>5. AllocateGeneration = 1 + m
  BY DEF AllocateGeneration
<1> HIDE DEF m
<1> QED
  BY <1>2, <1>4, <1>5

(* A process past planning works for the operation in its journal.         *)
LEMMA OpOfJournal ==
    ASSUME NEW j \in Journals, JournalOK(j), journal[j].state # "absent"
    PROVE  Op(j) = journal[j].op /\ journal[j].op \in Own(j) /\ journal[j].op \in Operations
BY DEF JournalOK, WellFormed, Op, Own, Operations

(***************************************************************************)
(* Control is inductive.                                                   *)
(***************************************************************************)
(* A step of one journal's process.                                        *)
LEMMA LocalStep ==
    ASSUME NEW j \in Journals, NEW n \in Journal, NEW s \in Steps, Control,
           journal' = [journal EXCEPT ![j] = n], step' = [step EXCEPT ![j] = s],
           Types', GenTypes', current <= current', made <= made',
           \A i \in Journals : i # j => runs'[i] = runs[i],
           JournalOK(j)', StepOK(j)',
           n.state \in Sealed => \/ journal[j].state \in Sealed /\ n.digest = journal[j].digest
                                 \/ n.digest > made
    PROVE  Control'
<1>1. current \in Nat /\ current' \in Nat
  BY DEF Control, GenTypes
<1>2. \A i \in Journals : i # j => journal'[i] = journal[i] /\ step'[i] = step[i]
  BY DEF Control, Types
<1>3. \A i \in Journals : JournalOK(i)' /\ StepOK(i)'
  <2> SUFFICES ASSUME NEW i \in Journals, i # j PROVE JournalOK(i)' /\ StepOK(i)'
    OBVIOUS
  <2>1. JournalOK(i) /\ StepOK(i) /\ made \in Nat /\ made' \in Nat /\ journal[i] \in Journal
    BY DEF Control, Types
  <2>2. JournalOK(i)'
    BY <1>1, <1>2, <2>1 DEF JournalOK, WellFormed, Journal, Own
  <2>3. StepOK(i)'
    BY <1>2, <2>1 DEF StepOK
  <2> QED
    BY <2>2, <2>3
<1>4. Distinct'
  <2>1. journal'[j] = n /\ journal \in [Journals -> Journal] /\ made \in Nat
    BY DEF Control, Types
  <2>2. \A i \in Journals : journal[i].state \in Sealed =>
           journal[i].digest \in Nat /\ journal[i].digest <= made
    BY DEF Control, JournalOK, WellFormed, Types, Journal
  <2>3. n.digest \in Nat
    BY DEF Journal
  <2> QED
    BY <1>2, <2>1, <2>2, <2>3 DEF Distinct, Control
<1> QED
  BY <1>3, <1>4 DEF Control

(* One that leaves the journals alone.                                     *)
LEMMA QuietStep ==
    ASSUME NEW j \in Journals, NEW s \in Steps, Control,
           journal' = journal, step' = [step EXCEPT ![j] = s], Fits(s, journal[j].state),
           s = "plan" => runs[j] > 0, Types', GenTypes', current <= current',
           UNCHANGED <<made, runs>>
    PROVE  Control' /\ Ratchet
<1>1. journal[j] \in Journal /\ journal' = [journal EXCEPT ![j] = journal[j]] /\ step'[j] = s
      /\ made \in Nat /\ current \in Nat /\ current' \in Nat
  BY DEF Control, Types, GenTypes
<1>2. JournalOK(j)' /\ StepOK(j)'
  BY <1>1 DEF Control, JournalOK, WellFormed, StepOK, Fits, Own, Journal
<1>3. made <= made'
      /\ \A i \in Journals : i # j => runs'[i] = runs[i]
  BY <1>1
<1>4. Control'
  BY <1>1, <1>2, <1>3, LocalStep
<1>5. Ratchet
  BY DEF Ratchet, MayBecome
<1> QED
  BY <1>4, <1>5

(* One that saves the journal n and goes on to s, when that succeeds.      *)
LEMMA SaveStep ==
    ASSUME NEW j \in Journals, NEW n \in Journal, NEW s \in Steps, Control,
           Save(j, n, s), UNCHANGED <<aged, backend, runs>>, made' \in Nat, made <= made',
           n.state # "absent", WellFormed(j, n, made'), Fits(s, n.state), s # "plan",
           MayBecome(j, n),
           n.state \in Sealed => journal[j].state \in Sealed \/ n.digest > made
    PROVE  Control' /\ Ratchet
<1>1. /\ journal \in [Journals -> Journal] /\ step \in [Journals -> Steps] /\ made \in Nat
      /\ journal[j] \in Journal /\ journal = [journal EXCEPT ![j] = journal[j]]
  BY DEF Control, Types
<1>2. faults' \in 0..MaxFaults
  BY RotationAssumption DEF Control, Types, Save, Fault
<1>3. PICK m \in {journal[j], n} : journal' = [journal EXCEPT ![j] = m]
  BY <1>1 DEF Save
<1>4. PICK t \in {s, "release"} : step' = [step EXCEPT ![j] = t] /\ (t = s => m = n \/ s = "release")
  BY <1>1, <1>3 DEF Save, Go
<1>5. journal'[j] = m /\ step'[j] = t /\ m \in Journal /\ t \in Steps
  BY <1>1, <1>3, <1>4 DEF Steps
<1>6. Types'
  BY <1>1, <1>2, <1>3, <1>4, <1>5 DEF Control, Types, backend
<1>7. WellFormed(j, m, made')
  BY <1>1 DEF Control, JournalOK, WellFormed, Journal
<1>8. JournalOK(j)'
  BY <1>5, <1>7 DEF JournalOK, WellFormed, backend, Own
<1>9. StepOK(j)'
  BY <1>4, <1>5 DEF StepOK, Fits
<1>10. m.state \in Sealed => \/ journal[j].state \in Sealed /\ m.digest = journal[j].digest
                             \/ m.digest > made
  BY DEF MayBecome
<1>11. GenTypes' /\ current <= current'
  BY DEF Control, GenTypes, Bounded, backend
<1>12. \A i \in Journals : i # j => runs'[i] = runs[i]
  OBVIOUS
<1>13. Control'
  BY <1>3, <1>4, <1>5, <1>6, <1>8, <1>9, <1>10, <1>11, <1>12, LocalStep
<1>14. Ratchet
  <2>1. \A i \in Journals : i # j => journal'[i] = journal[i]
    BY <1>1, <1>3
  <2> QED
    BY <1>5, <2>1 DEF Ratchet, MayBecome
<1> QED
  BY <1>13, <1>14

(* Control is an invariant of the campaigns' actions, and each of them     *)
(* changes a journal only as Ratchet says.  One lemma per action.          *)
LEMMA RunControl ==
    ASSUME Control, NEW j \in Journals, Run(j)
    PROVE  Control' /\ Ratchet
<1> DEFINE o == <<j, runs[j] + 1>>
<1>1. /\ journal' = journal /\ journal = [journal EXCEPT ![j] = journal[j]]
      /\ journal[j] \in Journal /\ journal[j].state = "absent" /\ JournalOK(j)
      /\ made \in Nat /\ current \in Nat
      /\ runs[j] \in 0..MaxRuns /\ runs[j] + 1 \in 1..MaxRuns /\ o \in Operations
  BY RotationAssumption DEF Control, Types, GenTypes, Run, Claim, NoJournal, Operations
<1>2. PICK s \in {"plan", step[j]} : step' = [step EXCEPT ![j] = s]
  BY DEF Run, Claim, Go, Control, Types
<1>3. s \in Steps /\ Fits(s, "absent") /\ step'[j] = s
  BY <1>1, <1>2 DEF Control, Types, Fits, StepOK, Steps, Run
<1>4. Types'
  BY <1>1, <1>2, <1>3, RotationAssumption DEF Control, Types, Run, Claim, Fault
<1>5. GenTypes' /\ current <= current' /\ made <= made'
  BY <1>1 DEF Control, GenTypes, Bounded, Run, Claim
<1>6. \A i \in Journals : i # j => runs'[i] = runs[i]
  BY DEF Run, Control, Types
<1>7. runs'[j] = runs[j] + 1
  BY DEF Run, Control, Types
<1>8. JournalOK(j)'
  BY <1>1 DEF JournalOK, WellFormed, Own, Run, Claim
<1>9. StepOK(j)'
  BY <1>1, <1>3, <1>7 DEF StepOK, Fits
<1>10. Control'
  BY <1>1, <1>2, <1>3, <1>4, <1>5, <1>6, <1>8, <1>9, LocalStep
<1>11. Ratchet
  BY <1>1 DEF Ratchet, MayBecome
<1> QED
  BY <1>10, <1>11

LEMMA ResumeControl ==
    ASSUME Control, NEW j \in Journals, Resume(j)
    PROVE  Control' /\ Ratchet
<1>1. journal' = journal /\ journal[j].state \in Resumable /\ UNCHANGED <<made, runs>>
      /\ journal[j].op \in Operations
  BY OpOfJournal DEF Resume, MayResume, Claim, Control, Resumable
<1>2. PICK s \in {"verify", "idle"} : step' = [step EXCEPT ![j] = s]
  BY DEF Resume, Claim, Go, Control, Types
<1>3. s \in Steps /\ Fits(s, journal[j].state) /\ s # "plan"
  BY <1>1 DEF Steps, Fits
<1>4. Types'
  BY <1>1, <1>2, <1>3, RotationAssumption DEF Control, Types, Resume, Claim, Fault
<1>5. GenTypes' /\ current <= current'
  BY DEF Control, GenTypes, Bounded, Resume, Claim
<1> QED
  BY <1>1, <1>2, <1>3, <1>4, <1>5, QuietStep

LEMMA SameGenerations ==
    ASSUME Control, UNCHANGED <<gens, current, receipts>>
    PROVE  GenTypes' /\ current <= current'
BY DEF Control, GenTypes, Bounded

LEMMA ReleaseControl ==
    ASSUME Control, NEW j \in Journals, Release(j)
    PROVE  Control' /\ Ratchet
<1>1. journal' = journal /\ UNCHANGED <<made, runs, gens, current, receipts>>
  BY DEF Release, backend
<1>2. PICK s \in {"idle"} : step' = [step EXCEPT ![j] = s] /\ Fits(s, journal[j].state)
  BY DEF Release, Go, Fits
<1>3. s \in Steps /\ (s = "plan" => runs[j] > 0)
  BY DEF Control, Types, Steps, StepOK
<1>4. Types'
  BY <1>1, <1>2, <1>3, RotationAssumption DEF Control, Types, Release, Fault, backend
<1> QED
  BY <1>1, <1>2, <1>3, <1>4, SameGenerations, QuietStep

LEMMA InspectControl ==
    ASSUME Control, NEW j \in Journals, Inspect(j)
    PROVE  Control' /\ Ratchet
<1>1. journal' = journal /\ UNCHANGED <<made, runs, gens, current, receipts>>
  BY DEF Inspect, backend
<1>2. PICK s \in {"save_staged", "release"} : step' = [step EXCEPT ![j] = s] /\ Fits(s, journal[j].state)
  BY DEF Inspect, Go, Fits, StepOK, Control
<1>3. s \in Steps /\ (s = "plan" => runs[j] > 0)
  BY DEF Control, Types, Steps, StepOK
<1>4. Types'
  BY <1>1, <1>2, <1>3, RotationAssumption DEF Control, Types, Inspect, Fault, backend
<1> QED
  BY <1>1, <1>2, <1>3, <1>4, SameGenerations, QuietStep

LEMMA VerifyControl ==
    ASSUME Control, NEW j \in Journals, Verify(j)
    PROVE  Control' /\ Ratchet
<1>1. journal' = journal /\ UNCHANGED <<made, runs, gens, current, receipts>>
  BY DEF Verify, backend
<1>2. PICK s \in {"activate", "prove", "reconcile"} : step' = [step EXCEPT ![j] = s] /\ Fits(s, journal[j].state)
  BY DEF Verify, Go, Fits, StepOK, Control, Abortable
<1>3. s \in Steps /\ (s = "plan" => runs[j] > 0)
  BY DEF Control, Types, Steps, StepOK
<1>4. Types'
  BY <1>1, <1>2, <1>3, RotationAssumption DEF Control, Types, Verify, Fault, backend
<1> QED
  BY <1>1, <1>2, <1>3, <1>4, SameGenerations, QuietStep

LEMMA ProofAgesControl ==
    ASSUME Control, NEW j \in Journals, ProofAges(j)
    PROVE  Control' /\ Ratchet
<1>1. journal' = journal /\ UNCHANGED <<made, runs, gens, current, receipts>>
  BY DEF ProofAges, backend
<1>2. PICK s \in {step[j]} : step' = [step EXCEPT ![j] = s] /\ Fits(s, journal[j].state)
  BY DEF ProofAges, Go, Fits, StepOK, Control, Types
<1>3. s \in Steps /\ (s = "plan" => runs[j] > 0)
  BY DEF Control, Types, Steps, StepOK
<1>4. Types'
  BY <1>1, <1>2, <1>3, RotationAssumption DEF Control, Types, ProofAges, Fault, backend
<1> QED
  BY <1>1, <1>2, <1>3, <1>4, SameGenerations, QuietStep

LEMMA CrashControl ==
    ASSUME Control, NEW j \in Journals, Crash(j)
    PROVE  Control' /\ Ratchet
<1>1. journal' = journal /\ UNCHANGED <<made, runs, gens, current, receipts>>
  BY DEF Crash, backend
<1>2. PICK s \in {"idle"} : step' = [step EXCEPT ![j] = s] /\ Fits(s, journal[j].state)
  BY DEF Crash, Go, Fits
<1>3. s \in Steps /\ (s = "plan" => runs[j] > 0)
  BY DEF Control, Types, Steps, StepOK
<1>4. Types'
  BY <1>1, <1>2, <1>3, RotationAssumption DEF Control, Types, Crash, Fault, backend
<1> QED
  BY <1>1, <1>2, <1>3, <1>4, SameGenerations, QuietStep

LEMMA RecordClosedControl ==
    ASSUME Control, NEW j \in Journals, RecordClosed(j)
    PROVE  Control' /\ Ratchet
<1>1. journal' = journal /\ UNCHANGED <<made, runs, gens, current, receipts>>
  BY DEF RecordClosed
<1>2. PICK s \in {"save_activated", "reconcile"} : step' = [step EXCEPT ![j] = s] /\ Fits(s, journal[j].state)
  BY DEF RecordClosed, Go, Fits, StepOK, Control, Resumable
<1>3. s \in Steps /\ s # "plan"
  BY DEF Steps
<1>4. terminal' \in [Operations -> {None, "closed", "aborted"}] /\ faults' \in 0..MaxFaults
  BY RotationAssumption DEF Control, Types, RecordClosed, Record, Fault
<1>5. Types'
  BY <1>1, <1>2, <1>3, <1>4 DEF Control, Types, RecordClosed
<1> QED
  BY <1>1, <1>2, <1>3, <1>5, SameGenerations, QuietStep

LEMMA AbortControl ==
    ASSUME Control, NEW j \in Journals, Abort(j)
    PROVE  Control' /\ Ratchet
<1>1. journal' = journal /\ UNCHANGED <<made, runs, gens, current, receipts>>
  BY DEF Abort
<1>2. PICK s \in {"save_aborted", "idle"} : step' = [step EXCEPT ![j] = s] /\ Fits(s, journal[j].state)
  BY DEF Abort, Go, Fits
<1>3. s \in Steps /\ s # "plan"
  BY DEF Steps
<1>4. terminal' \in [Operations -> {None, "closed", "aborted"}] /\ faults' \in 0..MaxFaults
  BY RotationAssumption DEF Control, Types, Abort, Record, Fault
<1>5. Types'
  BY <1>1, <1>2, <1>3, <1>4 DEF Control, Types, Abort
<1> QED
  BY <1>1, <1>2, <1>3, <1>5, SameGenerations, QuietStep

LEMMA BeginPreparingControl ==
    ASSUME Control, NEW j \in Journals, BeginPreparing(j)
    PROVE  Control' /\ Ratchet
<1> DEFINE n == [journal[j] EXCEPT !.state = "preparing"]
<1>1. /\ journal[j] \in Journal /\ JournalOK(j) /\ StepOK(j) /\ made \in Nat /\ current \in Nat
      /\ journal[j].state # "absent"
  BY DEF Control, Types, GenTypes, BeginPreparing, StepOK, Fits, Abortable, Resumable
<1>2. n \in Journal
  BY <1>1, RotationAssumption DEF Journal, States, Resumable
<1>3. WellFormed(j, n, made) /\ MayBecome(j, n) /\ Fits("prepare", n.state) /\ n.state # "absent"
  BY <1>1, <1>2 DEF JournalOK, WellFormed, Own, StepOK, Fits, MayBecome, BeginPreparing, Journal, NoJournal,
     Sealed, States, Published, Announced, Resumable, Abortable
<1>4. n.state \in Sealed => journal[j].state \in Sealed
  BY <1>1 DEF BeginPreparing, StepOK, Fits, Sealed, States, Resumable, Abortable
<1>5. "prepare" \in Steps /\ Save(j, n, "prepare") /\ UNCHANGED <<aged, backend, runs>> /\ made' = made
  BY DEF Steps, BeginPreparing
<1>6. made' \in Nat /\ made <= made' /\ WellFormed(j, n, made')
  BY <1>1, <1>3, <1>5
<1> HIDE DEF n
<1> QED
  BY <1>2, <1>3, <1>4, <1>5, <1>6, SaveStep

LEMMA RecordStagedControl ==
    ASSUME Control, NEW j \in Journals, RecordStaged(j)
    PROVE  Control' /\ Ratchet
<1> DEFINE n == [journal[j] EXCEPT !.state = "staged"]
<1>1. /\ journal[j] \in Journal /\ JournalOK(j) /\ StepOK(j) /\ made \in Nat /\ current \in Nat
      /\ journal[j].state # "absent"
  BY DEF Control, Types, GenTypes, RecordStaged, StepOK, Fits, Abortable, Resumable
<1>2. n \in Journal
  BY <1>1, RotationAssumption DEF Journal, States, Resumable
<1>3. WellFormed(j, n, made) /\ MayBecome(j, n) /\ Fits("prove", n.state) /\ n.state # "absent"
  BY <1>1, <1>2 DEF JournalOK, WellFormed, Own, StepOK, Fits, MayBecome, RecordStaged, Journal, NoJournal,
     Sealed, States, Published, Announced, Resumable, Abortable
<1>4. n.state \in Sealed => journal[j].state \in Sealed
  BY <1>1 DEF RecordStaged, StepOK, Fits, Sealed, States, Resumable, Abortable
<1>5. "prove" \in Steps /\ Save(j, n, "prove") /\ UNCHANGED <<aged, backend, runs>> /\ made' = made
  BY DEF Steps, RecordStaged
<1>6. made' \in Nat /\ made <= made' /\ WellFormed(j, n, made')
  BY <1>1, <1>3, <1>5
<1> HIDE DEF n
<1> QED
  BY <1>2, <1>3, <1>4, <1>5, <1>6, SaveStep

LEMMA RecordActivatedControl ==
    ASSUME Control, NEW j \in Journals, RecordActivated(j)
    PROVE  Control' /\ Ratchet
<1> DEFINE n == [journal[j] EXCEPT !.state = "activated"]
<1>1. /\ journal[j] \in Journal /\ JournalOK(j) /\ StepOK(j) /\ made \in Nat /\ current \in Nat
      /\ journal[j].state # "absent"
  BY DEF Control, Types, GenTypes, RecordActivated, StepOK, Fits, Abortable, Resumable
<1>2. n \in Journal
  BY <1>1, RotationAssumption DEF Journal, States, Resumable
<1>3. WellFormed(j, n, made) /\ MayBecome(j, n) /\ Fits("release", n.state) /\ n.state # "absent"
  BY <1>1, <1>2 DEF JournalOK, WellFormed, Own, StepOK, Fits, MayBecome, RecordActivated, Journal, NoJournal,
     Sealed, States, Published, Announced, Resumable, Abortable
<1>4. n.state \in Sealed => journal[j].state \in Sealed
  BY <1>1 DEF RecordActivated, StepOK, Fits, Sealed, States, Resumable, Abortable
<1>5. "release" \in Steps /\ Save(j, n, "release") /\ UNCHANGED <<aged, backend, runs>> /\ made' = made
  BY DEF Steps, RecordActivated
<1>6. made' \in Nat /\ made <= made' /\ WellFormed(j, n, made')
  BY <1>1, <1>3, <1>5
<1> HIDE DEF n
<1> QED
  BY <1>2, <1>3, <1>4, <1>5, <1>6, SaveStep

LEMMA RequireReconciliationControl ==
    ASSUME Control, NEW j \in Journals, RequireReconciliation(j)
    PROVE  Control' /\ Ratchet
<1> DEFINE n == [journal[j] EXCEPT !.state = "reconcile_required"]
<1>1. /\ journal[j] \in Journal /\ JournalOK(j) /\ StepOK(j) /\ made \in Nat /\ current \in Nat
      /\ journal[j].state # "absent"
  BY DEF Control, Types, GenTypes, RequireReconciliation, StepOK, Fits, Abortable, Resumable
<1>2. n \in Journal
  BY <1>1, RotationAssumption DEF Journal, States, Resumable
<1>3. WellFormed(j, n, made) /\ MayBecome(j, n) /\ Fits("release", n.state) /\ n.state # "absent"
  BY <1>1, <1>2 DEF JournalOK, WellFormed, Own, StepOK, Fits, MayBecome, RequireReconciliation, Journal, NoJournal,
     Sealed, States, Published, Announced, Resumable, Abortable
<1>4. n.state \in Sealed => journal[j].state \in Sealed
  BY <1>1 DEF RequireReconciliation, StepOK, Fits, Sealed, States, Resumable, Abortable
<1>5. "release" \in Steps /\ Save(j, n, "release") /\ UNCHANGED <<aged, backend, runs>> /\ made' = made
  BY DEF Steps, RequireReconciliation
<1>6. made' \in Nat /\ made <= made' /\ WellFormed(j, n, made')
  BY <1>1, <1>3, <1>5
<1> HIDE DEF n
<1> QED
  BY <1>2, <1>3, <1>4, <1>5, <1>6, SaveStep

LEMMA PlanControl ==
    ASSUME Control, NEW j \in Journals, Plan(j)
    PROVE  Control' /\ Ratchet
<1> DEFINE n == [NoJournal EXCEPT !.state = "planned", !.op = Op(j), !.source = current,
                                  !.candidate = AllocateGeneration]
<1>1. /\ journal[j] = NoJournal /\ runs[j] \in 1..MaxRuns /\ Op(j) = <<j, runs[j]>>
      /\ journal[j].state = "absent"
      /\ made \in Nat /\ current \in Nat /\ current \in DOMAIN gens /\ step[j] = "plan"
  BY DEF Control, Types, GenTypes, Plan, JournalOK, WellFormed, StepOK, Fits, Op
<1>2. AllocateGeneration \in Nat /\ current < AllocateGeneration
  BY <1>1, AllocatedAbove DEF Control
<1>3. Op(j) \in Own(j) /\ Op(j) \in Operations
  BY <1>1 DEF Own, Operations
<1>4. n \in Journal /\ WellFormed(j, n, made) /\ MayBecome(j, n) /\ Fits("prepare", n.state)
      /\ n.state # "absent" /\ n.state \notin Sealed
  <2>1. NoJournal \in Journal
    BY RotationAssumption DEF NoJournal, Journal, States
  <2>2. n \in Journal
    BY <1>1, <1>2, <1>3, <2>1 DEF Journal, States
  <2>3. n.state = "planned" /\ n.op = Op(j) /\ n.source = current
        /\ n.candidate = AllocateGeneration
    BY <2>1 DEF Journal
  <2> HIDE DEF n
  <2> QED
    BY <1>1, <1>2, <1>3, <2>2, <2>3 DEF WellFormed, MayBecome, Fits, NoJournal, Sealed, Published,
       Announced, Resumable
<1>5. CASE Save(j, n, "prepare")
  <2>1. "prepare" \in Steps /\ UNCHANGED <<aged, backend, runs>> /\ made' = made
    BY DEF Steps, Plan
  <2>2. made' \in Nat /\ made <= made' /\ WellFormed(j, n, made')
    BY <1>1, <1>4, <2>1
  <2> HIDE DEF n
  <2> QED
    BY <1>4, <1>5, <2>1, <2>2, SaveStep
<1>6. CASE Go(j, "release") /\ UNCHANGED <<journal, faults>>
  <2>1. step' = [step EXCEPT ![j] = "release"] /\ Fits("release", journal[j].state)
        /\ "release" \in Steps /\ journal' = journal
        /\ UNCHANGED <<gens, current, receipts, made, runs>>
    BY <1>6 DEF Go, Fits, Steps, Plan, backend
  <2>2. Types'
    BY <1>6, <2>1 DEF Control, Types, Plan, backend
  <2> QED
    BY <2>1, <2>2, SameGenerations, QuietStep
<1> QED
  BY <1>5, <1>6 DEF Plan

LEMMA PrepareControl ==
    ASSUME Control, NEW j \in Journals, Prepare(j)
    PROVE  Control' /\ Ratchet
<1> DEFINE n == [journal[j] EXCEPT !.state = "prepared", !.digest = made + 1]
<1>1. /\ journal[j] \in Journal /\ JournalOK(j) /\ made \in Nat /\ current \in Nat
      /\ journal[j].state = "preparing"
  BY DEF Control, Types, GenTypes, Prepare
<1>2. n \in Journal
  BY <1>1, made + 1 \in Nat DEF Journal, States, Resumable
<1>3. n.state = "prepared" /\ n.digest = made + 1 /\ n.op = journal[j].op
      /\ n.source = journal[j].source /\ n.candidate = journal[j].candidate
  BY <1>1 DEF Journal
<1> HIDE DEF n
<1>4. WellFormed(j, n, made + 1) /\ MayBecome(j, n) /\ Fits("stage", n.state)
      /\ n.state # "absent" /\ n.digest > made
  BY <1>1, <1>3 DEF JournalOK, WellFormed, Fits, MayBecome, NoJournal, Sealed,
     Published, Announced, Resumable
<1>5. CASE made' = made + 1 /\ Save(j, n, "stage")
  <2>1. "stage" \in Steps /\ UNCHANGED <<aged, backend, runs>>
    BY DEF Steps, Prepare
  <2>2. made' \in Nat /\ made <= made' /\ WellFormed(j, n, made')
    BY <1>1, <1>4, <1>5
  <2> QED
    BY <1>2, <1>4, <1>5, <2>1, <2>2, SaveStep
<1>6. CASE Fault /\ Go(j, "release") /\ UNCHANGED <<journal, made>>
  <2>1. step' = [step EXCEPT ![j] = "release"] /\ Fits("release", journal[j].state)
        /\ "release" \in Steps /\ journal' = journal
        /\ UNCHANGED <<gens, current, receipts, made, runs>>
    BY <1>6 DEF Go, Fits, Steps, Prepare, backend
  <2>2. Types'
    BY <1>6, <2>1, RotationAssumption DEF Control, Types, Prepare, backend, Fault
  <2> QED
    BY <2>1, <2>2, SameGenerations, QuietStep
<1> QED
  BY <1>5, <1>6 DEF Prepare, n

LEMMA RecordBatchProofControl ==
    ASSUME Control, NEW j \in Journals, RecordBatchProof(j)
    PROVE  Control' /\ Ratchet
<1> DEFINE n == [journal[j] EXCEPT !.batches = @ + 1,
                    !.state = IF journal[j].batches + 1 = Batches THEN "dns_complete"
                              ELSE "dns_in_progress"]
<1>1. /\ journal[j] \in Journal /\ JournalOK(j) /\ made \in Nat /\ current \in Nat
      /\ journal[j].state \in Abortable /\ journal[j].batches + 1 \in 0..Batches
  BY RotationAssumption DEF Control, Types, GenTypes, RecordBatchProof, StepOK, Fits, Journal
<1>2. n \in Journal
  BY <1>1 DEF Journal, States, Resumable
<1>3. n.state \in {"dns_complete", "dns_in_progress"} /\ n.op = journal[j].op
      /\ n.source = journal[j].source /\ n.candidate = journal[j].candidate
      /\ n.digest = journal[j].digest
  BY <1>1 DEF Journal
<1> HIDE DEF n
<1>4. WellFormed(j, n, made) /\ MayBecome(j, n) /\ Fits("prove", n.state)
      /\ n.state # "absent" /\ (n.state \in Sealed => journal[j].state \in Sealed)
  BY <1>1, <1>2, <1>3 DEF JournalOK, WellFormed, Own, Fits, MayBecome, NoJournal, Sealed,
     States, Published, Announced, Resumable, Abortable
<1>5. CASE Save(j, n, "prove")
  <2>1. "prove" \in Steps /\ UNCHANGED <<aged, backend, runs>> /\ made' = made
    BY DEF Steps, RecordBatchProof
  <2>2. made' \in Nat /\ made <= made' /\ WellFormed(j, n, made')
    BY <1>1, <1>4, <2>1
  <2> QED
    BY <1>2, <1>4, <1>5, <2>1, <2>2, SaveStep
<1>6. CASE Go(j, "release") /\ UNCHANGED <<journal, faults>>
  <2>1. step' = [step EXCEPT ![j] = "release"] /\ Fits("release", journal[j].state)
        /\ "release" \in Steps /\ journal' = journal
        /\ UNCHANGED <<gens, current, receipts, made, runs>>
    BY <1>6 DEF Go, Fits, Steps, RecordBatchProof, backend
  <2>2. Types'
    BY <1>6, <2>1 DEF Control, Types, RecordBatchProof, backend
  <2> QED
    BY <2>1, <2>2, SameGenerations, QuietStep
<1> QED
  BY <1>5, <1>6 DEF RecordBatchProof, n

LEMMA BeginActivationControl ==
    ASSUME Control, NEW j \in Journals, BeginActivation(j)
    PROVE  Control' /\ Ratchet
<1> DEFINE n == [journal[j] EXCEPT !.state = "activating"]
<1>1. /\ journal[j] \in Journal /\ JournalOK(j) /\ made \in Nat /\ current \in Nat
      /\ journal[j].state \in Abortable /\ journal[j].batches = Batches
  BY DEF Control, Types, GenTypes, BeginActivation, StepOK, Fits
<1>2. n \in Journal
  BY <1>1 DEF Journal, States, Resumable
<1>3. WellFormed(j, n, made) /\ MayBecome(j, n) /\ Fits("activate", n.state)
      /\ n.state # "absent" /\ (n.state \in Sealed => journal[j].state \in Sealed)
  BY <1>1, <1>2 DEF JournalOK, WellFormed, Own, Fits, MayBecome, Journal, NoJournal, Sealed,
     States, Published, Announced, Resumable, Abortable
<1>4. CASE Save(j, n, "activate")
  <2>1. "activate" \in Steps /\ UNCHANGED <<aged, backend, runs>> /\ made' = made
    BY DEF Steps, BeginActivation
  <2>2. made' \in Nat /\ made <= made' /\ WellFormed(j, n, made')
    BY <1>1, <1>3, <2>1
  <2> HIDE DEF n
  <2> QED
    BY <1>2, <1>3, <1>4, <2>1, <2>2, SaveStep
<1>5. CASE Go(j, "release") /\ UNCHANGED <<journal, faults>>
  <2>1. step' = [step EXCEPT ![j] = "release"] /\ Fits("release", journal[j].state)
        /\ "release" \in Steps /\ journal' = journal
        /\ UNCHANGED <<gens, current, receipts, made, runs>>
    BY <1>5 DEF Go, Fits, Steps, BeginActivation, backend
  <2>2. Types'
    BY <1>5, <2>1 DEF Control, Types, BeginActivation, backend
  <2> QED
    BY <2>1, <2>2, SameGenerations, QuietStep
<1> QED
  BY <1>4, <1>5 DEF BeginActivation

LEMMA SaveAbortedControl ==
    ASSUME Control, NEW j \in Journals, SaveAborted(j)
    PROVE  Control' /\ Ratchet
<1> DEFINE n == [journal[j] EXCEPT !.state = "aborted"]
<1>1. /\ journal[j] \in Journal /\ JournalOK(j) /\ journal[j].state \in Abortable
      /\ made \in Nat /\ made' = made /\ runs' = runs /\ current' = current
      /\ UNCHANGED <<gens, receipts>> /\ step' = [step EXCEPT ![j] = "idle"] /\ step'[j] = "idle"
  BY DEF Control, Types, SaveAborted, StepOK, Fits, backend, Go
<1>2. n \in Journal /\ n.state = "aborted" /\ n.op = journal[j].op /\ n.source = journal[j].source
      /\ n.candidate = journal[j].candidate /\ n.digest = journal[j].digest
  BY <1>1 DEF Journal, States, Resumable
<1>3. PICK m \in {journal[j], n} : journal' = [journal EXCEPT ![j] = m]
  <2>1. journal = [journal EXCEPT ![j] = journal[j]]
        /\ [journal EXCEPT ![j].state = "aborted"] = [journal EXCEPT ![j] = n]
    BY DEF Control, Types
  <2> QED
    BY <2>1 DEF SaveAborted
<1> HIDE DEF n
<1>4. m \in Journal /\ WellFormed(j, m, made) /\ MayBecome(j, m)
      /\ (m.state \in Sealed => journal[j].state \in Sealed /\ m.digest = journal[j].digest)
  BY <1>1, <1>2 DEF JournalOK, WellFormed, MayBecome, NoJournal, Sealed, States, Published,
     Announced, Resumable, Abortable
<1>5. journal'[j] = m /\ \A i \in Journals : i # j => journal'[i] = journal[i]
  BY <1>3 DEF Control, Types
<1>6. Types'
  BY <1>1, <1>3, <1>4, RotationAssumption DEF Control, Types, SaveAborted, Fault, backend, Steps
<1>7. JournalOK(j)' /\ StepOK(j)'
  BY <1>1, <1>4, <1>5 DEF JournalOK, WellFormed, Own, StepOK, Fits
<1>8. Control'
  <2>1. "idle" \in Steps /\ made <= made' /\ \A i \in Journals : i # j => runs'[i] = runs[i]
    BY <1>1 DEF Steps
  <2>2. GenTypes' /\ current <= current'
    BY <1>1, SameGenerations
  <2> QED
    BY <1>1, <1>3, <1>4, <1>6, <1>7, <2>1, <2>2, LocalStep
<1>9. Ratchet
  BY <1>4, <1>5 DEF Ratchet, MayBecome
<1> QED
  BY <1>8, <1>9

(* The row a stage adds has a number no other generation has.              *)
LEMMA StagedTypes ==
    ASSUME Control, NEW j \in Journals, journal[j].state = "prepared", MayStage(j),
           gens' = Staged(j), UNCHANGED <<current, receipts>>
    PROVE  /\ journal[j].candidate \notin DOMAIN gens /\ GenTypes'
           /\ DOMAIN gens' = DOMAIN gens \cup {journal[j].candidate}
           /\ \A g \in DOMAIN gens : gens'[g] = gens[g]
           /\ gens'[journal[j].candidate] =
                 [op |-> journal[j].op, source |-> journal[j].source,
                  content |-> journal[j].digest, wasActive |-> FALSE]
<1> DEFINE c == journal[j].candidate
<1>1. /\ journal[j] \in Journal /\ Op(j) = journal[j].op /\ journal[j].op \in Operations
      /\ journal[j].source < c
  BY OpOfJournal DEF Control, Types, JournalOK, WellFormed
<1>2. c \in Nat /\ c > 0 /\ \A g \in DOMAIN gens : g < c
  BY <1>1, AllocatedAbove DEF MayStage, Control, Journal
<1>3. c \notin DOMAIN gens /\ DOMAIN gens \subseteq Nat \ {0} /\ current \in DOMAIN gens
  BY <1>2 DEF Control, GenTypes
<1>4. /\ DOMAIN gens' = DOMAIN gens \cup {c}
      /\ \A g \in DOMAIN gens : gens'[g] = gens[g]
      /\ gens'[c] = [op |-> journal[j].op, source |-> journal[j].source,
                     content |-> journal[j].digest, wasActive |-> FALSE]
  BY <1>1, <1>3 DEF Staged
<1>5. gens'[c] \in Row
  BY <1>1, <1>4 DEF Row, Journal
<1>6. gens' \in [DOMAIN gens' -> Row]
  BY <1>3, <1>4, <1>5 DEF Control, GenTypes, Staged
<1>7. \A g \in DOMAIN gens' : g <= c
  BY <1>2, <1>3, <1>4
<1>8. GenTypes'
  BY <1>2, <1>3, <1>4, <1>6, <1>7 DEF Control, GenTypes, Bounded
<1> QED
  BY <1>3, <1>4, <1>8

LEMMA StageControl ==
    ASSUME Control, NEW j \in Journals, Stage(j)
    PROVE  Control' /\ Ratchet
<1>1. journal' = journal /\ UNCHANGED <<made, runs, current, receipts>>
      /\ journal[j].state = "prepared"
  BY DEF Stage, Control, StepOK, Fits
<1>2. PICK s \in {"inspect", "release"} : step' = [step EXCEPT ![j] = s]
  BY DEF Stage, Go
<1>3. s \in Steps /\ s # "plan" /\ Fits(s, journal[j].state)
  BY <1>1 DEF Steps, Fits
<1>4. Types'
  BY <1>1, <1>2, <1>3, RotationAssumption DEF Control, Types, Stage, Fault
<1>5. gens' = gens \/ (MayStage(j) /\ gens' = Staged(j))
  BY DEF Stage
<1>6. GenTypes' /\ current <= current'
  <2>1. current \in Nat
    BY DEF Control, GenTypes
  <2>2. CASE gens' = gens
    BY <1>1, <2>2, SameGenerations
  <2>3. CASE MayStage(j) /\ gens' = Staged(j)
    <3>1. UNCHANGED <<current, receipts>> /\ journal[j].state = "prepared" /\ MayStage(j)
          /\ gens' = Staged(j) /\ current <= current'
      BY <1>1, <2>1, <2>3
    <3>2. GenTypes'
      BY <3>1, StagedTypes
    <3> QED
      BY <3>1, <3>2
  <2> QED
    BY <1>5, <2>2, <2>3
<1> QED
  BY <1>1, <1>2, <1>3, <1>4, <1>6, QuietStep

(* The pointer moves forward, to a generation that is there.               *)
LEMMA MovedTypes ==
    ASSUME Control, NEW j \in Journals, journal[j].state = "activating", Fenced(j), Moved(j),
           UNCHANGED receipts
    PROVE  /\ current' = journal[j].candidate /\ current < current' /\ GenTypes'
           /\ current = journal[j].source /\ journal[j].candidate \in DOMAIN gens
           /\ gens[journal[j].candidate].op = journal[j].op
           /\ DOMAIN gens' = DOMAIN gens
           /\ \A g \in DOMAIN gens : g # current' => gens'[g] = gens[g]
           /\ gens'[current'] = [gens[current'] EXCEPT !.wasActive = TRUE]
<1> DEFINE c == journal[j].candidate
<1>1. /\ Op(j) = journal[j].op /\ journal[j].source < c /\ c \in DOMAIN gens /\ current' = c
      /\ gens[c].op = journal[j].op /\ current = journal[j].source
  BY OpOfJournal DEF Control, JournalOK, WellFormed, Fenced, Exact, AtSource, Moved
<1>2. DOMAIN gens \subseteq Nat \ {0} /\ gens \in [DOMAIN gens -> Row] /\ gens[c] \in Row
  BY <1>1 DEF Control, GenTypes
<1>3. gens' = [gens EXCEPT ![c] = [gens[c] EXCEPT !.wasActive = TRUE]]
  BY DEF Moved
<1>4. [gens[c] EXCEPT !.wasActive = TRUE] \in Row
  BY <1>2 DEF Row
<1>5. /\ DOMAIN gens' = DOMAIN gens /\ gens' \in [DOMAIN gens' -> Row]
      /\ \A g \in DOMAIN gens : g # c => gens'[g] = gens[g]
      /\ gens'[c] = [gens[c] EXCEPT !.wasActive = TRUE]
  BY <1>1, <1>2, <1>3, <1>4
<1>6. GenTypes'
  BY <1>1, <1>2, <1>5 DEF Control, GenTypes, Bounded
<1> QED
  BY <1>1, <1>5, <1>6

LEMMA ActivateControl ==
    ASSUME Control, NEW j \in Journals, Activate(j)
    PROVE  Control' /\ Ratchet
<1>1. journal' = journal /\ UNCHANGED <<made, runs, receipts>> /\ journal[j].state = "activating"
  BY DEF Activate, Control, StepOK, Fits
<1>2. PICK s \in {"close", "reconcile"} : step' = [step EXCEPT ![j] = s]
  BY DEF Activate, Go
<1>3. s \in Steps /\ s # "plan" /\ Fits(s, journal[j].state)
  BY <1>1 DEF Steps, Fits, Resumable
<1>4. Types'
  BY <1>1, <1>2, <1>3, RotationAssumption DEF Control, Types, Activate, Fault
<1>5. UNCHANGED <<current, gens>> \/ (Fenced(j) /\ Moved(j))
  BY DEF Activate
<1>6. GenTypes' /\ current <= current'
  BY <1>1, <1>5, MovedTypes, SameGenerations DEF Control, GenTypes
<1> QED
  BY <1>1, <1>2, <1>3, <1>4, <1>6, QuietStep

(* Every action of the campaigns preserves Control and obeys Ratchet.      *)
LEMMA NextControl ==
    ASSUME Control, Next
    PROVE  Control' /\ Ratchet
<1>1. PICK j \in Journals : Process(j) \/ Run(j) \/ Resume(j) \/ Abort(j) \/ Crash(j) \/ ProofAges(j)
  BY DEF Next
<1>2. CASE Process(j)
  BY <1>2, PlanControl, BeginPreparingControl, PrepareControl, StageControl, InspectControl,
     RecordStagedControl, VerifyControl, RecordBatchProofControl, BeginActivationControl,
     ActivateControl, RecordClosedControl, RecordActivatedControl, RequireReconciliationControl,
     SaveAbortedControl, ReleaseControl DEF Process
<1>3. CASE Run(j) \/ Resume(j) \/ Abort(j) \/ Crash(j) \/ ProofAges(j)
  BY <1>3, RunControl, ResumeControl, AbortControl, CrashControl, ProofAgesControl
<1> QED
  BY <1>1, <1>2, <1>3

(* What a purge step does to the rows: nothing, or one generation that was *)
(* Deletable becomes a receipt.                                            *)
LEMMA PurgeEffect ==
    ASSUME PurgeGeneration, pending \subseteq Nat
    PROVE  /\ UNCHANGED <<journal, step, aged, lock, current, terminal, runs, made, plan>>
           /\ pending' \subseteq pending
           /\ \/ UNCHANGED <<gens, receipts>>
              \/ \E g \in pending : Deletable(g) /\ Delete(g)
           /\ faults' = faults \/ Fault
<1> DEFINE g == CHOOSE x \in pending : \A y \in pending : x <= y
<1>1. pending # {}
  BY DEF PurgeGeneration
<1>2. \E x \in pending : \A y \in pending : x <= y
  BY <1>1, HasLeast
<1>3. g \in pending
  BY <1>2
<1>4. /\ \/ Deletable(g) /\ Delete(g) /\ pending' = pending \ {g} /\ UNCHANGED faults
         \/ ~Deletable(g) /\ pending' = {} /\ UNCHANGED <<gens, receipts, faults>>
         \/ /\ Fault /\ pending' = {}
            /\ UNCHANGED <<gens, receipts>> \/ (Deletable(g) /\ Delete(g))
      /\ UNCHANGED <<journal, step, aged, lock, current, terminal, runs, made, plan>>
  BY DEF PurgeGeneration
<1> HIDE DEF g
<1> QED
  BY <1>3, <1>4

LEMMA PurgeNextControl ==
    ASSUME Control, PlanSound, PurgeNext
    PROVE  Control' /\ Ratchet
<1>1. CASE Next
  BY <1>1, NextControl
<1>2. CASE PlanPurge \/ ApplyPurge
  <2>1. UNCHANGED vars
    BY <1>2 DEF PlanPurge, ApplyPurge
  <2> QED
    BY <2>1 DEF vars, backend, Control, Types, GenTypes, Bounded, JournalOK, WellFormed, StepOK,
       Fits, Distinct, Own, Ratchet, MayBecome
<1>3. CASE PurgeGeneration
  <2>1. pending \subseteq Nat
    BY DEF PlanSound, TargetOK
  <2>2. /\ UNCHANGED <<journal, step, aged, lock, current, terminal, runs, made>>
        /\ \/ UNCHANGED <<gens, receipts>>
           \/ \E g \in pending : Deletable(g) /\ Delete(g)
        /\ faults' = faults \/ Fault
    BY <1>3, <2>1, PurgeEffect
  <2>3. GenTypes'
    <3>1. CASE UNCHANGED <<gens, receipts>>
      BY <2>2, <3>1, SameGenerations
    <3>2. CASE \E g \in pending : Deletable(g) /\ Delete(g)
      <4>1. PICK g \in pending : Deletable(g) /\ Delete(g)
        BY <3>2
      <4>2. /\ DOMAIN gens' = DOMAIN gens \ {g} /\ \A h \in DOMAIN gens' : gens'[h] = gens[h]
            /\ gens' = [h \in DOMAIN gens' |-> gens'[h]]
            /\ g \in DOMAIN gens /\ g # current
            /\ receipts' = receipts \cup {[gen |-> g, row |-> gens[g]]}
        BY <4>1 DEF Delete, Deletable
      <4>3. gens' \in [DOMAIN gens' -> Row] /\ gens[g] \in Row /\ g \in Nat
        BY <4>2 DEF Control, GenTypes
      <4> QED
        BY <2>2, <4>2, <4>3 DEF Control, GenTypes, Bounded
    <3> QED
      BY <2>2, <3>1, <3>2
  <2>4. Types'
    BY <2>2, RotationAssumption DEF Control, Types, Fault
  <2>5. Distinct' /\ (\A j \in Journals : JournalOK(j)' /\ StepOK(j)') /\ Ratchet
    BY <2>2 DEF Control, Distinct, JournalOK, WellFormed, StepOK, Fits, Own, Ratchet, MayBecome
  <2> QED
    BY <2>3, <2>4, <2>5 DEF Control
<1> QED
  BY <1>1, <1>2, <1>3 DEF PurgeNext

(***************************************************************************)
(* What steps do to rows, records and steps.                               *)
(***************************************************************************)
LEMMA StepsKept ==
    ASSUME NEW j \in Journals, Control, NEW s \in Steps, step' = [step EXCEPT ![j] = s],
           s \notin {"inspect", "save_staged", "save_activated"}, Ratchet
    PROVE  StepsMove
<1>1. step'[j] = s /\ \A i \in Journals : i # j => step'[i] = step[i]
  BY DEF Control, Types
<1>2. \A i \in Journals : step[i] = "save_activated" => journal[i].state = "activating"
  BY DEF Control, StepOK, Fits
<1>3. \A i \in Journals : journal[i].state = "activating" => journal'[i].op = journal[i].op
  BY DEF Ratchet, MayBecome, Sealed, States, Resumable
<1> QED
  BY <1>1, <1>2, <1>3 DEF StepsMove

LEMMA EffectOfSaves ==
    ASSUME Control, Ratchet, NEW j \in Journals,
           \/ Plan(j) \/ BeginPreparing(j) \/ Prepare(j) \/ RecordStaged(j) \/ RecordBatchProof(j)
           \/ BeginActivation(j) \/ RecordActivated(j) \/ RequireReconciliation(j) \/ SaveAborted(j)
           \/ Verify(j) \/ Release(j) \/ Crash(j)
    PROVE  RowsMove /\ RecordsMove /\ StepsMove
<1>1. UNCHANGED <<gens, current, receipts, terminal>>
  BY DEF Plan, BeginPreparing, Prepare, RecordStaged, RecordBatchProof, BeginActivation,
     RecordActivated, RequireReconciliation, SaveAborted, Verify, Release, Crash, backend
<1>2. \E s \in Steps \ {"inspect", "save_staged", "save_activated"} : step' = [step EXCEPT ![j] = s]
  BY DEF Plan, BeginPreparing, Prepare, RecordStaged, RecordBatchProof, BeginActivation,
     RecordActivated, RequireReconciliation, SaveAborted, Verify, Release, Crash, Save, Go, Steps
<1>3. StepsMove
  BY <1>2, StepsKept
<1> QED
  BY <1>1, <1>3 DEF RowsMove, RecordsMove

LEMMA EffectOfCommands ==
    ASSUME Control, Ratchet, NEW j \in Journals, Run(j) \/ Resume(j) \/ Abort(j) \/ ProofAges(j)
    PROVE  RowsMove /\ RecordsMove /\ StepsMove
<1>1. UNCHANGED <<journal, gens, current, receipts>>
  BY DEF Run, Resume, Abort, ProofAges, Claim, backend
<1>2. RecordsMove
  <2>1. terminal' = terminal \/ (terminal[Op(j)] = None /\ terminal' = [terminal EXCEPT ![Op(j)] = "aborted"])
    BY DEF Run, Resume, Abort, ProofAges, Claim, backend, Insertable, Record
  <2> QED
    BY <2>1 DEF RecordsMove, Control, Types
<1>3. StepsMove
  <2>1. \A i \in Journals : step'[i] = step[i] \/ step'[i] \in {"plan", "verify", "idle", "save_aborted"}
    BY DEF Run, Resume, Abort, ProofAges, Claim, Go, Control, Types
  <2> QED
    BY <1>1, <2>1 DEF StepsMove
<1> QED
  BY <1>1, <1>2, <1>3 DEF RowsMove

LEMMA EffectOfBackendCalls ==
    ASSUME Control, NEW j \in Journals, Stage(j) \/ Inspect(j) \/ Activate(j) \/ RecordClosed(j)
    PROVE  RowsMove /\ RecordsMove /\ StepsMove
<1>0. journal' = journal /\ step \in [Journals -> Steps] /\ terminal \in [Operations -> {None, "closed", "aborted"}]
  BY DEF Stage, Inspect, Activate, RecordClosed, Control, Types
<1>1. CASE Stage(j)
  <2>1. journal[j].state = "prepared" /\ UNCHANGED <<journal, current, receipts, terminal>>
    BY <1>1 DEF Stage, Control, StepOK, Fits
  <2>2. \/ StagedBy(j) /\ step' = [step EXCEPT ![j] = "inspect"]
        \/ (StagedBy(j) \/ gens' = gens) /\ step' = [step EXCEPT ![j] = "release"]
    BY <1>1, <2>1 DEF Stage, Go, StagedBy
  <2>3. StepsMove
    BY <1>0, <2>2 DEF StepsMove
  <2> QED
    BY <2>1, <2>2, <2>3 DEF RowsMove, RecordsMove
<1>2. CASE Inspect(j)
  <2>1. UNCHANGED <<gens, current, receipts, terminal>> /\ step[j] = "inspect"
        /\ \E s \in {"save_staged", "release"} : step' = [step EXCEPT ![j] = s]
    BY <1>2 DEF Inspect, backend, Go
  <2>2. StepsMove
    BY <1>0, <2>1 DEF StepsMove
  <2> QED
    BY <2>1, <2>2 DEF RowsMove, RecordsMove
<1>3. CASE Activate(j)
  <2>1. journal[j].state = "activating" /\ UNCHANGED <<journal, receipts, terminal>>
        /\ \E s \in {"close", "reconcile"} : step' = [step EXCEPT ![j] = s]
    BY <1>3 DEF Activate, Control, StepOK, Fits, Go
  <2>2. UNCHANGED <<current, gens>> \/ MovedBy(j)
    BY <1>3, <2>1 DEF Activate, MovedBy
  <2>3. StepsMove
    BY <1>0, <2>1 DEF StepsMove
  <2> QED
    BY <2>1, <2>2, <2>3 DEF RowsMove, RecordsMove
<1>4. CASE RecordClosed(j)
  <2>1. /\ UNCHANGED <<gens, current, receipts>> /\ journal[j].state = "activating"
        /\ Op(j) = journal[j].op /\ journal[j].op \in Operations
    BY <1>4, OpOfJournal DEF RecordClosed, Control, StepOK, Fits
  <2>2. \/ terminal' = terminal /\ step' = [step EXCEPT ![j] = "reconcile"]
        \/ /\ gens[current].op = Op(j) /\ terminal[Op(j)] \in {None, "closed"}
           /\ terminal' = [terminal EXCEPT ![Op(j)] = "closed"]
           /\ \E s \in {"save_activated", "reconcile"} : step' = [step EXCEPT ![j] = s]
    BY <1>4 DEF RecordClosed, Exact, Insertable, Record, Go
  <2>3. RecordsMove
    BY <1>0, <2>1, <2>2 DEF RecordsMove
  <2>4. StepsMove
    BY <1>0, <2>1, <2>2 DEF StepsMove
  <2> QED
    BY <2>1, <2>3, <2>4 DEF RowsMove
<1> QED
  BY <1>1, <1>2, <1>3, <1>4

(* Every step of the composition, campaigns and purges alike.              *)
LEMMA Effects ==
    ASSUME Control, PlanSound, PurgeNext
    PROVE  RowsMove /\ RecordsMove /\ StepsMove
<1>1. Ratchet
  BY PurgeNextControl
<1>2. CASE Next
  BY <1>1, <1>2, EffectOfSaves, EffectOfCommands, EffectOfBackendCalls DEF Next, Process
<1>3. CASE PlanPurge \/ ApplyPurge
  <2>1. UNCHANGED vars
    BY <1>3 DEF PlanPurge, ApplyPurge
  <2> QED
    BY <2>1 DEF vars, backend, RowsMove, RecordsMove, StepsMove
<1>4. CASE PurgeGeneration
  <2>1. pending \subseteq Nat
    BY DEF PlanSound, TargetOK
  <2> QED
    BY <1>4, <2>1, PurgeEffect DEF RowsMove, RecordsMove, StepsMove, Deleted
<1> QED
  BY <1>2, <1>3, <1>4 DEF PurgeNext

(***************************************************************************)
(* How the three moves change the set of rows.                             *)
(***************************************************************************)
LEMMA RowsSame ==
    ASSUME UNCHANGED <<gens, receipts>>
    PROVE  Rows' = Rows /\ Active' = Active
BY DEF Rows, Active

(* A purge turns a row into a receipt and loses none.                      *)
LEMMA RowsDeleted ==
    ASSUME NEW g, Deleted(g)
    PROVE  /\ Rows' = Rows /\ Active' = Active /\ g \in DOMAIN gens /\ g # current
           /\ DOMAIN gens' = DOMAIN gens \ {g} /\ \A h \in DOMAIN gens' : gens'[h] = gens[h]
<1>1. /\ DOMAIN gens' = DOMAIN gens \ {g} /\ \A h \in DOMAIN gens' : gens'[h] = gens[h]
      /\ g \in DOMAIN gens /\ g # current
      /\ receipts' = receipts \cup {[gen |-> g, row |-> gens[g]]}
  BY DEF Deleted, Delete, Deletable
<1>2. Rows' = Rows
  BY <1>1 DEF Rows
<1> QED
  BY <1>1, <1>2 DEF Active

(* A stage adds one row, which was never active.                           *)
LEMMA RowsStaged ==
    ASSUME Control, NEW j \in Journals, StagedBy(j)
    PROVE  /\ Rows' = Rows \cup {[gen |-> journal[j].candidate, row |->
                 [op |-> journal[j].op, source |-> journal[j].source,
                  content |-> journal[j].digest, wasActive |-> FALSE]]}
           /\ Active' = Active
<1> DEFINE c == journal[j].candidate
           new == [op |-> journal[j].op, source |-> journal[j].source,
                   content |-> journal[j].digest, wasActive |-> FALSE]
<1>1. /\ c \notin DOMAIN gens /\ DOMAIN gens' = DOMAIN gens \cup {c}
      /\ \A g \in DOMAIN gens : gens'[g] = gens[g]
      /\ gens'[c] = new /\ receipts' = receipts
  BY StagedTypes DEF StagedBy
<1>2. ~new.wasActive
  OBVIOUS
<1> HIDE DEF new
<1>3. Rows' = Rows \cup {[gen |-> c, row |-> new]}
  BY <1>1 DEF Rows
<1>4. Active' = Active
  BY <1>2, <1>3 DEF Active
<1> QED
  BY <1>3, <1>4 DEF new

(* Moving the pointer marks one row and leaves the others.                 *)
LEMMA RowsMoved ==
    ASSUME Control, NEW j \in Journals, MovedBy(j)
    PROVE  /\ \A r \in Rows' : r \in Rows \/
                 /\ r.gen = journal[j].candidate /\ r.row = gens'[journal[j].candidate]
           /\ \A r \in Rows : \E q \in Rows' :
                 /\ q.gen = r.gen /\ q.row.op = r.row.op /\ q.row.content = r.row.content
                 /\ r.row.wasActive => q.row.wasActive
           /\ Active' = Active \cup {journal[j].candidate}
           /\ LET old == gens[journal[j].candidate]  new == gens'[journal[j].candidate]
              IN  /\ new.op = old.op /\ new.source = old.source /\ new.content = old.content
                  /\ new.wasActive
           /\ [gen |-> journal[j].candidate, row |-> gens[journal[j].candidate]] \in Rows
<1> DEFINE c == journal[j].candidate
<1>1. /\ current' = c /\ c \in DOMAIN gens /\ DOMAIN gens' = DOMAIN gens /\ receipts' = receipts
      /\ \A g \in DOMAIN gens : g # c => gens'[g] = gens[g]
      /\ gens'[c] = [gens[c] EXCEPT !.wasActive = TRUE]
  BY MovedTypes DEF MovedBy
<1>2. gens[c] \in Row
  BY <1>1 DEF Control, GenTypes
<1>3. /\ gens'[c].op = gens[c].op /\ gens'[c].source = gens[c].source
      /\ gens'[c].content = gens[c].content /\ gens'[c].wasActive
  BY <1>1, <1>2 DEF Row
<1>4. [gen |-> c, row |-> gens[c]] \in Rows /\ [gen |-> c, row |-> gens'[c]] \in Rows'
  BY <1>1 DEF Rows
<1>5. \A r \in Rows' : r \in Rows \/ r = [gen |-> c, row |-> gens'[c]]
  BY <1>1 DEF Rows
<1>6. \A r \in Rows : r \in Rows' \/ r = [gen |-> c, row |-> gens[c]]
  BY <1>1 DEF Rows
<1>7. \A r \in Rows : \E q \in Rows' :
         /\ q.gen = r.gen /\ q.row.op = r.row.op /\ q.row.content = r.row.content
         /\ r.row.wasActive => q.row.wasActive
  BY <1>3, <1>4, <1>6
<1>8. Active' = Active \cup {c}
  <2>1. c \in Active'
    BY <1>3, <1>4 DEF Active
  <2>2. Active \subseteq Active'
    BY <1>7 DEF Active
  <2>3. Active' \subseteq Active \cup {c}
    BY <1>5 DEF Active
  <2> QED
    BY <2>1, <2>2, <2>3
<1> QED
  BY <1>3, <1>4, <1>5, <1>7, <1>8

LEMMA RowTypes ==
    ASSUME Control
    PROVE  Rows \subseteq [gen : Nat, row : Row] /\ Active \subseteq Nat
<1>1. Rows \subseteq [gen : Nat, row : Row]
  BY DEF Control, GenTypes, Rows
<1> QED
  BY <1>1 DEF Active

(* Two journals never have the same operation, so the row at a journal's   *)
(* candidate with its operation is the one it describes.                   *)
LEMMA OwnersDiffer ==
    ASSUME Control, NEW i \in Journals, NEW j \in Journals, journal[i].state # "absent",
           journal[j].state # "absent", journal[i].op = journal[j].op
    PROVE  i = j
<1>1. journal[i].op \in Own(i) /\ journal[j].op \in Own(j)
  BY DEF Control, JournalOK, WellFormed
<1> QED
  BY <1>1 DEF Own

LEMMA OwnRow ==
    ASSUME Control, RowsDescribed, NEW j \in Journals, journal[j].state # "absent",
           NEW r \in Rows, r.row.op = journal[j].op
    PROVE  Describes(j, r)
<1>1. journal[j].op \in Operations
  BY OpOfJournal DEF Control
<1>2. journal[j].op # Earlier
  BY <1>1, RotationAssumption DEF Operations, Earlier
<1>3. PICK i \in Journals : Describes(i, r)
  BY <1>2 DEF RowsDescribed
<1>4. journal[i].op = journal[j].op /\ journal[i].state # "absent"
  BY <1>3 DEF Describes, Sealed
<1> QED
  BY <1>3, <1>4, OwnersDiffer

(***************************************************************************)
(* The second layer, one conjunct of the invariant at a time.              *)
(***************************************************************************)
LEMMA DescribedStep ==
    ASSUME Control, RowsDescribed, RowsMove, Ratchet
    PROVE  RowsDescribed'
<1>1. ASSUME NEW r, NEW i \in Journals, Describes(i, r)
      PROVE  Describes(i, r)'
  BY <1>1 DEF Describes, Ratchet, MayBecome
<1>2. CASE Rows' = Rows
  BY <1>1, <1>2 DEF RowsDescribed
<1>3. ASSUME NEW j \in Journals, StagedBy(j) PROVE RowsDescribed'
  <2> DEFINE new == [gen |-> journal[j].candidate, row |->
                 [op |-> journal[j].op, source |-> journal[j].source,
                  content |-> journal[j].digest, wasActive |-> FALSE]]
  <2>1. Rows' = Rows \cup {new}
    BY <1>3, RowsStaged
  <2>2. \A r : r = new => Describes(j, r)'
    BY <1>3 DEF Describes, StagedBy, Sealed, States
  <2> HIDE DEF new
  <2> QED
    BY <1>1, <2>1, <2>2 DEF RowsDescribed
<1>4. ASSUME NEW j \in Journals, MovedBy(j) PROVE RowsDescribed'
  <2> DEFINE c == journal[j].candidate  old == [gen |-> c, row |-> gens[c]]
  <2>1. /\ \A r \in Rows' : r \in Rows \/ (r.gen = c /\ r.row = gens'[c])
        /\ gens'[c].op = gens[c].op /\ gens'[c].source = gens[c].source
        /\ gens'[c].content = gens[c].content /\ old \in Rows
    BY <1>4, RowsMoved
  <2>2. old.row.op = journal[j].op /\ journal[j].state # "absent"
    BY <1>4, MovedTypes DEF MovedBy
  <2>3. Describes(j, old)
    BY <2>1, <2>2, OwnRow
  <2>4. \A r : r.gen = c /\ r.row = gens'[c] => Describes(j, r)'
    BY <1>4, <2>1, <2>3 DEF Describes, MovedBy
  <2> QED
    BY <1>1, <2>1, <2>4 DEF RowsDescribed
<1> QED
  BY <1>2, <1>3, <1>4, RowsSame, RowsDeleted DEF RowsMove

LEMMA LineageStep ==
    ASSUME Control, RowsDescribed, Lineage, RowsMove
    PROVE  Lineage'
<1>0. Rows \subseteq [gen : Nat, row : Row] /\ Active \subseteq Nat
      /\ current \in Nat /\ current \in DOMAIN gens
  BY RowTypes DEF Control, GenTypes
<1>1. CASE UNCHANGED <<gens, current, receipts>>
  BY <1>1, RowsSame DEF Lineage, OneLineage, CurrentWasActive
<1>2. ASSUME NEW g, Deleted(g) PROVE Lineage'
  <2>1. current' = current /\ gens'[current] = gens[current]
    BY <1>0, <1>2, RowsDeleted DEF Deleted
  <2>2. Rows' = Rows /\ Active' = Active
    BY <1>2, RowsDeleted
  <2> QED
    BY <2>1, <2>2 DEF Lineage, OneLineage, CurrentWasActive
<1>3. ASSUME NEW j \in Journals, StagedBy(j) PROVE Lineage'
  <2>1. current' = current /\ gens'[current] = gens[current]
    BY <1>0, <1>3, StagedTypes DEF StagedBy
  <2>2. Active' = Active /\ \A r \in Rows' : r.row.wasActive => r \in Rows
    BY <1>3, RowsStaged
  <2> QED
    BY <2>1, <2>2 DEF Lineage, OneLineage, CurrentWasActive
<1>4. ASSUME NEW j \in Journals, MovedBy(j) PROVE Lineage'
  <2> DEFINE c == journal[j].candidate  old == [gen |-> c, row |-> gens[c]]
  <2>1. /\ \A r \in Rows' : r \in Rows \/ (r.gen = c /\ r.row = gens'[c])
        /\ Active' = Active \cup {c} /\ gens'[c].source = gens[c].source /\ gens'[c].wasActive
        /\ old \in Rows
    BY <1>4, RowsMoved
  <2>2. /\ current' = c /\ current < c /\ current = journal[j].source /\ c \in Nat
        /\ old.row.op = journal[j].op /\ journal[j].state # "absent"
    BY <1>4, MovedTypes DEF MovedBy, Control, GenTypes
  <2>3. gens'[c].source = current
    BY <2>1, <2>2, OwnRow DEF Describes
  <2>4. current \in Active /\ \A h \in Active : h <= current
    <3>1. [gen |-> current, row |-> gens[current]] \in Rows
      BY <1>0 DEF Rows
    <3> QED
      BY <3>1 DEF Active, Lineage, OneLineage, CurrentWasActive
  <2>5. \A h \in Active' : h <= current'
    BY <1>0, <2>1, <2>2, <2>4
  <2>6. ASSUME NEW r \in Rows', r.row.wasActive, r.gen # 1
        PROVE  /\ r.row.source \in Active' /\ r.row.source < r.gen
               /\ \A h \in Active' : h < r.gen => h <= r.row.source
    <3>1. CASE r \in Rows
      <4>1. r.gen \in Active /\ r.gen \in Nat /\ r.gen <= current
        BY <1>0, <2>4, <2>6, <3>1 DEF Active
      <4>2. /\ r.row.source \in Active /\ r.row.source < r.gen
            /\ \A h \in Active : h < r.gen => h <= r.row.source
        BY <2>6, <3>1 DEF Lineage, OneLineage
      <4>3. ~(c < r.gen)
        BY <1>0, <2>2, <4>1
      <4> QED
        BY <2>1, <4>2, <4>3
    <3>2. CASE r.gen = c /\ r.row = gens'[c]
      BY <1>0, <2>1, <2>2, <2>3, <2>4, <3>2
    <3> QED
      BY <2>1, <2>6, <3>1, <3>2
  <2> QED
    BY <2>1, <2>2, <2>5, <2>6 DEF Lineage, OneLineage, CurrentWasActive
<1> QED
  BY <1>1, <1>2, <1>3, <1>4 DEF RowsMove

LEMMA AnnouncedStep ==
    ASSUME Control, AnnouncedBeforeMoved, RowsMove, Ratchet
    PROVE  AnnouncedBeforeMoved'
<1> DEFINE Told(r) == \E j \in Journals :
               /\ journal[j].op = r.row.op /\ journal[j].candidate = r.gen
               /\ journal[j].state \in Announced /\ journal[j].batches = Batches
<1>1. ASSUME NEW r, Told(r) PROVE Told(r)'
  BY <1>1 DEF Ratchet, MayBecome, Announced, Sealed, States, Resumable
<1>2. \A r \in Rows : r.row.wasActive /\ r.gen # 1 => Told(r)
  BY DEF AnnouncedBeforeMoved
<1>3. ASSUME \A r \in Rows' : r.row.wasActive => r \in Rows \/ Told(r)' PROVE AnnouncedBeforeMoved'
  <2>1. \A r \in Rows' : r.row.wasActive /\ r.gen # 1 => Told(r)'
    BY <1>1, <1>2, <1>3
  <2> QED
    BY <2>1 DEF AnnouncedBeforeMoved
<1>4. CASE Rows' = Rows
  BY <1>3, <1>4
<1>5. ASSUME NEW j \in Journals, StagedBy(j) PROVE AnnouncedBeforeMoved'
  BY <1>3, <1>5, RowsStaged
<1>6. ASSUME NEW j \in Journals, MovedBy(j) PROVE AnnouncedBeforeMoved'
  <2> DEFINE c == journal[j].candidate
  <2>1. /\ \A r \in Rows' : r \in Rows \/ (r.gen = c /\ r.row = gens'[c])
        /\ gens'[c].op = gens[c].op
    BY <1>6, RowsMoved
  <2>2. gens[c].op = journal[j].op /\ journal' = journal /\ journal[j].state = "activating"
    BY <1>6, MovedTypes DEF MovedBy
  <2>3. journal[j].batches = Batches
    BY <2>2 DEF Control, JournalOK, WellFormed
  <2>4. \A r : r.gen = c /\ r.row = gens'[c] => Told(r)'
    BY <2>1, <2>2, <2>3 DEF Announced
  <2> QED
    BY <1>3, <2>1, <2>4
<1> QED
  BY <1>4, <1>5, <1>6, RowsSame, RowsDeleted DEF RowsMove

(* No step loses a row, or the mark of having been active.                 *)
LEMMA RowsGrow ==
    ASSUME Control, RowsMove
    PROVE  \A r \in Rows : \E q \in Rows' :
               /\ q.gen = r.gen /\ q.row.op = r.row.op /\ q.row.content = r.row.content
               /\ r.row.wasActive => q.row.wasActive
<1>1. CASE Rows \subseteq Rows'
  BY <1>1
<1>2. ASSUME NEW j \in Journals, StagedBy(j) PROVE Rows \subseteq Rows'
  BY <1>2, RowsStaged
<1> QED
  BY <1>1, <1>2, RowsSame, RowsDeleted, RowsMoved DEF RowsMove

LEMMA TruthStep ==
    ASSUME Control, CurrentWasActive, Truthful, RowsMove, RecordsMove, StepsMove, Ratchet
    PROVE  Truthful'
<1>0. None # "closed"
  BY RotationAssumption
<1>1. ASSUME NEW j \in Journals, HasRow(j), journal[j].state \in Sealed PROVE HasRow(j)'
  <2>1. journal'[j].op = journal[j].op /\ journal'[j].candidate = journal[j].candidate
        /\ journal'[j].digest = journal[j].digest
    BY <1>1 DEF Ratchet, MayBecome
  <2> QED
    BY <1>1, <2>1, RowsGrow DEF HasRow
<1>2. ASSUME NEW j \in Journals,
             journal'[j].state \in Published \/ step'[j] \in {"inspect", "save_staged"}
      PROVE  HasRow(j)'
  <2>1. CASE journal[j].state \in Published \/ step[j] \in {"inspect", "save_staged"}
    <3>1. journal[j].state \in Sealed
      BY <2>1 DEF Control, StepOK, Fits, Sealed, Published, States, Resumable
    <3>2. HasRow(j)
      BY <2>1 DEF Truthful
    <3> QED
      BY <1>1, <3>1, <3>2
  <2>2. CASE StagedBy(j)
    <3>1. [gen |-> journal[j].candidate, row |->
              [op |-> journal[j].op, source |-> journal[j].source,
               content |-> journal[j].digest, wasActive |-> FALSE]] \in Rows' /\ journal' = journal
      BY <2>2, RowsStaged DEF StagedBy
    <3> QED
      BY <3>1 DEF HasRow
  <2> QED
    BY <1>2, <2>1, <2>2 DEF Ratchet, MayBecome, StepsMove
<1>3. ASSUME NEW j \in Journals, journal'[j].state = "activated" \/ step'[j] = "save_activated"
      PROVE  terminal'[journal'[j].op] = "closed"
  <2>1. CASE journal[j].state = "activated" \/ step[j] = "save_activated"
    <3>1. journal[j].state \in Sealed /\ journal[j].state # "absent"
      BY <2>1 DEF Control, StepOK, Fits, Sealed, States, Resumable
    <3>2. journal[j].op \in Operations /\ terminal[journal[j].op] = "closed"
      BY <2>1, <3>1, OpOfJournal DEF Control, Truthful
    <3>3. journal'[j].op = journal[j].op
      BY <3>1 DEF Ratchet, MayBecome
    <3> QED
      BY <1>0, <3>2, <3>3 DEF RecordsMove
  <2>2. CASE journal'[j].op = journal[j].op /\ terminal'[journal[j].op] = "closed"
    BY <2>2
  <2> QED
    BY <1>3, <2>1, <2>2 DEF Ratchet, MayBecome, StepsMove
<1>4. ASSUME NEW o \in Operations, terminal'[o] = "closed"
      PROVE  \E r \in Rows' : r.row.op = o /\ r.row.wasActive
  <2>1. CASE terminal[o] = "closed"
    <3>1. PICK r \in Rows : r.row.op = o /\ r.row.wasActive
      BY <2>1 DEF Truthful
    <3> QED
      BY <3>1, RowsGrow
  <2>2. CASE gens[current].op = o /\ UNCHANGED <<gens, current, receipts>>
    <3>1. [gen |-> current, row |-> gens[current]] \in Rows
      BY DEF Rows, Control, GenTypes
    <3> QED
      BY <2>2, <3>1, RowsSame DEF CurrentWasActive
  <2> QED
    BY <1>4, <2>1, <2>2 DEF RecordsMove
<1> QED
  BY <1>2, <1>3, <1>4 DEF Truthful

(* What a purge deletes is settled: it was current before the pointer went *)
(* on, or the campaign that staged it has its terminal record.             *)
LEMMA DeletedIsSettled ==
    ASSUME Control, RowsDescribed, Lineage, PlanSound, NEW g, Deleted(g),
           NEW j \in Journals, journal[j].state # "absent", gens[g].op = journal[j].op,
           terminal[journal[j].op] = None
    PROVE  gens[g].wasActive /\ g < current
<1> DEFINE r == [gen |-> g, row |-> gens[g]]
<1>1. /\ g \in DOMAIN gens /\ g # current /\ g \in plan.targets
      /\ gens[g].content = plan.inventory[g].row.content
      /\ gens[g].wasActive = plan.inventory[g].row.wasActive
  BY DEF Deleted, Deletable, PlanSound
<1>2. r \in Rows /\ g \in Nat /\ current \in Nat
  BY <1>1 DEF Rows, Control, GenTypes
<1>3. CASE gens[g].wasActive
  <2>1. g \in Active
    BY <1>2, <1>3 DEF Active
  <2>2. g <= current
    BY <2>1 DEF Lineage, OneLineage
  <2> QED
    BY <1>1, <1>2, <1>3, <2>2
<1>4. CASE ~gens[g].wasActive
  <2>1. Settled(plan.inventory[g].row)
    BY <1>1, <1>4 DEF PlanSound, TargetOK
  <2>2. PICK k \in Journals : /\ journal[k].state \in Sealed /\ journal[k].digest = gens[g].content
                              /\ terminal[journal[k].op] # None
    BY <1>1, <2>1 DEF Settled
  <2>3. Describes(j, r)
    BY <1>2, OwnRow
  <2>4. journal[j].state \in Sealed /\ journal[j].digest = gens[g].content
    BY <2>3 DEF Describes
  <2>5. j = k
    BY <2>2, <2>4 DEF Control, Distinct
  <2> QED
    BY <2>2, <2>5
<1> QED
  BY <1>3, <1>4

LEMMA KeptStep ==
    ASSUME Control, RowsDescribed, Lineage, PlanSound, KeptOrPassed,
           RowsMove, RecordsMove, StepsMove, Ratchet
    PROVE  KeptOrPassed'
<1> SUFFICES ASSUME NEW i \in Journals, OnItsWay(i)', terminal'[journal'[i].op] = None
             PROVE  \/ /\ journal'[i].candidate \in DOMAIN gens'
                       /\ gens'[journal'[i].candidate].op = journal'[i].op
                    \/ journal'[i].candidate < current'
  BY DEF KeptOrPassed
<1> DEFINE c == journal[i].candidate
<1>1. CASE StagedBy(i)
  <2>1. /\ DOMAIN gens' = DOMAIN gens \cup {c} /\ journal' = journal
        /\ gens'[c] = [op |-> journal[i].op, source |-> journal[i].source,
                       content |-> journal[i].digest, wasActive |-> FALSE]
    BY <1>1, StagedTypes DEF StagedBy
  <2> QED
    BY <2>1
<1>2. CASE OnItsWay(i)
  <2>1. journal[i].state \in Sealed /\ journal[i].state # "absent" /\ journal[i] \in Journal
    BY <1>2 DEF OnItsWay, Control, Types, StepOK, Fits, Sealed, States, Resumable
  <2>2. journal'[i].candidate = c /\ journal'[i].op = journal[i].op
    BY <2>1 DEF Ratchet, MayBecome
  <2>3. journal[i].op \in Operations
    BY <2>1, OpOfJournal DEF Control
  <2>4. terminal[journal[i].op] = None
    BY <2>2, <2>3 DEF RecordsMove
  <2>5. (c \in DOMAIN gens /\ gens[c].op = journal[i].op) \/ c < current
    BY <1>2, <2>4 DEF KeptOrPassed
  <2>6. c \in Nat /\ current \in Nat
    BY <2>1 DEF Journal, Control, GenTypes
  <2>7. CASE UNCHANGED <<gens, current, receipts>>
    BY <2>2, <2>5, <2>7
  <2>8. ASSUME NEW j \in Journals, StagedBy(j)
        PROVE  (c \in DOMAIN gens' /\ gens'[c].op = journal[i].op) \/ c < current'
    BY <2>5, <2>8, StagedTypes DEF StagedBy
  <2>9. ASSUME NEW j \in Journals, MovedBy(j)
        PROVE  (c \in DOMAIN gens' /\ gens'[c].op = journal[i].op) \/ c < current'
    <3>1. /\ DOMAIN gens' = DOMAIN gens /\ current < current' /\ current' \in Nat
          /\ \A g \in DOMAIN gens : g # current' => gens'[g] = gens[g]
          /\ current' = journal[j].candidate
      BY <2>9, MovedTypes DEF MovedBy, Control, GenTypes
    <3>2. gens'[current'].op = gens[current'].op
      BY <2>9, <3>1, RowsMoved
    <3> QED
      BY <2>5, <2>6, <3>1, <3>2
  <2>10. ASSUME NEW g, Deleted(g)
         PROVE  (c \in DOMAIN gens' /\ gens'[c].op = journal[i].op) \/ c < current'
    <3>1. /\ DOMAIN gens' = DOMAIN gens \ {g} /\ \A h \in DOMAIN gens' : gens'[h] = gens[h]
          /\ current' = current
      BY <2>10, RowsDeleted DEF Deleted
    <3>2. CASE c < current
      BY <3>1, <3>2
    <3>3. CASE c \in DOMAIN gens /\ gens[c].op = journal[i].op
      <4>1. c = g => c < current
        BY <2>1, <2>4, <2>10, <3>3, DeletedIsSettled
      <4> QED
        BY <3>1, <3>3, <4>1
    <3> QED
      BY <2>5, <3>2, <3>3
  <2> QED
    BY <2>2, <2>7, <2>8, <2>9, <2>10 DEF RowsMove
<1> QED
  BY <1>1, <1>2 DEF OnItsWay, Ratchet, MayBecome, StepsMove

(***************************************************************************)
(* The retained newest generations, and the purge plan.                    *)
(***************************************************************************)
(* A larger history retires at least as much.                              *)
LEMMA RetiresMore ==
    ASSUME NEW S, NEW T \in SUBSET Nat, S \subseteq T, NEW b \in Nat, \A t \in T : t <= b,
           NEW k \in Nat
    PROVE  markRetainedNewest(S, k) \subseteq markRetainedNewest(T, k)
<1> SUFFICES ASSUME NEW g \in S, Cardinality({h \in S : h > g}) >= k
             PROVE  Cardinality({h \in T : h > g}) >= k
  BY DEF markRetainedNewest
<1>1. IsFiniteSet({h \in T : h > g})
  BY FS_BoundedSetOfNaturals
<1>2. {h \in S : h > g} \in SUBSET {h \in T : h > g}
  OBVIOUS
<1>3. /\ IsFiniteSet({h \in S : h > g})
      /\ Cardinality({h \in S : h > g}) <= Cardinality({h \in T : h > g})
  BY <1>1, <1>2, FS_Subset
<1>4. Cardinality({h \in S : h > g}) \in Nat /\ Cardinality({h \in T : h > g}) \in Nat
  BY <1>1, <1>3, FS_CardinalityType
<1> QED
  BY <1>3, <1>4

(* The generations before the current one change only when the pointer     *)
(* moves, which adds the one it leaves.                                    *)
LEMMA HistoryStep ==
    ASSUME Control, Lineage, RowsMove
    PROVE  /\ current \in Nat /\ current' \in Nat /\ current <= current'
           /\ Before \in SUBSET Nat /\ \A h \in Before : h <= current
           /\ Before' \in SUBSET Nat /\ \A h \in Before' : h <= current
           /\ \/ current' = current /\ Before' = Before
              \/ /\ current < current' /\ Before' = Before \cup {current}
                 /\ DOMAIN gens' = DOMAIN gens
<1>1. /\ current \in Nat /\ current \in DOMAIN gens /\ Active \subseteq Nat
      /\ \A h \in Active : h <= current
  BY RowTypes DEF Control, GenTypes, Lineage, OneLineage
<1>2. current \in Active
  <2>1. [gen |-> current, row |-> gens[current]] \in Rows
    BY <1>1 DEF Rows
  <2> QED
    BY <2>1 DEF Active, Lineage, CurrentWasActive
<1>3. ASSUME UNCHANGED <<gens, current, receipts>> PROVE current' = current /\ Before' = Before
  BY <1>3, RowsSame DEF Before
<1>4. ASSUME NEW g, Deleted(g) PROVE current' = current /\ Before' = Before
  BY <1>4, RowsDeleted DEF Before, Deleted
<1>5. ASSUME NEW j \in Journals, StagedBy(j) PROVE current' = current /\ Before' = Before
  BY <1>5, RowsStaged DEF Before, StagedBy
<1>6. ASSUME NEW j \in Journals, MovedBy(j)
      PROVE  /\ current < current' /\ Before' = Before \cup {current} /\ current' \in Nat
             /\ DOMAIN gens' = DOMAIN gens
  <2>1. current' = journal[j].candidate /\ current < current' /\ current' \in Nat
        /\ DOMAIN gens' = DOMAIN gens
    BY <1>6, MovedTypes DEF MovedBy, Control, GenTypes
  <2>2. Active' = Active \cup {current'}
    BY <1>6, <2>1, RowsMoved
  <2>3. current' \notin Active
    BY <1>1, <2>1
  <2> QED
    BY <1>2, <2>1, <2>2, <2>3 DEF Before
<1>7. \/ current' = current /\ Before' = Before
      \/ /\ current < current' /\ Before' = Before \cup {current} /\ current' \in Nat
         /\ DOMAIN gens' = DOMAIN gens
  BY <1>3, <1>4, <1>5, <1>6 DEF RowsMove
<1>8. Before \in SUBSET Nat /\ \A h \in Before : h <= current
  BY <1>1 DEF Before
<1>9. CASE current' = current /\ Before' = Before
  BY <1>1, <1>8, <1>9
<1>10. CASE /\ current < current' /\ Before' = Before \cup {current} /\ current' \in Nat
            /\ DOMAIN gens' = DOMAIN gens
  <2>1. Before' \in SUBSET Nat /\ \A h \in Before' : h <= current
    BY <1>1, <1>8, <1>10
  <2> QED
    BY <1>1, <1>8, <1>10, <2>1
<1> QED
  BY <1>7, <1>9, <1>10

LEMMA RollbackType == MinRollback \in Nat
BY RetentionAssumption

(* What ClassifyRetention chooses is a generation that was current before, *)
(* not among the newest, or one that its terminal record closed.           *)
LEMMA PlannedTargets ==
    ASSUME Control, RowsDescribed, Lineage, NEW g \in Eligible
    PROVE  /\ g \in DOMAIN gens
           /\ IF gens[g].wasActive THEN g \in markRetainedNewest(Before, MinRollback)
                                   ELSE Settled(gens[g])
<1> DEFINE r == [gen |-> g, row |-> gens[g]]
<1>1. g \in Candidates
  BY DEF Eligible
<1>2. CASE g \in markRetainedNewest(activeHistory, MinRollback)
  <2>1. g \in DOMAIN gens /\ gens[g].wasActive
    BY <1>2 DEF markRetainedNewest, activeHistory
  <2>2. activeHistory \subseteq Before
    <3> SUFFICES ASSUME NEW h \in activeHistory PROVE h \in Before
      OBVIOUS
    <3>1. [gen |-> h, row |-> gens[h]] \in Rows /\ gens[h].wasActive /\ h # current
      BY DEF activeHistory, Rows
    <3> QED
      BY <3>1 DEF Before, Active
  <2>3. Before \in SUBSET Nat /\ current \in Nat /\ \A h \in Before : h <= current
    BY RowTypes DEF Before, Control, GenTypes, Lineage, OneLineage
  <2>4. markRetainedNewest(activeHistory, MinRollback) \subseteq markRetainedNewest(Before, MinRollback)
    BY <2>2, <2>3, RetiresMore, RollbackType
  <2> QED
    BY <1>2, <2>1, <2>4
<1>3. CASE g \in markRetainedNewest(closedNeverActive, MaxClosed)
  <2>1. /\ g \in DOMAIN gens /\ ~gens[g].wasActive /\ gens[g].op \in Operations
        /\ terminal[gens[g].op] # None
    BY <1>3 DEF markRetainedNewest, closedNeverActive, Closed
  <2>2. r \in Rows
    BY <2>1 DEF Rows
  <2>3. gens[g].op # Earlier
    BY <2>1, RotationAssumption DEF Operations, Earlier
  <2>4. PICK j \in Journals : Describes(j, r)
    BY <2>2, <2>3 DEF RowsDescribed
  <2>5. Settled(gens[g])
    BY <2>1, <2>4 DEF Settled, Describes
  <2> QED
    BY <2>1, <2>5
<1> QED
  BY <1>1, <1>2, <1>3 DEF Candidates

LEMMA RetainedStep ==
    ASSUME Control, RowsDescribed, Lineage, PlanSound, RetainedKept, RowsMove
    PROVE  RetainedKept'
<1>1. current \in DOMAIN gens
  BY DEF Control, GenTypes
<1>2. CASE UNCHANGED <<gens, current, receipts>>
  BY <1>2, RowsSame DEF RetainedKept, Before, markRetainedNewest
<1>3. ASSUME NEW j \in Journals, StagedBy(j) PROVE RetainedKept'
  <2>1. Before' = Before /\ DOMAIN gens \subseteq DOMAIN gens'
    BY <1>3, RowsStaged, StagedTypes DEF Before, StagedBy
  <2> QED
    BY <2>1 DEF RetainedKept, markRetainedNewest
<1>4. ASSUME NEW j \in Journals, MovedBy(j) PROVE RetainedKept'
  <2>1. /\ Before' = Before \cup {current} /\ DOMAIN gens' = DOMAIN gens
        /\ Before' \in SUBSET Nat /\ current \in Nat /\ \A h \in Before' : h <= current
    <3>1. current' # current
      BY <1>4, MovedTypes DEF MovedBy, Control, GenTypes
    <3>2. RowsMove
      OBVIOUS
    <3> QED
      BY <3>1, HistoryStep
  <2>2. markRetainedNewest(Before, MinRollback) \subseteq markRetainedNewest(Before', MinRollback)
    BY <2>1, RetiresMore, RollbackType
  <2> QED
    BY <1>1, <2>1, <2>2 DEF RetainedKept, markRetainedNewest
<1>5. ASSUME NEW g, Deleted(g) PROVE RetainedKept'
  <2>1. /\ Before' = Before /\ DOMAIN gens' = DOMAIN gens \ {g} /\ g \in DOMAIN gens
    BY <1>5, RowsDeleted DEF Before, Deleted
  <2>2. /\ g \in plan.targets /\ plan.current = current /\ g \notin {r.gen : r \in receipts}
        /\ gens[g].wasActive = plan.inventory[g].row.wasActive
    BY <1>5 DEF Deleted, Deletable, PlanSound
  <2>3. CASE gens[g].wasActive
    <3>1. g \in markRetainedNewest(Before, MinRollback)
      BY <2>2, <2>3 DEF PlanSound, TargetOK
    <3> QED
      BY <2>1, <3>1 DEF RetainedKept, markRetainedNewest
  <2>4. CASE ~gens[g].wasActive
    <3>1. g \notin Before
      BY <2>2, <2>4 DEF Before, Active, Rows
    <3> QED
      BY <2>1, <3>1 DEF RetainedKept, markRetainedNewest
  <2> QED
    BY <2>3, <2>4
<1> QED
  BY <1>2, <1>3, <1>4, <1>5 DEF RowsMove

LEMMA SettledStays ==
    ASSUME Control, RecordsMove, Ratchet, NEW row, Settled(row)
    PROVE  Settled(row)'
<1>1. PICK j \in Journals :
        /\ journal[j].state \in Sealed /\ journal[j].op = row.op /\ journal[j].digest = row.content
        /\ terminal[row.op] # None
  BY DEF Settled
<1>2. journal[j].op \in Operations
  BY <1>1, OpOfJournal DEF Control, Sealed
<1>3. terminal'[row.op] # None
  BY <1>1, <1>2 DEF RecordsMove
<1>4. journal'[j].state \in Sealed /\ journal'[j].op = row.op /\ journal'[j].digest = row.content
  BY <1>1 DEF Ratchet, MayBecome
<1> QED
  BY <1>3, <1>4 DEF Settled

(* A plan stays sound as long as it is kept.                               *)
LEMMA OldPlanStep ==
    ASSUME Control, Lineage, PlanSound, RowsMove, RecordsMove, Ratchet,
           plan' = plan, pending' \subseteq plan.targets
    PROVE  PlanSound'
<1>1. /\ current \in Nat /\ current' \in Nat /\ current <= current'
      /\ (current' = current => Before' = Before)
  BY HistoryStep
<1>2. plan.current \in Nat /\ plan.current <= current'
  BY <1>1 DEF PlanSound
<1>3. ASSUME NEW g \in plan.targets PROVE TargetOK(g)'
  <2>1. TargetOK(g)
    BY DEF PlanSound
  <2>2. CASE plan.inventory[g].row.wasActive
    <3>1. plan.current = current' => g \in markRetainedNewest(Before', MinRollback)
      BY <1>1, <2>1, <2>2 DEF TargetOK, PlanSound
    <3> QED
      BY <2>1, <2>2, <3>1 DEF TargetOK, markRetainedNewest
  <2>3. CASE ~plan.inventory[g].row.wasActive
    <3>1. PICK row : row = plan.inventory[g].row
      OBVIOUS
    <3>2. Settled(row)'
      BY <2>1, <2>3, <3>1, SettledStays DEF TargetOK
    <3> QED
      BY <2>1, <2>3, <3>1, <3>2 DEF TargetOK, Settled
  <2> QED
    BY <2>2, <2>3
<1> QED
  BY <1>2, <1>3 DEF PlanSound

LEMMA NewPlanStep ==
    ASSUME Control, RowsDescribed, Lineage, PlanPurge
    PROVE  PlanSound'
<1>1. /\ UNCHANGED vars /\ pending = {} /\ pending' = {} /\ plan'.current = current
      /\ plan'.inventory = Inventory /\ plan'.targets = Eligible
  BY DEF PlanPurge
<1>2. current \in Nat /\ UNCHANGED <<journal, gens, current, receipts, terminal>>
  BY <1>1 DEF Control, GenTypes, vars, backend
<1>3. Before' = Before
  BY <1>2, RowsSame DEF Before
<1>4. ASSUME NEW g \in Eligible PROVE TargetOK(g)'
  <2>1. /\ g \in DOMAIN gens
        /\ IF gens[g].wasActive THEN g \in markRetainedNewest(Before, MinRollback)
                                ELSE Settled(gens[g])
    BY PlannedTargets
  <2>2. g \in Nat /\ g \in DOMAIN plan'.inventory /\ plan'.inventory[g].row = gens[g]
    BY <1>1, <2>1 DEF Inventory, Evidence, Control, GenTypes
  <2>3. CASE gens[g].wasActive
    BY <1>3, <2>1, <2>2, <2>3 DEF TargetOK, markRetainedNewest
  <2>4. CASE ~gens[g].wasActive
    <3>1. PICK row : row = gens[g]
      OBVIOUS
    <3>2. Settled(row)'
      BY <1>2, <2>1, <2>4, <3>1 DEF Settled
    <3> QED
      BY <2>2, <2>4, <3>1, <3>2 DEF TargetOK, Settled
  <2> QED
    BY <2>3, <2>4
<1> QED
  BY <1>1, <1>2, <1>4 DEF PlanSound

LEMMA PlanStep ==
    ASSUME Control, RowsDescribed, Lineage, PlanSound, PurgeNext, RowsMove, RecordsMove, Ratchet
    PROVE  PlanSound'
<1>1. CASE Next /\ UNCHANGED purgeVars
  <2>1. plan' = plan /\ pending' \subseteq plan.targets
    BY <1>1 DEF purgeVars, PlanSound
  <2> QED
    BY <2>1, OldPlanStep
<1>2. CASE PlanPurge
  BY <1>2, NewPlanStep
<1>3. CASE ApplyPurge
  <2>1. plan' = plan /\ pending' \subseteq plan.targets
    BY <1>3 DEF ApplyPurge
  <2> QED
    BY <2>1, OldPlanStep
<1>4. CASE PurgeGeneration
  <2>1. pending \subseteq Nat /\ pending \subseteq plan.targets
    BY DEF PlanSound, TargetOK
  <2>2. plan' = plan /\ pending' \subseteq plan.targets
    BY <1>4, <2>1, PurgeEffect
  <2> QED
    BY <2>2, OldPlanStep
<1> QED
  BY <1>1, <1>2, <1>3, <1>4 DEF PurgeNext

(***************************************************************************)
(* The invariant and what follows from it.                                 *)
(***************************************************************************)
LEMMA InitIInv == PurgeInit => IInv
<1> SUFFICES ASSUME PurgeInit PROVE IInv
  OBVIOUS
<1>1. PICK left \in 0..MaxOutstanding : gens = [g \in 1..(1 + left) |->
         [op |-> Earlier, source |-> 0, content |-> 0, wasActive |-> g = 1]]
  BY DEF PurgeInit, Init
<1>2. /\ DOMAIN gens = 1..(1 + left) /\ left \in Nat /\ current = 1 /\ receipts = {}
      /\ gens[1].wasActive
      /\ \A g \in DOMAIN gens : /\ gens[g] = [op |-> Earlier, source |-> 0, content |-> 0,
                                              wasActive |-> gens[g].wasActive]
                                /\ gens[g].wasActive \in BOOLEAN /\ gens[g].op = Earlier
                                /\ gens[g].wasActive => g = 1
  <2>1. DOMAIN gens = 1..(1 + left) /\ left \in Nat /\ current = 1 /\ receipts = {} /\ 1 \in DOMAIN gens
    BY <1>1, RotationAssumption DEF PurgeInit, Init
  <2>2. \A g \in DOMAIN gens : gens[g] = [op |-> Earlier, source |-> 0, content |-> 0,
                                          wasActive |-> g = 1]
    BY <1>1, <2>1
  <2>3. ASSUME NEW g \in DOMAIN gens PROVE gens[g].wasActive = (g = 1)
    <3> DEFINE row == [op |-> Earlier, source |-> 0, content |-> 0, wasActive |-> g = 1]
    <3>1. row.wasActive = (g = 1)
      BY Zenon
    <3>2. gens[g] = row
      BY <2>2, Zenon
    <3> HIDE DEF row
    <3> QED
      BY <3>1, <3>2, Zenon
  <2>4. \A g \in DOMAIN gens : gens[g].wasActive \in BOOLEAN
    BY <2>3, Zenon
  <2>5. \A g \in DOMAIN gens : gens[g].op = Earlier
    BY <2>2
  <2>6. \A g \in DOMAIN gens : gens[g].wasActive => g = 1
    BY <2>3, Zenon
  <2>7. gens[1].wasActive
    BY <2>1, <2>3, Zenon
  <2>8. \A g \in DOMAIN gens : gens[g] = [op |-> Earlier, source |-> 0, content |-> 0,
                                          wasActive |-> gens[g].wasActive]
    BY <2>2, <2>3, Zenon
  <2> QED
    BY <2>1, <2>4, <2>5, <2>6, <2>7, <2>8
<1>3. \A j \in Journals : journal[j] = NoJournal /\ step[j] = "idle"
  BY DEF PurgeInit, Init
<1>4. Types
  <2>1. NoJournal \in Journal
    BY RotationAssumption DEF NoJournal, Journal, States
  <2> QED
    BY <2>1, RotationAssumption DEF PurgeInit, Init, Types, Steps
<1>5. GenTypes
  <2>1. \A g \in DOMAIN gens : gens[g] \in Row
    BY <1>2 DEF Row
  <2>2. gens \in [DOMAIN gens -> Row]
    BY <1>1, <2>1
  <2> QED
    BY <1>2, <2>2 DEF GenTypes, Bounded
<1>6. Control
  BY <1>3, <1>4, <1>5 DEF Control, JournalOK, WellFormed, StepOK, Fits, Distinct, NoJournal, Sealed
<1>7. \A r \in Rows : r.row.op = Earlier /\ (r.row.wasActive => r.gen = 1)
  BY <1>2 DEF Rows
<1>8. Active = {1}
  <2>1. [gen |-> 1, row |-> gens[1]] \in Rows /\ gens[1].wasActive
    BY <1>2 DEF Rows
  <2> QED
    BY <1>7, <2>1 DEF Active
<1>9. RowsDescribed /\ Lineage /\ AnnouncedBeforeMoved
  BY <1>2, <1>7, <1>8 DEF RowsDescribed, Lineage, OneLineage, CurrentWasActive, AnnouncedBeforeMoved
<1>10. Truthful /\ KeptOrPassed
  <2>1. \A o \in Operations : terminal[o] # "closed"
    BY RotationAssumption DEF PurgeInit, Init
  <2> QED
    BY <1>3, <2>1 DEF Truthful, KeptOrPassed, OnItsWay, NoJournal, Published, Resumable
<1>11. PlanSound
  BY <1>2 DEF PurgeInit, NoPlan, PlanSound
<1>12. RetainedKept
  BY <1>2, <1>8 DEF RetainedKept, Before
<1> QED
  BY <1>6, <1>9, <1>10, <1>11, <1>12 DEF IInv

LEMMA NextIInv == IInv /\ [PurgeNext]_allVars => IInv'
<1> SUFFICES ASSUME IInv, [PurgeNext]_allVars PROVE IInv'
  OBVIOUS
<1>1. /\ Control /\ RowsDescribed /\ Lineage /\ AnnouncedBeforeMoved /\ Truthful
      /\ KeptOrPassed /\ PlanSound /\ RetainedKept
  BY DEF IInv
<1>2. CASE PurgeNext
  <2>1. Control' /\ Ratchet
    BY <1>1, <1>2, PurgeNextControl
  <2>2. RowsMove /\ RecordsMove /\ StepsMove
    BY <1>1, <1>2, Effects
  <2>3. RowsDescribed' /\ Lineage' /\ AnnouncedBeforeMoved'
    BY <1>1, <2>1, <2>2, DescribedStep, LineageStep, AnnouncedStep
  <2>4. Truthful' /\ KeptOrPassed'
    BY <1>1, <2>1, <2>2, TruthStep, KeptStep DEF Lineage
  <2>5. PlanSound' /\ RetainedKept'
    BY <1>1, <1>2, <2>1, <2>2, PlanStep, RetainedStep
  <2> QED
    BY <2>1, <2>3, <2>4, <2>5 DEF IInv
<1>3. CASE UNCHANGED allVars
  <2>1. UNCHANGED <<journal, step, aged, lock, current, gens, terminal, receipts, runs, made,
                    faults, plan, pending>>
    BY <1>3 DEF allVars, vars, purgeVars, backend
  <2>2. Rows' = Rows /\ Active' = Active
    BY <2>1, RowsSame
  <2>3. Control'
    BY <1>1, <2>1 DEF Control, Types, GenTypes, Bounded, JournalOK, WellFormed, StepOK, Fits,
       Distinct, Own
  <2>4. RowsDescribed' /\ Lineage' /\ AnnouncedBeforeMoved'
    BY <1>1, <2>1, <2>2 DEF RowsDescribed, Describes, Lineage, OneLineage, CurrentWasActive,
       AnnouncedBeforeMoved
  <2>5. Truthful' /\ KeptOrPassed'
    BY <1>1, <2>1, <2>2 DEF Truthful, HasRow, KeptOrPassed, OnItsWay
  <2>6. PlanSound' /\ RetainedKept'
    BY <1>1, <2>1, <2>2 DEF PlanSound, TargetOK, Settled, RetainedKept, Before, markRetainedNewest
  <2> QED
    BY <2>3, <2>4, <2>5, <2>6 DEF IInv
<1> QED
  BY <1>2, <1>3

(* The inductive invariant holds in every behaviour of campaigns and       *)
(* purges, for any number of journals, batches, faults and any policy.     *)
THEOREM Invariance == PurgeSpec => []IInv
BY InitIInv, NextIInv, PTL DEF PurgeSpec, allVars

(* The generations that ever were current form one chain with the pointer  *)
(* at its end: coordinator.go and administrator.go, Activate.              *)
THEOREM OneLineageHolds == PurgeSpec => []OneLineage
<1>1. IInv => OneLineage
  BY DEF IInv, Lineage
<1> QED
  BY <1>1, Invariance, PTL

(* No pointer moves before a durable journal announced it with every DNS   *)
(* batch proved: coordinator.go, BeginActivation before Activate.          *)
THEOREM AnnouncedBeforeMovedHolds == PurgeSpec => []AnnouncedBeforeMoved
<1>1. IInv => AnnouncedBeforeMoved
  BY DEF IInv
<1> QED
  BY <1>1, Invariance, PTL

(* Journals past staging, activated journals and closing records all have  *)
(* the row they speak of: coordinator.go and terminal.go.                  *)
THEOREM JournalsTellTheTruthHolds == PurgeSpec => []JournalsTellTheTruth
<1>1. IInv => JournalsTellTheTruth
  BY DEF IInv, Truthful, HasRow, JournalsTellTheTruth, Published
<1> QED
  BY <1>1, Invariance, PTL

(* No purge removes the current generation, the candidate of a campaign    *)
(* that can go on, or one of the newest MinRollback that were current:     *)
(* retention.go, purge_plan.go, purge_execution.go and purge.go.           *)
THEOREM NothingNeededIsPurgedHolds == PurgeSpec => []NothingNeededIsPurged
<1>1. IInv => NothingNeededIsPurged
  <2> SUFFICES ASSUME IInv PROVE NothingNeededIsPurged
    OBVIOUS
  <2>1. current \in DOMAIN gens /\ current \in Nat
    BY DEF IInv, Control, GenTypes
  <2>2. ASSUME NEW j \in Journals, journal[j].state \in Resumable, verifyExpectedCurrent(j),
               terminal[journal[j].op] = None
        PROVE  /\ journal[j].candidate \in DOMAIN gens
               /\ gens[journal[j].candidate].op = journal[j].op
    <3>1. /\ journal[j] \in Journal /\ journal[j].state # "absent"
          /\ journal[j].source < journal[j].candidate
      BY <2>2 DEF IInv, Control, Types, JournalOK, WellFormed, Resumable
    <3>2. ~(journal[j].candidate < current)
      BY <2>1, <2>2, <3>1 DEF verifyExpectedCurrent, AtSource, Journal
    <3> QED
      BY <2>2, <3>2 DEF IInv, KeptOrPassed, OnItsWay
  <2>3. Before \ markRetainedNewest(Before, MinRollback) \subseteq DOMAIN gens
    BY DEF IInv, RetainedKept
  <2> QED
    BY <2>1, <2>2, <2>3 DEF NothingNeededIsPurged
<1> QED
  BY <1>1, Invariance, PTL

(* A durable journal is a ratchet: once its candidate is prepared neither  *)
(* operation, source, number nor content of it change, an announced        *)
(* activation stays announced with its proofs, and only the saves that     *)
(* follow a confirmed stage or closing record move it past them            *)
(* (journal.go, state.go).                                                 *)
THEOREM JournalIsARatchet == PurgeSpec => Ratchets
<1>1. IInv /\ [PurgeNext]_allVars => [Ratchet]_allVars
  BY PurgeNextControl DEF IInv
<1> QED
  BY <1>1, Invariance, PTL DEF PurgeSpec, allVars, Ratchets

==============================================================================
