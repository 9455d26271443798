--------------------------- MODULE RotationCampaign ---------------------------
(***************************************************************************)
(* Key rotation campaigns of the daemon (rotationadmin, rotationruntime)   *)
(* over a PostgreSQL datasource: commands `run`, `emergency` and `abort`,  *)
(* each on a protected journal file, the administration lock, the staged   *)
(* generations, the current pointer and the terminal records.  Generations *)
(* are removed, and receipts written, by RetentionPurge only.              *)
(*                                                                         *)
(* A journal file is held by one command at a time (its sibling lock), so  *)
(* a process is named by its journal.  The journal in memory differs from  *)
(* the durable one only between a transition and its save; the step of the *)
(* process says which transition that is.  A backend call is one           *)
(* serializable transaction; a fault lets it take effect or not and        *)
(* reports an error.  Observing and claiming the lock are one step: a      *)
(* revision that changed in between is one more way for the claim to fail. *)
(* The content of a candidate is the number of the key generation that     *)
(* made it.                                                                *)
(***************************************************************************)
EXTENDS Integers, FiniteSets

CONSTANTS Journals,         \* journal files, one campaign each
          None,
          Batches,          \* DNS batches of a candidate
          MaxOutstanding,   \* GenerationLimits.MaxOutstandingCandidates
          MaxRuns,          \* bound: runs of a journal that is not there yet
          MaxFaults         \* bound: crashes and failed calls

ASSUME RotationAssumption ==
    /\ IsFiniteSet(Journals) /\ None \notin Journals
    /\ None \notin {"closed", "aborted"} \cup (Journals \X (1..MaxRuns))
    /\ {Batches, MaxOutstanding, MaxRuns} \subseteq Nat \ {0} /\ MaxFaults \in Nat

VARIABLES
    journal,    \* the durable journals
    step,       \* what the process that holds the journal does next
    aged,       \* journals with a DNS proof older than maximumProofAge
    lock,       \* owner of the administration lock
    current,    \* the current pointer
    gens,       \* dataset_generations, by number
    terminal,   \* campaign_terminals
    receipts,   \* purge_audit_receipts, each with the row it stands for
    runs,       \* operations drawn for each journal
    made,       \* key generations
    faults      \* faults so far

backend == <<lock, current, gens, terminal, receipts>>
vars == <<journal, step, aged, backend, runs, made, faults>>

Operations == Journals \X (1..MaxRuns)
Earlier    == <<None, 1>>   \* the operation of an earlier campaign
NoJournal  == [state |-> "absent", op |-> None, source |-> 0, candidate |-> 0,
               digest |-> 0, batches |-> 0]
Resumable  == {"staged", "dns_in_progress", "dns_complete", "activating"}
Abortable  == Resumable \ {"activating"}
States     == Resumable \cup {"absent", "planned", "preparing", "prepared", "activated",
                              "aborted", "reconcile_required"}
Steps == {"idle", "plan", "prepare", "stage", "inspect", "save_staged", "verify", "prove",
          "activate", "close", "save_activated", "save_aborted", "reconcile", "release"}

TypeOK ==
    /\ \A j \in Journals :
          /\ journal[j].state \in States /\ journal[j].op \in Operations \cup {None}
          /\ journal[j].source <= current /\ journal[j].candidate \in Nat
          /\ journal[j].digest <= made /\ journal[j].batches \in 0..Batches
    /\ step \in [Journals -> Steps] /\ aged \subseteq Journals
    /\ lock \in Operations \cup {None} /\ current \in DOMAIN gens
    /\ runs \in [Journals -> 0..MaxRuns] /\ faults \in 0..MaxFaults
    /\ \A o \in Operations : terminal[o] \in {None, "closed", "aborted"}

(* Generation 1 is current; campaigns before these may have left           *)
(* candidates that were never activated.                                   *)
Init ==
    /\ journal = [j \in Journals |-> NoJournal] /\ step = [j \in Journals |-> "idle"]
    /\ aged = {} /\ lock = None /\ terminal = [o \in Operations |-> None]
    /\ \E left \in 0..MaxOutstanding : gens = [g \in 1..(1 + left) |->
          [op |-> Earlier, source |-> 0, content |-> 0, wasActive |-> g = 1]]
    /\ current = 1 /\ receipts = {}
    /\ runs = [j \in Journals |-> 0] /\ made = 0 /\ faults = 0

(* The operation a process works for: its journal's, else the one drawn by *)
(* this run.                                                               *)
Op(j) == IF journal[j] = NoJournal THEN <<j, runs[j]>> ELSE journal[j].op
Fault == faults < MaxFaults /\ faults' = faults + 1
Go(j, s) == step' = [step EXCEPT ![j] = s]

(* JournalStore.Save: the file is replaced; when that fails the command    *)
(* ends, and the file may hold either revision.                            *)
Save(j, next, s) ==
    \/ journal' = [journal EXCEPT ![j] = next] /\ Go(j, s) /\ UNCHANGED faults
    \/ /\ Fault /\ Go(j, "release")
       /\ journal' \in {journal, [journal EXCEPT ![j] = next]}

(***************************************************************************)
(* The administration lock.                                                *)
(***************************************************************************)
(* Run on no journal draws an operation and claims the lock for it; with a *)
(* journal, the lock is reclaimed for the journal's operation only.  A     *)
(* claim that fails leaves the process without a deferred release.         *)
Claimable(o) == lock \in {None, o}
Claim(j, o, s) ==
    /\ Claimable(o)
    /\ \/ lock' = o /\ Go(j, s) /\ UNCHANGED faults
       \/ lock' \in {lock, o} /\ Fault /\ UNCHANGED step
    /\ UNCHANGED <<journal, aged, current, gens, terminal, receipts, made>>

Run(j) ==
    /\ step[j] = "idle" /\ journal[j] = NoJournal /\ runs[j] < MaxRuns
    /\ runs' = [runs EXCEPT ![j] = @ + 1]
    /\ Claim(j, <<j, runs[j] + 1>>, "plan")

(* Mutant of MayResume: an announced activation is not taken up again.     *)
MayResumeUnannounced(j) == journal[j].state \in Abortable

MayResume(j) == journal[j].state \in Resumable
Resume(j) ==
    /\ step[j] = "idle" /\ MayResume(j)
    /\ Claim(j, journal[j].op, "verify") /\ UNCHANGED runs

Release(j) ==
    /\ step[j] = "release" /\ Go(j, "idle")
    /\ \/ lock' = (IF lock = Op(j) THEN None ELSE lock) /\ UNCHANGED faults
       \/ Fault /\ UNCHANGED lock
    /\ UNCHANGED <<journal, aged, current, gens, terminal, receipts, runs, made>>

(***************************************************************************)
(* A new campaign, up to the staged candidate.                             *)
(***************************************************************************)
(* AllocateGeneration, which takes the number after the highest that is    *)
(* there, ReadCurrent, Freeze, then the planned journal.                   *)
Outstanding == {g \in DOMAIN gens : g # current /\ ~gens[g].wasActive}
AllocateGeneration == 1 + CHOOSE g \in DOMAIN gens : \A h \in DOMAIN gens : h <= g
Plan(j) ==
    /\ step[j] = "plan"
    /\ IF Cardinality(Outstanding) >= MaxOutstanding
       THEN Go(j, "release") /\ UNCHANGED <<journal, faults>>
       ELSE Save(j, [NoJournal EXCEPT !.state = "planned", !.op = Op(j), !.source = current,
                                      !.candidate = AllocateGeneration], "prepare")
    /\ UNCHANGED <<aged, backend, runs, made>>

(* BeginPreparing is saved before a key is made, RecordPrepared after.     *)
BeginPreparing(j) ==
    /\ step[j] = "prepare" /\ journal[j].state = "planned"
    /\ Save(j, [journal[j] EXCEPT !.state = "preparing"], "prepare")
    /\ UNCHANGED <<aged, backend, runs, made>>

Prepare(j) ==
    /\ step[j] = "prepare" /\ journal[j].state = "preparing"
    /\ \/ made' = made + 1
          /\ Save(j, [journal[j] EXCEPT !.state = "prepared", !.digest = made + 1], "stage")
       \/ Fault /\ Go(j, "release") /\ UNCHANGED <<journal, made>>
    /\ UNCHANGED <<aged, backend, runs>>

(* Administrator.Stage writes and seals the candidate under the lock, at   *)
(* the number still to be allocated next.                                  *)
MayStage(j) == lock = Op(j) /\ journal[j].candidate = AllocateGeneration
Staged(j) == [g \in DOMAIN gens \cup {journal[j].candidate} |->
                 IF g \in DOMAIN gens THEN gens[g]
                 ELSE [op |-> Op(j), source |-> journal[j].source,
                       content |-> journal[j].digest, wasActive |-> FALSE]]

(* Mutant of Stage: a stage that fails is taken for one that was slow.     *)
StageAssumed(j) ==
    /\ step[j] = "stage"
    /\ \/ MayStage(j) /\ gens' = Staged(j) /\ Go(j, "inspect") /\ UNCHANGED faults
       \/ ~MayStage(j) /\ Go(j, "release") /\ UNCHANGED <<gens, faults>>
       \/ /\ Fault /\ Go(j, "save_staged")
          /\ gens' \in {gens} \cup (IF MayStage(j) THEN {Staged(j)} ELSE {})
    /\ UNCHANGED <<journal, aged, lock, current, terminal, receipts, runs, made>>

(* Publish calls Stage.  A failure is not written to the journal.          *)
Stage(j) ==
    /\ step[j] = "stage"
    /\ \/ MayStage(j) /\ gens' = Staged(j) /\ Go(j, "inspect") /\ UNCHANGED faults
       \/ ~MayStage(j) /\ Go(j, "release") /\ UNCHANGED <<gens, faults>>
       \/ /\ Fault /\ Go(j, "release")
          /\ gens' \in {gens} \cup (IF MayStage(j) THEN {Staged(j)} ELSE {})
    /\ UNCHANGED <<journal, aged, lock, current, terminal, receipts, runs, made>>

(* Mutant of AtSource: fences by order instead of equality.                *)
AtSourceOrLater(j) == current >= journal[j].source

(* Inspect and the comparison of the readback with the prepared candidate. *)
AtSource(j) == current = journal[j].source
Exact(j) == /\ journal[j].candidate \in DOMAIN gens
            /\ gens[journal[j].candidate].op = Op(j)
            /\ gens[journal[j].candidate].content = journal[j].digest
            /\ AtSource(j) \/ current = journal[j].candidate
Inspect(j) ==
    /\ step[j] = "inspect"
    /\ \/ Exact(j) /\ current # journal[j].candidate /\ Go(j, "save_staged") /\ UNCHANGED faults
       \/ Fault /\ Go(j, "release")
    /\ UNCHANGED <<journal, aged, backend, runs, made>>

RecordStaged(j) ==
    /\ step[j] = "save_staged"
    /\ Save(j, [journal[j] EXCEPT !.state = "staged"], "prove")
    /\ UNCHANGED <<aged, backend, runs, made>>

(***************************************************************************)
(* A resumed campaign.                                                     *)
(***************************************************************************)
(* verifyExpectedCurrent and RecoverStaged: current must be the source,    *)
(* or the candidate once activation was announced.                         *)
verifyExpectedCurrent(j) ==
    \/ AtSource(j)
    \/ journal[j].state = "activating" /\ current = journal[j].candidate
Verify(j) ==
    /\ step[j] = "verify"
    /\ \/ /\ verifyExpectedCurrent(j) /\ Exact(j)
          /\ Go(j, IF journal[j].state = "activating" THEN "activate" ELSE "prove")
          /\ UNCHANGED faults
       \/ ~(verifyExpectedCurrent(j) /\ Exact(j)) /\ Go(j, "reconcile") /\ UNCHANGED faults
       \/ Fault /\ Go(j, "reconcile")
    /\ UNCHANGED <<journal, aged, backend, runs, made>>

(***************************************************************************)
(* DNS proofs and activation.                                              *)
(***************************************************************************)
(* One batch: proved against DNS, recorded, saved.  DNS may not show it.   *)
RecordBatchProof(j) ==
    /\ step[j] = "prove" /\ journal[j].batches < Batches
    /\ \/ Save(j, [journal[j] EXCEPT !.batches = @ + 1,
                      !.state = IF journal[j].batches + 1 = Batches THEN "dns_complete"
                                ELSE "dns_in_progress"], "prove")
       \/ Go(j, "release") /\ UNCHANGED <<journal, faults>>
    /\ UNCHANGED <<aged, backend, runs, made>>

(* Time passes: a recorded proof exceeds maximumProofAge.  Receipts are    *)
(* never renewed.                                                          *)
ProofAges(j) ==
    /\ journal[j].batches > 0 /\ journal[j].state \in Resumable /\ j \notin aged
    /\ aged' = aged \cup {j}
    /\ UNCHANGED <<journal, step, backend, runs, made, faults>>

(* Mutant of BeginActivation: the announcement is left to the save after   *)
(* the activation.                                                         *)
BeginActivationUnsaved(j) ==
    /\ step[j] = "prove" /\ journal[j].batches = Batches
    /\ IF j \notin aged THEN Go(j, "activate") ELSE Go(j, "release")
    /\ UNCHANGED <<journal, faults, aged, backend, runs, made>>

(* BeginActivation: every proof is there and fresh, and the announcement   *)
(* is saved before the pointer can move.                                   *)
BeginActivation(j) ==
    /\ step[j] = "prove" /\ journal[j].batches = Batches
    /\ IF j \notin aged THEN Save(j, [journal[j] EXCEPT !.state = "activating"], "activate")
                        ELSE Go(j, "release") /\ UNCHANGED <<journal, faults>>
    /\ UNCHANGED <<aged, backend, runs, made>>

(* Activate: RehydratePublished found the pointer moved already, or the    *)
(* backend moves it under the lock, from the expected current, to the      *)
(* exact candidate.  Any error leads to reconcile_required.  The code      *)
(* marks a row as once active when the pointer leaves it; marking it here  *)
(* when the pointer arrives is the same for every row that is not current, *)
(* and only those are asked (Outstanding, retention and purge).            *)
AlreadyMoved(j) == current = journal[j].candidate
Fenced(j) == lock = Op(j) /\ AtSource(j) /\ Exact(j)
Moved(j) == /\ current' = journal[j].candidate
            /\ gens' = [gens EXCEPT ![journal[j].candidate].wasActive = TRUE]
Activate(j) ==
    /\ step[j] = "activate"
    /\ IF AlreadyMoved(j)
       THEN Go(j, "close") /\ UNCHANGED <<current, gens, faults>>
       ELSE \/ Fenced(j) /\ Moved(j) /\ Go(j, "close") /\ UNCHANGED faults
            \/ ~Fenced(j) /\ Go(j, "reconcile") /\ UNCHANGED <<current, gens, faults>>
            \/ /\ Fault /\ Go(j, "reconcile")
               /\ UNCHANGED <<current, gens>> \/ (Fenced(j) /\ Moved(j))
    /\ UNCHANGED <<journal, aged, lock, terminal, receipts, runs, made>>

(* record_campaign_terminal inserts once per operation, under its lock and *)
(* with the pointer where the record says; RecordTerminal then succeeds if *)
(* the row it reads back is its own.                                       *)
Insertable(j, at) == /\ lock = Op(j) /\ current = at /\ terminal[Op(j)] = None
Record(j, outcome) == terminal' = [terminal EXCEPT ![Op(j)] = outcome]

(* Observe, then the closing record.  Its time is the journal's activation *)
(* time, so a record written by an earlier attempt is equal.               *)
RecordClosed(j) ==
    LET observed == /\ Exact(j) /\ current = journal[j].candidate
                    /\ journal[j].source \in DOMAIN gens
        ok == observed /\ (terminal[Op(j)] = "closed" \/ Insertable(j, journal[j].candidate))
    IN
    /\ step[j] = "close"
    /\ \/ ok /\ Record(j, "closed") /\ Go(j, "save_activated") /\ UNCHANGED faults
       \/ ~ok /\ Go(j, "reconcile") /\ UNCHANGED <<terminal, faults>>
       \/ /\ Fault /\ Go(j, "reconcile")
          /\ UNCHANGED terminal \/ (ok /\ Record(j, "closed"))
    /\ UNCHANGED <<journal, aged, lock, current, gens, receipts, runs, made>>

RecordActivated(j) ==
    /\ step[j] = "save_activated"
    /\ Save(j, [journal[j] EXCEPT !.state = "activated"], "release")
    /\ UNCHANGED <<aged, backend, runs, made>>

RequireReconciliation(j) ==
    /\ step[j] = "reconcile"
    /\ Save(j, [journal[j] EXCEPT !.state = "reconcile_required"], "release")
    /\ UNCHANGED <<aged, backend, runs, made>>

(***************************************************************************)
(* The abort command.  It claims no lock, so the record is accepted only   *)
(* while an earlier run has left the lock claimed.  Its time is the time   *)
(* of the call, which PostgreSQL keeps in microseconds: the row read back  *)
(* is equal only if the call's nanoseconds are a whole number of them, and *)
(* never equal to a row of an earlier call.                                *)
(***************************************************************************)
Abort(j) ==
    /\ step[j] = "idle" /\ journal[j].state \in Abortable /\ Exact(j)
    /\ Insertable(j, journal[j].source) /\ Record(j, "aborted")
    /\ \E wholeMicroseconds \in BOOLEAN :
          step' = [step EXCEPT ![j] = IF wholeMicroseconds THEN "save_aborted" ELSE "idle"]
    /\ UNCHANGED <<journal, aged, lock, current, gens, receipts, runs, made, faults>>

SaveAborted(j) ==
    /\ step[j] = "save_aborted"
    /\ Go(j, "idle")
    /\ LET next == [journal EXCEPT ![j].state = "aborted"]
       IN  \/ journal' = next /\ UNCHANGED faults
           \/ Fault /\ journal' \in {journal, next}
    /\ UNCHANGED <<aged, backend, runs, made>>

(* The process dies; the lock stays claimed.                               *)
Crash(j) ==
    /\ step[j] # "idle" /\ Fault /\ Go(j, "idle")
    /\ UNCHANGED <<journal, aged, backend, runs, made>>

Process(j) ==
    \/ Plan(j) \/ BeginPreparing(j) \/ Prepare(j) \/ Stage(j) \/ Inspect(j) \/ RecordStaged(j)
    \/ Verify(j) \/ RecordBatchProof(j) \/ BeginActivation(j) \/ Activate(j)
    \/ RecordClosed(j) \/ RecordActivated(j) \/ RequireReconciliation(j) \/ SaveAborted(j)
    \/ Release(j)

Next == \E j \in Journals : Process(j) \/ Run(j) \/ Resume(j) \/ Abort(j) \/ Crash(j) \/ ProofAges(j)

(* A command that was started goes on, and an operator who sees a campaign *)
(* in activating runs the command again.                                   *)
Fairness == \A j \in Journals :
    WF_vars(Process(j)) /\ WF_vars(journal[j].state = "activating" /\ Resume(j))
Spec == Init /\ [][Next]_vars
FairSpec == Spec /\ Fairness

(***************************************************************************)
(* Properties.                                                             *)
(***************************************************************************)
(* Every generation there is or was, with its number.                      *)
Rows == {[gen |-> g, row |-> gens[g]] : g \in DOMAIN gens} \cup receipts
Active == {r.gen : r \in {x \in Rows : x.row.wasActive}}
Announced == {"activating", "activated", "reconcile_required"}

(* "At most one concurrent activation wins": the generations that ever     *)
(* were current form one chain, each made from the one it replaced, and    *)
(* the pointer is at its end, whatever campaigns were left half done,      *)
(* resumed or purged (coordinator.go: Activate; administrator.go:          *)
(* Activate).                                                              *)
OneLineage ==
    /\ \A g \in Active : g <= current
    /\ \A r \in Rows : r.row.wasActive /\ r.gen # 1 =>
          /\ r.row.source \in Active /\ r.row.source < r.gen
          /\ \A h \in Active : h < r.gen => h <= r.row.source

(* A generation is never made current before a durable journal announces   *)
(* its activation with every DNS batch proved, so that whatever crash      *)
(* follows, the journal tells what to look for.                            *)
AnnouncedBeforeMoved ==
    \A r \in Rows : r.row.wasActive /\ r.gen # 1 => \E j \in Journals :
        /\ journal[j].op = r.row.op /\ journal[j].candidate = r.gen
        /\ journal[j].state \in Announced /\ journal[j].batches = Batches

(* A journal past staging names a generation that is there or has its      *)
(* receipt, staged by its operation with the content it committed to, even *)
(* when the number was given again after a purge; an activated one also    *)
(* has a closed terminal record, and such records exist only for           *)
(* generations that were current.                                          *)
JournalsTellTheTruth ==
    /\ \A j \in Journals : journal[j].state \in Resumable \cup {"activated", "aborted"} =>
          /\ \E r \in Rows : /\ r.gen = journal[j].candidate /\ r.row.op = journal[j].op
                             /\ r.row.content = journal[j].digest
          /\ journal[j].state = "activated" => terminal[journal[j].op] = "closed"
    /\ \A o \in Operations : terminal[o] = "closed" =>
          \E r \in Rows : r.row.op = o /\ r.row.wasActive

(* A campaign caught in activating is settled: when others leave the lock  *)
(* alone and the command is run again, it ends activated or in             *)
(* reconcile_required.                                                     *)
ActivatingSettles ==
    \A j \in Journals : (<>[](lock \in {None, journal[j].op})) =>
        (journal[j].state = "activating" ~> journal[j].state \in {"activated", "reconcile_required"})

==============================================================================
