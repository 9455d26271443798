---------------------------- MODULE RetentionPurge ----------------------------
(***************************************************************************)
(* Retention and purging of generations (`purge plan` and `purge apply`,   *)
(* datasourceadmin/retention.go, rotationadmin/purge_plan.go and           *)
(* purge_execution.go, datasource/postgresql/purge.go) composed with the   *)
(* rotation campaigns whose generations they remove.                       *)
(*                                                                         *)
(* The inventory is read twice and refused unless both readings agree, so  *)
(* it is one reading here.  Digests and commitments are the values they    *)
(* are made from; authority and policy do not change.  The one plan is the *)
(* one made last: an older one is stale, or the same.                      *)
(***************************************************************************)
EXTENDS RotationCampaign

CONSTANTS MaxTotal,     \* RetentionPolicy.MaxTotalGenerations
          MinRollback,  \* RetentionPolicy.MinActiveRollbackGenerations
          MaxClosed,    \* RetentionPolicy.MaxClosedNeverActiveGenerations
          MaxBatch      \* RetentionPolicy.MaxPurgeBatch

ASSUME RetentionAssumption ==
    /\ {MaxTotal, MaxBatch} \subseteq Nat \ {0}
    /\ {MinRollback, MaxClosed} \subseteq 0..MaxTotal

VARIABLES
    plan,       \* the protected plan artifact
    pending     \* targets the apply command has still to purge

purgeVars == <<plan, pending>>
NoPlan == [current |-> 0, inventory |-> << >>, targets |-> {}]

PurgeInit == Init /\ plan = NoPlan /\ pending = {}

(* Mutant of Closed: a candidate that is not current counts as closed.     *)
ClosedWithoutRecord(g) == TRUE

(* JoinTerminalRecovery: only the terminal record of the generation's own  *)
(* operation closes it.                                                    *)
Closed(g) == gens[g].op \in Operations /\ terminal[gens[g].op] # None

(* The recovery inventory: every row with its lifecycle.                   *)
Evidence(g) == [row |-> gens[g], closed |-> Closed(g)]
Inventory == [g \in DOMAIN gens |-> Evidence(g)]

(* ClassifyRetention: the newest of each class are retained, and of the    *)
(* others the lowest numbers go, up to the batch bound, while there are    *)
(* more generations than MaxTotal.  Everything else is never eligible.     *)
activeHistory     == {g \in DOMAIN gens : g # current /\ gens[g].wasActive}
closedNeverActive == {g \in DOMAIN gens : g # current /\ ~gens[g].wasActive /\ Closed(g)}
markRetainedNewest(S, keep) == {g \in S : Cardinality({h \in S : h > g}) >= keep}
Candidates == markRetainedNewest(activeHistory, MinRollback)
              \cup markRetainedNewest(closedNeverActive, MaxClosed)
Eligible == {g \in Candidates :
                LET before == Cardinality({h \in Candidates : h < g})
                IN  before < MaxBatch /\ before < Cardinality(DOMAIN gens) - MaxTotal}

PlanPurge ==
    /\ pending = {} /\ Eligible # {}
    /\ plan' = [current |-> current, inventory |-> Inventory, targets |-> Eligible]
    /\ UNCHANGED <<vars, pending>>

(* VerifyReadback: the pointer and the whole inventory are those of the    *)
(* plan.  A plan of which some targets are gone is refused.  One of which  *)
(* all are gone is refused as well: the inventory is completed with rows   *)
(* rebuilt from the targets, which carry neither operation nor source, so  *)
(* it differs from the plan's.  That the current row is complete and       *)
(* trusted is not modelled, so more plans pass here than in the code.      *)
Ready == plan.current = current /\ plan.inventory = Inventory

(* ExecutePurge reads a fresh inventory before the first target is purged. *)
ApplyPurge ==
    /\ pending = {} /\ plan # NoPlan /\ Ready
    /\ pending' = plan.targets
    /\ UNCHANGED <<vars, plan>>

(* purge_generation, one transaction per target: no campaign holds the     *)
(* lock, the pointer is where the plan saw it, the target is as planned,   *)
(* and its number has no receipt yet (the primary key of the receipts).    *)
Deletable(g) ==
    /\ lock = None /\ current = plan.current /\ g # current
    /\ g \in DOMAIN gens /\ g \notin {r.gen : r \in receipts}
    /\ gens[g].content = plan.inventory[g].row.content
    /\ gens[g].wasActive = plan.inventory[g].row.wasActive
Delete(g) ==
    /\ gens' = [h \in DOMAIN gens \ {g} |-> gens[h]]
    /\ receipts' = receipts \cup {[gen |-> g, row |-> gens[g]]}

(* PurgeExecutor.Purge: target after target, in order.  The first error    *)
(* ends the command, and whether its target is gone is then unknown.       *)
PurgeGeneration ==
    LET g == CHOOSE x \in pending : \A y \in pending : x <= y IN
    /\ pending # {}
    /\ \/ Deletable(g) /\ Delete(g) /\ pending' = pending \ {g} /\ UNCHANGED faults
       \/ ~Deletable(g) /\ pending' = {} /\ UNCHANGED <<gens, receipts, faults>>
       \/ /\ Fault /\ pending' = {}
          /\ UNCHANGED <<gens, receipts>> \/ (Deletable(g) /\ Delete(g))
    /\ UNCHANGED <<journal, step, aged, lock, current, terminal, runs, made, plan>>

PurgeNext == \/ Next /\ UNCHANGED purgeVars
             \/ PlanPurge \/ ApplyPurge \/ PurgeGeneration
PurgeSpec == PurgeInit /\ [][PurgeNext]_<<vars, purgeVars>>
FairPurgeSpec == PurgeSpec /\ Fairness

(* No purge, however old its plan and whatever ran between its steps,      *)
(* removes what is still needed: the current generation, the candidate of  *)
(* a campaign that has no terminal record and can go on (the pointer is at *)
(* its source, or at its announced candidate), and the newest MinRollback  *)
(* generations that were current before.                                   *)
Before == Active \ {current}
NothingNeededIsPurged ==
    /\ current \in DOMAIN gens
    /\ \A j \in Journals :
          /\ journal[j].state \in Resumable /\ verifyExpectedCurrent(j)
          /\ terminal[journal[j].op] = None
          =>  /\ journal[j].candidate \in DOMAIN gens
              /\ gens[journal[j].candidate].op = journal[j].op
    /\ Before \ markRetainedNewest(Before, MinRollback) \subseteq DOMAIN gens
==============================================================================
