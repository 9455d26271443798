--------------------------- MODULE DsnPropagation ---------------------------
(***************************************************************************)
(* Two-phase propagation of one received delivery-status notification,     *)
(* end to end: a delivering MTA that holds several copies of it, the       *)
(* adapter cmd/dkim2-dsn-propagator (one handler per LMTP transaction),    *)
(* the daemon's propagation coordinator with its process-local token       *)
(* ledger, the replay store, and the re-injection listener.                *)
(*                                                                         *)
(* The copies share one coordinate, so the store is one record; its calls  *)
(* are atomic here, with an answer that may be lost (PropagationStore is   *)
(* the contract the providers are shown to implement).  Lease and token    *)
(* lifetimes are counted down, so time itself needs no bound; MaxFaults    *)
(* bounds the failures of a behaviour.                                     *)
(***************************************************************************)
EXTENDS Integers, FiniteSets

CONSTANTS Copies,       \* queue entries of the notification at the MTA
          Slots,        \* LMTP connections of the adapter
          None,         \* "no slot"
          Lease,        \* dsn_propagation.pending_lease, in ticks
          TokenLife,    \* propagationTokenRetention: the lease plus a slack
          Persistent,   \* the store survives a daemon restart (redis), or not
          DiscardRejects,   \* the adapter's permanent-failure reply knob
          MaxFaults     \* bound: failures in one behaviour

ASSUME PropagationAssumption ==
    /\ Lease \in Nat \ {0}
    /\ TokenLife \in Nat /\ TokenLife >= Lease
    /\ Persistent \in BOOLEAN /\ DiscardRejects \in BOOLEAN
    /\ MaxFaults \in Nat
    /\ IsFiniteSet(Slots) /\ None \notin Slots

VARIABLES
    kind,       \* what an evaluation now makes of the notification
    queue, at,  \* the MTA: state of each copy, the slot that serves it
    pc, rep,    \* the adapter: step of each handler, the reply it will give
    dreq,       \* the daemon: the request of each handler it is working on
    resp,       \* the answer on its way to the handler
    life,       \* token ledger: life left in the token issued to the handler
    rec, left,  \* the store: the record, what is left of its lease
    holder,     \* history: the handler whose request took the record
    injected,   \* history: notifications the listener has accepted
    settled,    \* history: the coordinate has been committed
    excuses,    \* history: events that may let the coordinate be served again
    faults      \* failures still to come

mtaVars    == <<queue, at>>
daemonVars == <<dreq, life>>
storeVars  == <<rec, left, holder, settled>>
vars == <<kind, queue, at, pc, rep, dreq, resp, life, rec, left, holder,
          injected, settled, excuses, faults>>

Kinds == {"eligible", "reject", "discard", "unbuildable"}
Answers == {"none", "accept", "replayed", "reject", "discard", "tempfail",
            "committed", "unresolved", "error"}

TypeOK ==
    /\ kind \in Kinds
    /\ queue \in [Copies -> {"queued", "sent", "acked", "bounced"}]
    /\ at \in [Copies -> Slots \cup {None}]
    /\ pc \in [Slots -> {"free", "propagate", "send", "commit", "reply"}]
    /\ rep \in [Slots -> {"none", "250", "451", "550"}]
    /\ dreq \in [Slots -> {"none", "propagate", "granted", "commit"}]
    /\ resp \in [Slots -> Answers]
    /\ life \in [Slots -> 0..TokenLife]
    /\ rec \in {"absent", "pending", "committed"}
    /\ left \in 0..Lease
    /\ holder \in Slots \cup {None}
    /\ injected \in Nat /\ excuses \in Nat /\ settled \in BOOLEAN
    /\ faults \in 0..MaxFaults

Init == /\ kind \in Kinds
        /\ queue = [c \in Copies |-> "queued"] /\ at = [c \in Copies |-> None]
        /\ pc = [s \in Slots |-> "free"] /\ rep = [s \in Slots |-> "none"]
        /\ dreq = [s \in Slots |-> "none"] /\ resp = [s \in Slots |-> "none"]
        /\ life = [s \in Slots |-> 0]
        /\ rec = "absent" /\ left = 0 /\ holder = None
        /\ injected = 0 /\ settled = FALSE /\ excuses = 0
        /\ faults = MaxFaults

Fault == faults > 0 /\ faults' = faults - 1
Excuse(n) == excuses' = excuses + n

(***************************************************************************)
(* The delivering MTA (outside this repository): it delivers a queued      *)
(* copy, and keeps it until it reads a final reply.                        *)
(***************************************************************************)
Deliver(c, s) == /\ queue[c] = "queued"
                 /\ pc[s] = "free" /\ dreq[s] = "none"
                 /\ queue' = [queue EXCEPT ![c] = "sent"]
                 /\ at' = [at EXCEPT ![c] = s]
                 /\ pc' = [pc EXCEPT ![s] = "propagate"]
                 /\ rep' = [rep EXCEPT ![s] = "none"]
                 /\ dreq' = [dreq EXCEPT ![s] = "propagate"]
                 /\ resp' = [resp EXCEPT ![s] = "none"]
                 /\ life' = [life EXCEPT ![s] = 0]
                 /\ UNCHANGED <<kind, storeVars, injected, excuses, faults>>

Requeue(c) == /\ queue' = [queue EXCEPT ![c] = "queued"]
              /\ at' = [at EXCEPT ![c] = None]

(* The MTA stops waiting; the handler it waited for runs on.               *)
MTATimeout(c) == /\ queue[c] = "sent"
                 /\ Fault
                 /\ Requeue(c)
                 /\ UNCHANGED <<kind, pc, rep, dreq, resp, life, storeVars, injected, excuses>>

(***************************************************************************)
(* The adapter: propagationHandler.Handle and propagate.                   *)
(***************************************************************************)
Answer(s, code) == /\ pc' = [pc EXCEPT ![s] = "reply"]
                   /\ rep' = [rep EXCEPT ![s] = code]

(* rejectReply                                                             *)
rejectReply == IF DiscardRejects THEN "250" ELSE "550"

(* Mutant: the commit is sent before the notification is re-injected.      *)
HandleCommitsFirst(s) ==
    /\ pc[s] = "propagate" /\ resp[s] = "accept"
    /\ pc' = [pc EXCEPT ![s] = "commit"]
    /\ dreq' = [dreq EXCEPT ![s] = "commit"]
    /\ resp' = [resp EXCEPT ![s] = "none"]
    /\ UNCHANGED <<kind, mtaVars, rep, life, storeVars, injected, excuses, faults>>

(* Handle: what the handler does with the daemon's result.                 *)
Handle(s) ==
    /\ pc[s] = "propagate"
    /\ \/ /\ resp[s] = "accept"
          /\ pc' = [pc EXCEPT ![s] = "send"]
          /\ UNCHANGED rep
       \/ resp[s] \in {"replayed", "discard"} /\ Answer(s, "250")
       \/ resp[s] = "reject" /\ Answer(s, rejectReply)
       \/ resp[s] \in {"tempfail", "error"} /\ Answer(s, "451")
    /\ resp' = [resp EXCEPT ![s] = "none"]
    /\ UNCHANGED <<kind, mtaVars, daemonVars, storeVars, injected, excuses, faults>>

(* reinjector.Send returned nil: the listener accepted the notification    *)
(* and the adapter asks the daemon to commit.                              *)
SendAccepted(s) == /\ pc[s] = "send"
                   /\ injected' = injected + 1
                   /\ pc' = [pc EXCEPT ![s] = "commit"]
                   /\ dreq' = [dreq EXCEPT ![s] = "commit"]
                   /\ UNCHANGED <<kind, mtaVars, rep, resp, life, storeVars, excuses, faults>>

(* Send failed; the final reply may have been lost after acceptance.       *)
SendFailed(s) == /\ pc[s] = "send"
                 /\ Fault
                 /\ Answer(s, "451")
                 /\ \/ UNCHANGED <<injected, excuses>>
                    \/ injected' = injected + 1 /\ Excuse(1)
                 /\ UNCHANGED <<kind, mtaVars, dreq, resp, life, storeVars>>

(* Mutant: a failed commit is acknowledged, since the report was sent.     *)
ReadCommitLenient(s) ==
    /\ pc[s] = "commit" /\ resp[s] # "none"
    /\ Answer(s, "250") /\ UNCHANGED excuses
    /\ resp' = [resp EXCEPT ![s] = "none"]
    /\ UNCHANGED <<kind, mtaVars, daemonVars, storeVars, injected, faults>>

(* The rest of propagate: only a 200 from the commit is acknowledged.      *)
ReadCommit(s) ==
    /\ pc[s] = "commit"
    /\ \/ resp[s] = "committed" /\ Answer(s, "250") /\ UNCHANGED excuses
       \/ resp[s] \in {"unresolved", "error"} /\ Answer(s, "451") /\ Excuse(1)
    /\ resp' = [resp EXCEPT ![s] = "none"]
    /\ UNCHANGED <<kind, mtaVars, daemonVars, storeVars, injected, faults>>

(* request_timeout or commit_timeout: the daemon may still do the work.    *)
RequestTimeout(s) ==
    /\ pc[s] \in {"propagate", "commit"}
    /\ Fault
    /\ Answer(s, "451")
    /\ resp' = [resp EXCEPT ![s] = "none"]
    /\ Excuse(IF pc[s] = "commit" THEN 1 ELSE 0)
    /\ UNCHANGED <<kind, mtaVars, daemonVars, storeVars, injected>>

Server(s) == {c \in Copies : queue[c] = "sent" /\ at[c] = s}

(* The LMTP reply: read by the MTA if it still waits.                      *)
Reply(s) ==
    /\ pc[s] = "reply"
    /\ pc' = [pc EXCEPT ![s] = "free"]
    /\ queue' = [c \in Copies |-> IF c \notin Server(s) THEN queue[c]
                                  ELSE IF rep[s] = "250" THEN "acked"
                                  ELSE IF rep[s] = "550" THEN "bounced" ELSE "queued"]
    /\ at' = [c \in Copies |-> IF c \in Server(s) THEN None ELSE at[c]]
    /\ UNCHANGED <<kind, rep, daemonVars, resp, storeVars, injected, excuses, faults>>

(* The adapter dies: every connection drops, every copy goes back.         *)
AdapterCrash ==
    /\ Fault
    /\ Excuse(Cardinality({s \in Slots : pc[s] = "commit"}))
    /\ pc' = [s \in Slots |-> "free"]
    /\ rep' = [s \in Slots |-> "none"]
    /\ resp' = [s \in Slots |-> "none"]
    /\ queue' = [c \in Copies |-> IF queue[c] = "sent" THEN "queued" ELSE queue[c]]
    /\ at' = [c \in Copies |-> None]
    /\ UNCHANGED <<kind, daemonVars, storeVars, injected>>

(***************************************************************************)
(* The daemon: PropagationCoordinator.                                     *)
(***************************************************************************)
(* The answer reaches the handler if it still waits.                       *)
Respond(s, a) == /\ dreq' = [dreq EXCEPT ![s] = "none"]
                 /\ resp' = IF pc[s] \in {"propagate", "commit"}
                            THEN [resp EXCEPT ![s] = a] ELSE resp

(* Propagate up to the replay gate: the matrix rows that decide before it, *)
(* and every temporary failure on the way, the signing lease included.     *)
Classify(s) ==
    /\ dreq[s] = "propagate"
    /\ \/ kind \in {"reject", "discard"} /\ Respond(s, kind) /\ UNCHANGED faults
       \/ Fault /\ Respond(s, "tempfail")
    /\ UNCHANGED <<kind, mtaVars, pc, rep, life, storeVars, injected, excuses>>

(* Mutant: an unfinished reservation is served again at once.              *)
AvailableAlways == rec # "committed"

(* Mutant: an expired lease is never taken over.                           *)
AvailableOnce == rec = "absent"

(* The coordinate can be reserved.                                         *)
Available == rec = "absent" \/ (rec = "pending" /\ left = 0)

Reserve(s) == /\ Available
              /\ rec' = "pending" /\ left' = Lease /\ holder' = s
              /\ UNCHANGED settled

(* reserveAndSign: the replay gate.  An answer of the store may be lost    *)
(* after the reservation took effect.                                      *)
reserveAndSign(s) ==
    /\ dreq[s] = "propagate" /\ kind \in {"eligible", "unbuildable"}
    /\ \/ /\ Reserve(s)
          /\ \/ /\ dreq' = [dreq EXCEPT ![s] = "granted"]
                /\ UNCHANGED <<resp, faults>>
             \/ Fault /\ Respond(s, "tempfail")
       \/ /\ rec = "committed" /\ Respond(s, "replayed")
          /\ UNCHANGED <<storeVars, faults>>
       \/ /\ ~Available /\ rec = "pending" /\ Respond(s, "tempfail")
          /\ UNCHANGED <<storeVars, faults>>
    /\ UNCHANGED <<kind, mtaVars, pc, rep, life, injected, excuses>>

(* rebuildAndSign and sign: the notification is evaluated again, and found *)
(* no longer eligible (for now and for later evaluations; keys in the DNS  *)
(* have changed), or refused because it cannot be rebuilt, or it fails for *)
(* now, or it is signed and a token issued that resolves to the coordinate.*)
rebuildAndSign(s) ==
    /\ dreq[s] = "granted"
    /\ \/ /\ kind' \in {"reject", "discard"}
          /\ \/ UNCHANGED <<kind, faults>>
             \/ kind = "eligible" /\ Fault
          /\ Respond(s, kind') /\ UNCHANGED life
       \/ kind = "unbuildable" /\ Respond(s, "discard") /\ UNCHANGED <<kind, life, faults>>
       \/ Fault /\ Respond(s, "tempfail") /\ UNCHANGED <<kind, life>>
       \/ /\ kind = "eligible" /\ Respond(s, "accept")
          /\ life' = [life EXCEPT ![s] = TokenLife]
          /\ UNCHANGED <<kind, faults>>
    /\ UNCHANGED <<mtaVars, pc, rep, storeVars, injected, excuses>>

Settle == /\ rec' = "committed" /\ left' = 0
          /\ settled' = TRUE
          /\ UNCHANGED holder

(* CommitPropagation: an unresolvable token or an absent record is 409; a  *)
(* store error is 409 too, whether or not the write took effect.           *)
CommitPropagation(s) ==
    /\ dreq[s] = "commit"
    /\ \/ /\ life[s] = 0 \/ rec = "absent"
          /\ Respond(s, "unresolved")
          /\ UNCHANGED <<storeVars, faults>>
       \/ /\ life[s] > 0 /\ rec # "absent"
          /\ \/ Settle /\ Respond(s, "committed") /\ UNCHANGED faults
             \/ Fault /\ Settle /\ Respond(s, "unresolved")
             \/ Fault /\ Respond(s, "unresolved") /\ UNCHANGED storeVars
    /\ UNCHANGED <<kind, mtaVars, pc, rep, life, injected, excuses>>

(* The ledger is full of other coordinates' tokens: retainLocked evicts.   *)
EvictToken(s) == /\ life[s] > 0
                 /\ Fault
                 /\ life' = [life EXCEPT ![s] = 0]
                 /\ UNCHANGED <<kind, mtaVars, pc, rep, dreq, resp, storeVars, injected, excuses>>

(* The daemon restarts: the ledger is gone, requests fail, and a memory    *)
(* store forgets.                                                          *)
DaemonRestart ==
    /\ Fault
    /\ dreq' = [s \in Slots |-> "none"]
    /\ resp' = [s \in Slots |-> IF dreq[s] # "none" /\ pc[s] \in {"propagate", "commit"}
                                THEN "error" ELSE resp[s]]
    /\ life' = [s \in Slots |-> 0]
    /\ IF Persistent THEN UNCHANGED <<storeVars, excuses>>
       ELSE /\ rec' = "absent" /\ left' = 0 /\ holder' = None
            /\ UNCHANGED settled
            /\ Excuse(1)
    /\ UNCHANGED <<kind, mtaVars, pc, rep, injected>>

(***************************************************************************)
(* Time, and what changes outside.                                         *)
(***************************************************************************)
(* The attempt that holds the record has not come to its end.              *)
InProgress == /\ holder # None
              /\ \/ dreq[holder] = "granted"
                 \/ pc[holder] = "propagate" /\ resp[holder] = "accept"
                 \/ pc[holder] \in {"send", "commit"}

(* Time left, one tick later.                                              *)
Dec(n) == IF n > 0 THEN n - 1 ELSE 0

(* The retention of the record ends.  It is configured independently of    *)
(* the lease, so it may end while the lease runs.                          *)
Forget == /\ rec # "absent"
          /\ Fault
          /\ Excuse(IF rec = "committed" \/ (left > 0 /\ InProgress) THEN 1 ELSE 0)
          /\ rec' = "absent" /\ left' = 0 /\ holder' = None
          /\ UNCHANGED <<kind, mtaVars, pc, rep, dreq, resp, life, injected, settled>>

(* A lease that ends under a running attempt is a failure: the time-outs   *)
(* of the adapter are meant to keep it from happening.                     *)
Tick == /\ left > 0 \/ \E s \in Slots : life[s] > 0
        /\ left' = Dec(left)
        /\ life' = [s \in Slots |-> Dec(life[s])]
        /\ IF left = 1 /\ InProgress THEN Fault /\ Excuse(1)
           ELSE UNCHANGED <<faults, excuses>>
        /\ UNCHANGED <<kind, mtaVars, pc, rep, dreq, resp, rec, holder, injected, settled>>

DaemonStep(s) == Classify(s) \/ reserveAndSign(s) \/ rebuildAndSign(s) \/ CommitPropagation(s)
AdapterStep(s) == Handle(s) \/ SendAccepted(s) \/ ReadCommit(s) \/ Reply(s)

Next == \/ \E c \in Copies, s \in Slots : Deliver(c, s)
        \/ \E c \in Copies : MTATimeout(c)
        \/ \E s \in Slots : DaemonStep(s) \/ AdapterStep(s)
        \/ \E s \in Slots : SendFailed(s) \/ RequestTimeout(s) \/ EvictToken(s)
        \/ AdapterCrash \/ DaemonRestart \/ Forget
        \/ Tick

Spec == Init /\ [][Next]_vars

(* The MTA keeps retrying each copy, handlers and requests run, time goes  *)
(* on.  A copy competes with the others for the connections, so its        *)
(* delivery needs strong fairness.                                         *)
FairSpec == /\ Spec
            /\ \A c \in Copies : SF_vars(\E s \in Slots : Deliver(c, s))
            /\ \A s \in Slots : WF_vars(DaemonStep(s)) /\ WF_vars(AdapterStep(s))
            /\ WF_vars(Tick)

(***************************************************************************)
(* Properties.                                                             *)
(***************************************************************************)
(* SettledMeansInjected: a coordinate is committed only when the listener  *)
(* has accepted a propagated notification, so "replayed" is never the      *)
(* answer for a notification nobody ever received, whatever crashes,       *)
(* restarts and late requests happen in between.                           *)
SettledMeansInjected == settled => injected > 0

(* AckedMeansSettled: the adapter answers 250 for an eligible notification *)
(* only after a commit took effect: the MTA never drops the last copy of a *)
(* notification that was not propagated and recorded.                      *)
AckedMeansSettled ==
    kind = "eligible" => \A c \in Copies : queue[c] = "acked" => settled

(* DuplicatesAreExcused: copies of one notification, delivered at once or  *)
(* one after the other, are re-injected once.  Each further re-injection   *)
(* is paid for by a lost reply, a failed commit, a crash between           *)
(* re-injection and commit, a lease that ended under a running attempt, or *)
(* a record the store lost.                                                *)
DuplicatesAreExcused == injected <= 1 + excuses

(* EveryCopySettles: once failures stop, every copy leaves the queue; no   *)
(* burnt lease, lost token or unfinished attempt blocks the coordinate for *)
(* ever.                                                                   *)
EveryCopySettles == \A c \in Copies : <>(queue[c] \in {"acked", "bounced"})
=============================================================================
