-------------------------- MODULE PropagationStore --------------------------
(***************************************************************************)
(* What a replay store promises for ONE delivery-status propagation        *)
(* coordinate: the contract of interface PropagationStore in               *)
(* internal/replay/propagation.go.  A coordinate is absent, pending under  *)
(* a lease, or committed.  A reservation call may take the record when it  *)
(* is absent or when its lease has run out; a commit call settles a        *)
(* pending record for the rest of its retention.  The effect of a call and *)
(* the answer to it are separate steps: a provider that retries over a     *)
(* network may apply a write whose answer is lost.                         *)
(*                                                                         *)
(* Time is a tick counter.  A caller's wall clock runs at most MaxSkew     *)
(* ticks ahead of the clock of this specification.                         *)
(***************************************************************************)
EXTENDS Integers

CONSTANTS Reserves,     \* calls of ReservePropagation
          Commits,      \* calls of CommitPropagation
          NoCall,       \* "held by no call"
          Lease,        \* ReplayLease
          Retention,    \* ReplayRetention
          MaxSkew,      \* how far a caller's wall clock may run ahead
          MaxClock      \* bound: the clock stops here

Calls == Reserves \cup Commits

ASSUME CallsAssumption == /\ Reserves \cap Commits = {}
                          /\ NoCall \notin Calls
ASSUME TimeAssumption  == /\ Lease \in Nat \ {0}
                          /\ Retention \in Nat \ {0}
                          /\ MaxSkew \in Nat
                          /\ MaxClock \in Nat

VARIABLES clock,    \* true time
          rec,      \* the stored record
          ttl,      \* instant at which the retention of the record ends
          grants,   \* reservation calls whose value the record has held
          stamp,    \* stamp[c]: lease expiry of the value c writes (0: none)
          settled,  \* the coordinate has been committed at least once
          answer    \* answer[c]: what c returned to its caller

storeVars == <<clock, rec, ttl, grants, stamp, settled, answer>>

(***************************************************************************)
(* Stored values: the closed grammar "committed" / "pending:<expiry>:<id>".*)
(***************************************************************************)
Absent       == [st |-> "absent", by |-> NoCall, exp |-> 0]
Committed    == [st |-> "committed", by |-> NoCall, exp |-> 0]
Pending(c,e) == [st |-> "pending", by |-> c, exp |-> e]
Values == [st : {"absent", "pending", "committed"},
           by : Reserves \cup {NoCall}, exp : Nat]

Answers == {"none", "reserved", "pending", "committed", "unresolved", "error"}

StoreTypeOK == /\ clock \in Nat
               /\ rec \in Values
               /\ ttl \in Nat
               /\ grants \subseteq Reserves
               /\ stamp \in [Reserves -> Nat]
               /\ settled \in BOOLEAN
               /\ answer \in [Calls -> Answers]

Init == /\ clock = 0
        /\ rec = Absent
        /\ ttl = 0
        /\ grants = {}
        /\ stamp = [c \in Reserves |-> 0]
        /\ settled = FALSE
        /\ answer = [c \in Calls |-> "none"]

(* The caller stamps the lease it asks for with its own wall clock.        *)
Stamp(c) == /\ stamp[c] = 0
            /\ answer[c] = "none"
            /\ \E s \in 0..MaxSkew :
                  stamp' = [stamp EXCEPT ![c] = clock + s + Lease]
            /\ UNCHANGED <<clock, rec, ttl, grants, settled, answer>>

(* The record is absent or its retention is over, or its lease is over on  *)
(* some caller's clock.                                                    *)
Free == \/ rec.st = "absent"
        \/ ttl <= clock
        \/ rec.st = "pending" /\ rec.exp <= clock + MaxSkew

(* The call takes the record for a retention counted from an instant       *)
(* between the reading of its clock and now.                               *)
Take(c) == /\ stamp[c] > 0
           /\ Free
           /\ rec' = Pending(c, stamp[c])
           /\ ttl' \in 0..(clock + Retention)
           /\ stamp[c] - Lease - MaxSkew + Retention <= ttl'
           /\ grants' = grants \cup {c}
           /\ UNCHANGED <<clock, stamp, settled, answer>>

(* A commit moves a pending record, whoever holds it, and keeps its end.   *)
Settle == /\ rec.st = "pending"
          /\ rec' = Committed
          /\ settled' = TRUE
          /\ UNCHANGED <<clock, ttl, grants, stamp, answer>>

ReserveAnswer(c, a) ==
    /\ stamp[c] > 0
    /\ \/ a = "reserved" /\ c \in grants
       \/ a = "committed" /\ settled
       \/ a = "pending" /\ grants \ {c} # {}

CommitAnswer(a) == \/ a = "committed" /\ settled
                   \/ a = "unresolved"

Return(c) == /\ answer[c] = "none"
             /\ \E a \in Answers \ {"none"} :
                   /\ \/ a = "error"
                      \/ c \in Reserves /\ ReserveAnswer(c, a)
                      \/ c \in Commits /\ CommitAnswer(a)
                   /\ answer' = [answer EXCEPT ![c] = a]
             /\ UNCHANGED <<clock, rec, ttl, grants, stamp, settled>>

(* Time passes; a record whose retention has ended may go with it.         *)
Tick == /\ clock < MaxClock
        /\ clock' = clock + 1
        /\ \/ rec' = rec
           \/ ttl <= clock + 1 /\ rec' = Absent
        /\ UNCHANGED <<ttl, grants, stamp, settled, answer>>

(* A record whose retention has ended may go at any later time.            *)
Expire == /\ ttl <= clock
          /\ rec' = Absent
          /\ UNCHANGED <<clock, ttl, grants, stamp, settled, answer>>

Next == \/ Tick
        \/ Expire
        \/ Settle
        \/ \E c \in Reserves : Stamp(c) \/ Take(c)
        \/ \E c \in Calls : Return(c)

Spec == Init /\ [][Next]_storeVars

(***************************************************************************)
(* Properties.                                                             *)
(***************************************************************************)
(* How long a reservation can be kept from others: lease and retention are *)
(* configured independently, and the record is gone when either has ended. *)
Term == IF Lease <= Retention THEN Lease ELSE Retention

(* A granted reservation whose term still runs on every clock; it counts   *)
(* from the reading of the caller's clock.                                 *)
Live(c) == c \in grants /\ clock + MaxSkew < (stamp[c] - Lease) + Term

(* ExclusiveLease: "another attempt holds a live lease" is honoured.  As   *)
(* long as the term of the lease a call was granted runs on every clock,   *)
(* the record is that call's or it is committed: no other attempt was      *)
(* granted the coordinate, and retention has not dropped it                *)
(* (PropagationPending, internal/replay/propagation.go).  A retention      *)
(* shorter than the lease cuts the term, and nothing more.                 *)
ExclusiveLease == \A c \in Reserves :
                     Live(c) => rec.by = c \/ rec.st = "committed"

(* CommittedIsFinal: once committed the record changes only when its       *)
(* retention ends; no reservation and no retried write re-opens it.        *)
CommittedIsFinal ==
    [][rec.st = "committed" => rec' = rec \/ clock' >= ttl]_storeVars
=============================================================================
