-------------------------- MODULE RedisPropagation --------------------------
(***************************************************************************)
(* The Redis provider's two propagation operations on one coordinate       *)
(* (cmd/dkim2d/internal/replay/redisstore), as calls of several daemon     *)
(* instances sharing one server.  A reservation is at most two writes, SET *)
(* NX GET PX and, over an expired foreign lease, a compare-and-set script; *)
(* a commit is SET XX GET KEEPTTL.  Every write is one message to the      *)
(* server.  go-redis retries a write with identical bytes when its reply   *)
(* does not come, so a message may be lost, may execute although its reply *)
(* is lost, and may execute after the call that sent it has returned.      *)
(*                                                                         *)
(* Admission, closing and the recovery facts a call publishes are state of *)
(* the instance that no step below reads; RedisStoreLifecycle models them. *)
(***************************************************************************)
EXTENDS PropagationStore

CONSTANT MaxSends       \* bound: writes one call puts on the wire

ASSUME SendsAssumption == MaxSends \in Nat \ {0}

VARIABLES pc,       \* pc[c]: "idle", the command it waits for, or "done"
          sends,    \* sends[c]: writes sent so far
          seen,     \* seen[c]: the value the takeover expects to replace
          wire,     \* writes sent and not yet executed or lost
          reply     \* reply[c]: reply to the newest write of c, NoReply if none

redisVars == <<pc, sends, seen, wire, reply>>
vars == <<clock, rec, ttl, grants, stamp, settled, answer,
          pc, sends, seen, wire, reply>>

Cmds  == {"insert", "takeover", "commit"}
Write(c, cmd) == [call |-> c, cmd |-> cmd, n |-> sends[c] + 1]
Writes  == [call : Calls, cmd : Cmds, n : Nat]
NoReply == [st |-> "none", by |-> NoCall, exp |-> 0]

TypeOK == /\ StoreTypeOK
          /\ pc \in [Calls -> Cmds \cup {"idle", "done"}]
          /\ sends \in [Calls -> Nat]
          /\ seen \in [Reserves -> Values]
          /\ wire \subseteq Writes
          /\ reply \in [Calls -> Values \cup {NoReply}]

RInit == /\ Init
         /\ pc = [c \in Calls |-> "idle"]
         /\ sends = [c \in Calls |-> 0]
         /\ seen = [c \in Reserves |-> Absent]
         /\ wire = {}
         /\ reply = [c \in Calls |-> NoReply]

(* The nonce makes the value of a call its own.                            *)
Own(c) == Pending(c, stamp[c])

(* dispatch: put one pinned write on the wire and wait for its reply.      *)
Dispatch(c, cmd) == /\ pc' = [pc EXCEPT ![c] = cmd]
                    /\ wire' = wire \cup {Write(c, cmd)}
                    /\ sends' = [sends EXCEPT ![c] = @ + 1]
                    /\ reply' = [reply EXCEPT ![c] = NoReply]

(* The call returns a.                                                     *)
Finish(c, a) == /\ pc' = [pc EXCEPT ![c] = "done"]
                /\ answer' = [answer EXCEPT ![c] = a]
                /\ reply' = [reply EXCEPT ![c] = NoReply]
                /\ UNCHANGED <<wire, sends, seen>>

(* Preflight, lifecycle, nonce or admission refuses before any write.      *)
Refuse(c) == /\ pc[c] = "idle"
             /\ Finish(c, "error")
             /\ UNCHANGED <<clock, rec, ttl, grants, stamp, settled>>

(* ReservePropagation up to its first dispatch: the wall clock is read     *)
(* before the call waits for admission and before the write is sent.       *)
BeginReserve(c) == /\ pc[c] = "idle"
                   /\ \E s \in 0..MaxSkew :
                         stamp' = [stamp EXCEPT ![c] = clock + s + Lease]
                   /\ Dispatch(c, "insert")
                   /\ UNCHANGED <<clock, rec, ttl, grants, settled, answer, seen>>

(* CommitPropagation; its token comes from a reservation answered earlier. *)
BeginCommit(c) == /\ pc[c] = "idle"
                  /\ \E r \in Reserves : answer[r] = "reserved"
                  /\ Dispatch(c, "commit")
                  /\ UNCHANGED <<clock, rec, ttl, grants, stamp, settled, answer, seen>>

(* go-redis sends the same bytes again; the earlier write may still run.   *)
Retry(c) == /\ pc[c] \in Cmds
            /\ sends[c] < MaxSends
            /\ Dispatch(c, pc[c])
            /\ UNCHANGED <<clock, rec, ttl, grants, stamp, settled, answer, seen>>

(* The deadline passes or the retries are used up: indeterminate.          *)
GiveUp(c) == /\ pc[c] \in Cmds
             /\ Finish(c, "error")
             /\ UNCHANGED <<clock, rec, ttl, grants, stamp, settled>>

(***************************************************************************)
(* The server runs one write and returns the value it found; only the      *)
(* newest write of a waiting call still has a reader for that reply.       *)
(***************************************************************************)
ReplyWith(m) == /\ wire' = wire \ {m}
                /\ reply' = IF pc[m.call] = m.cmd /\ sends[m.call] = m.n
                            THEN [reply EXCEPT ![m.call] = rec] ELSE reply
                /\ UNCHANGED <<clock, stamp, answer, pc, sends, seen>>

(* The record now holds the value of c, for a full retention.              *)
StoreOwn(c) == /\ rec' = Own(c)
               /\ ttl' = clock + Retention
               /\ grants' = grants \cup {c}
               /\ UNCHANGED settled

(* SET key own NX GET PX                                                   *)
ExecInsert(m) == /\ m.cmd = "insert"
                 /\ \/ rec = Absent /\ StoreOwn(m.call)
                    \/ rec # Absent /\ UNCHANGED <<rec, ttl, grants, settled>>
                 /\ ReplyWith(m)

(* The compare-and-set script: replace exactly the value observed.         *)
ExecTakeover(m) == /\ m.cmd = "takeover"
                   /\ \/ rec = seen[m.call] /\ StoreOwn(m.call)
                      \/ rec # seen[m.call] /\ UNCHANGED <<rec, ttl, grants, settled>>
                   /\ ReplyWith(m)

(* SET key committed XX GET KEEPTTL                                        *)
ExecCommit(m) == /\ m.cmd = "commit"
                 /\ \/ rec # Absent /\ rec' = Committed /\ settled' = TRUE
                    \/ rec = Absent /\ UNCHANGED <<rec, settled>>
                 /\ UNCHANGED <<ttl, grants>>
                 /\ ReplyWith(m)

(* A write is lost, or refused by the server without effect.               *)
Lose(m) == /\ wire' = wire \ {m}
           /\ UNCHANGED <<clock, rec, ttl, grants, stamp, settled, answer,
                          pc, sends, seen, reply>>

(***************************************************************************)
(* The caller reads the reply v to its newest write.                       *)
(***************************************************************************)
(* Build and dispatch the takeover, unless preflight refuses it.           *)
Takeover(c, v) == \/ /\ Dispatch(c, "takeover")
                     /\ seen' = [seen EXCEPT ![c] = v]
                     /\ UNCHANGED answer
                  \/ Finish(c, "error")

(* Mutant: an expired foreign lease is answered without a takeover.        *)
ReadInsertNoTakeover(c, v) ==
    \/ v \in {Absent, Own(c)} /\ Finish(c, "reserved")
    \/ v = Committed /\ Finish(c, "committed")
    \/ /\ v.st = "pending" /\ v # Own(c)
       /\ \/ v.exp > stamp[c] - Lease /\ Finish(c, "pending")
          \/ v.exp <= stamp[c] - Lease /\ Finish(c, "reserved")

(* Mutant: the observed lease is compared with the caller's own expiry.    *)
ReadInsertWrongClock(c, v) ==
    \/ v \in {Absent, Own(c)} /\ Finish(c, "reserved")
    \/ v = Committed /\ Finish(c, "committed")
    \/ /\ v.st = "pending" /\ v # Own(c)
       /\ \/ v.exp > stamp[c] /\ Finish(c, "pending")
          \/ v.exp <= stamp[c] /\ Takeover(c, v)

(* The rest of ReservePropagation after its first reply; the wall clock is *)
(* the one the call read when it stamped its own value.                    *)
ReadInsert(c, v) ==
    \/ v \in {Absent, Own(c)} /\ Finish(c, "reserved")
    \/ v = Committed /\ Finish(c, "committed")
    \/ /\ v.st = "pending" /\ v # Own(c)
       /\ \/ v.exp > stamp[c] - Lease /\ Finish(c, "pending")
          \/ v.exp <= stamp[c] - Lease /\ Takeover(c, v)

(* mapTakeover: nil means the record expired between the two writes.       *)
mapTakeover(c, v) ==
    \/ v = Absent /\ Finish(c, "error")
    \/ v \in {seen[c], Own(c)} /\ Finish(c, "reserved")
    \/ v = Committed /\ Finish(c, "committed")
    \/ v.st = "pending" /\ v \notin {seen[c], Own(c)} /\ Finish(c, "pending")

(* The rest of CommitPropagation.                                          *)
ReadCommit(c, v) == Finish(c, IF v = Absent THEN "unresolved" ELSE "committed")

Deliver(c) ==
    /\ reply[c] # NoReply
    /\ \/ pc[c] = "insert" /\ ReadInsert(c, reply[c])
       \/ pc[c] = "takeover" /\ mapTakeover(c, reply[c])
       \/ pc[c] = "commit" /\ ReadCommit(c, reply[c])
    /\ UNCHANGED <<clock, rec, ttl, grants, stamp, settled>>

(* The server drops the record the instant its time to live ends.          *)
RTick == /\ Tick
         /\ (ttl <= clock + 1) => rec' = Absent
         /\ UNCHANGED redisVars

RNext == \/ RTick
         \/ \E c \in Reserves : BeginReserve(c)
         \/ \E c \in Commits : BeginCommit(c)
         \/ \E c \in Calls : Refuse(c) \/ Retry(c) \/ GiveUp(c) \/ Deliver(c)
         \/ \E m \in wire : ExecInsert(m) \/ ExecTakeover(m) \/ ExecCommit(m) \/ Lose(m)

RSpec == RInit /\ [][RNext]_vars

(***************************************************************************)
(* Properties.                                                             *)
(***************************************************************************)
(* Contract: the provider implements the storage contract; every write the *)
(* server executes, late and repeated ones included, and every answer a    *)
(* call returns is a step the contract allows.                             *)
Contract == Spec

(* TakeoverOverExpired: a compare-and-set still on the wire, however late  *)
(* it runs, can only replace a foreign value whose lease was over when its *)
(* sender read the clock; it cannot cut a running lease short and cannot   *)
(* replace a committed record (first.previous in ReservePropagation).      *)
TakeoverOverExpired ==
    \A m \in wire : m.cmd = "takeover" =>
        LET v == seen[m.call] IN
        v.st = "pending" /\ v.by # m.call /\ v.exp <= stamp[m.call] - Lease
=============================================================================
