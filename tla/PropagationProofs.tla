------------------------- MODULE PropagationProofs --------------------------
(***************************************************************************)
(* Proofs about the propagation coordinates: first the storage contract,   *)
(* then that the Redis provider implements it.                             *)
(*                                                                         *)
(* ExclusiveLease is not inductive: it needs to know that the record       *)
(* always carries the stamp of the call that was granted it, that no stamp *)
(* lies further ahead than one lease and one skew, and that the record     *)
(* covers the term of every lease: the lease itself, or the retention      *)
(* where that is configured shorter.                                       *)
(*                                                                         *)
(* The Redis provider implements the contract for any number of calls,     *)
(* retries and late executions; the contract's guarantees therefore hold   *)
(* of the provider.  Its inductive invariant says what a reply, once it is *)
(* on its way, still proves when it is read, and what a takeover may find, *)
(* however late it runs.                                                   *)
(***************************************************************************)
EXTENDS RedisPropagation, TLAPS

(* The record is absent, committed, or the value of a granted call.        *)
HeldByGrantee == rec \in {Absent, Committed} \cup
                         {Pending(c, stamp[c]) : c \in grants}

Stamped == \A c \in Reserves : /\ stamp[c] <= clock + MaxSkew + Lease
                               /\ c \in grants => stamp[c] > 0

(* A lease in its term has the record, and the record outlives the term.   *)
TermEnd(c) == (stamp[c] - Lease) + Term
Covered == \A c \in grants :
              clock + MaxSkew < TermEnd(c) =>
                 /\ rec \in {Pending(c, stamp[c]), Committed}
                 /\ TermEnd(c) <= ttl + MaxSkew

StoreInv == StoreTypeOK /\ HeldByGrantee /\ Stamped /\ Covered

(* Every constructor yields a value of the closed grammar.                 *)
LEMMA ValueTypes ==
  /\ Absent \in Values /\ Committed \in Values
  /\ \A c \in Reserves, e \in Nat : Pending(c, e) \in Values
BY DEF Absent, Committed, Pending, Values

(* StoreTypeInitStep: types hold at the start and survive every step.      *)
LEMMA StoreTypeInitStep ==
  /\ Init => StoreTypeOK
  /\ StoreTypeOK /\ [Next]_storeVars => StoreTypeOK'
<1>1. Init => StoreTypeOK
  <2> SUFFICES ASSUME Init PROVE StoreTypeOK
    OBVIOUS
  <2>1. settled \in BOOLEAN
    BY DEF Init
  <2>2. clock \in Nat /\ ttl \in Nat /\ rec \in Values /\ grants \subseteq Reserves
    BY ValueTypes DEF Init
  <2>3. stamp \in [Reserves -> Nat] /\ answer \in [Calls -> Answers]
    BY DEF Init, Answers
  <2>4. QED BY <2>1, <2>2, <2>3 DEF StoreTypeOK
<1>2. ASSUME StoreTypeOK, [Next]_storeVars PROVE StoreTypeOK'
  <2>1. CASE Tick
    BY <1>2, <2>1, ValueTypes DEF StoreTypeOK, Tick
  <2>2. CASE Settle \/ Expire
    BY <1>2, <2>2, ValueTypes DEF StoreTypeOK, Settle, Expire
  <2>3. ASSUME NEW c \in Reserves, Stamp(c) PROVE StoreTypeOK'
    BY <1>2, <2>3, TimeAssumption DEF StoreTypeOK, Stamp
  <2>4. ASSUME NEW c \in Reserves, Take(c) PROVE StoreTypeOK'
    BY <1>2, <2>4, ValueTypes, TimeAssumption DEF StoreTypeOK, Take
  <2>5. ASSUME NEW c \in Calls, Return(c) PROVE StoreTypeOK'
    BY <1>2, <2>5 DEF StoreTypeOK, Return
  <2>6. CASE UNCHANGED storeVars
    BY <1>2, <2>6 DEF StoreTypeOK, storeVars
  <2>7. QED BY <1>2, <2>1, <2>2, <2>3, <2>4, <2>5, <2>6 DEF Next
<1>3. QED BY <1>1, <1>2

(* The stored value tells its state, its holder and its expiry apart.      *)
LEMMA ValueFields ==
  /\ Absent.st = "absent" /\ Committed.st = "committed"
  /\ \A c, e : Pending(c, e).st = "pending" /\ Pending(c, e).by = c /\ Pending(c, e).exp = e
BY DEF Absent, Committed, Pending

(* The term is the shorter of the two durations.                           *)
LEMMA TermBounds == Term \in Nat /\ Term <= Lease /\ Term <= Retention
BY TimeAssumption DEF Term

(* StoreInvInit and StoreInvStep: the strengthened invariant is inductive. *)
LEMMA StoreInvInit == Init => StoreInv
<1>1. SUFFICES ASSUME Init PROVE HeldByGrantee /\ Stamped /\ Covered
  BY StoreTypeInitStep DEF StoreInv
<1>2. QED BY <1>1, TimeAssumption DEF Init, HeldByGrantee, Stamped, Covered

LEMMA StoreInvStep == ASSUME StoreInv, [Next]_storeVars PROVE StoreInv'
<1>0. StoreTypeOK'
  BY StoreTypeInitStep DEF StoreInv
<1> USE TimeAssumption, TermBounds DEF StoreInv, TermEnd
<1>1. CASE Tick
  <2>1. Stamped'
    BY <1>1 DEF Tick, Stamped, StoreTypeOK
  <2>2. HeldByGrantee'
    BY <1>1 DEF Tick, HeldByGrantee, StoreTypeOK
  <2>3. Covered'
    BY <1>1 DEF Tick, Covered, StoreTypeOK
  <2>4. QED BY <1>0, <2>1, <2>2, <2>3
<1>2. CASE Settle
  BY <1>0, <1>2 DEF Settle, HeldByGrantee, Stamped, Covered, StoreTypeOK
<1>2a. CASE Expire
  <2>1. \A c \in grants : ~(clock + MaxSkew < TermEnd(c))
    BY <1>2a DEF Expire, Covered, StoreTypeOK
  <2>2. QED BY <1>0, <1>2a, <2>1 DEF Expire, HeldByGrantee, Stamped, Covered
<1>3. ASSUME NEW c \in Reserves, Stamp(c) PROVE StoreInv'
  <2>1. c \notin grants
    BY <1>3 DEF Stamp, Stamped
  <2>2. /\ \A d \in Reserves \ {c} : stamp'[d] = stamp[d]
        /\ UNCHANGED <<clock, rec, ttl, grants>>
    BY <1>3 DEF Stamp, StoreTypeOK
  <2>3. \E s \in 0..MaxSkew : stamp'[c] = clock + s + Lease
    BY <1>3 DEF Stamp, StoreTypeOK
  <2>4. \A d \in grants : stamp'[d] = stamp[d]
    BY <2>1, <2>2 DEF StoreTypeOK
  <2>5. HeldByGrantee'
    BY <2>2, <2>4 DEF HeldByGrantee
  <2>6. Stamped'
    <3>1. ASSUME NEW d \in Reserves
          PROVE stamp'[d] <= clock + MaxSkew + Lease /\ (d \in grants => stamp'[d] > 0)
      <4>1. CASE d = c
        BY <2>1, <2>3, <4>1 DEF StoreTypeOK
      <4>2. CASE d # c
        BY <2>2, <4>2 DEF Stamped
      <4>3. QED BY <4>1, <4>2
    <3>2. QED BY <2>2, <3>1 DEF Stamped
  <2>7. Covered'
    BY <2>2, <2>4 DEF Covered
  <2>8. QED BY <1>0, <2>5, <2>6, <2>7
<1>4. ASSUME NEW c \in Reserves, Take(c) PROVE StoreInv'
  <2>1. /\ rec' = Pending(c, stamp[c]) /\ ttl' \in 0..(clock + Retention)
        /\ stamp[c] - Lease - MaxSkew + Retention <= ttl'
        /\ grants' = grants \cup {c} /\ stamp[c] > 0 /\ Free
        /\ UNCHANGED <<clock, stamp>>
    BY <1>4 DEF Take
  <2>2. HeldByGrantee'
    BY <2>1 DEF HeldByGrantee
  <2>3. Stamped'
    BY <2>1 DEF Stamped
  <2>4. ASSUME NEW d \in grants, d # c PROVE ~(clock + MaxSkew < TermEnd(d))
    <3>1. ttl <= clock \/ rec # Committed
      BY <2>1, ValueFields DEF Free
    <3>2. ttl <= clock \/ (rec = Pending(d, stamp[d]) => stamp[d] <= clock + MaxSkew)
      BY <2>1, ValueFields DEF Free
    <3>3. stamp[d] \in Nat /\ clock \in Nat /\ ttl \in Nat
      BY DEF StoreTypeOK
    <3>4. QED BY <3>1, <3>2, <3>3 DEF Covered
  <2>5. TermEnd(c) <= ttl' + MaxSkew
    BY <2>1 DEF StoreTypeOK
  <2>6. Covered'
    BY <2>1, <2>4, <2>5 DEF Covered
  <2>7. QED BY <1>0, <2>2, <2>3, <2>6
<1>5. ASSUME NEW c \in Calls, Return(c) PROVE StoreInv'
  BY <1>0, <1>5 DEF Return, HeldByGrantee, Stamped, Covered
<1>6. CASE UNCHANGED storeVars
  BY <1>0, <1>6 DEF storeVars, HeldByGrantee, Stamped, Covered
<1>7. QED BY <1>1, <1>2, <1>2a, <1>3, <1>4, <1>5, <1>6 DEF Next

(* StoreTypeCorrect: the contract keeps its types.                         *)
THEOREM StoreTypeCorrect == Spec => []StoreTypeOK
BY StoreTypeInitStep, PTL DEF Spec

(* LeaseIsExclusive: for any number of calls, any lease, any retention and *)
(* any clock skew, a lease in its term is never granted to a second        *)
(* attempt and never dropped (PropagationPending,                          *)
(* internal/replay/propagation.go).  A retention that is shorter than the  *)
(* lease shortens the term; the configuration admits that.                 *)
THEOREM LeaseIsExclusive == Spec => []ExclusiveLease
<1>1. StoreInv => ExclusiveLease
  BY ValueFields DEF StoreInv, Covered, TermEnd, ExclusiveLease, Live
<1>2. StoreInv /\ [Next]_storeVars => StoreInv'
  BY StoreInvStep
<1>3. QED BY <1>1, <1>2, StoreInvInit, PTL DEF Spec

(* CommitIsFinal: a committed record changes only when its retention ends, *)
(* whatever calls, retries and late writes do.                             *)
THEOREM CommitIsFinal == Spec => CommittedIsFinal
<1>1. ASSUME StoreTypeOK, [Next]_storeVars
      PROVE [rec.st = "committed" => rec' = rec \/ clock' >= ttl]_storeVars
  <2>1. CASE Tick
    BY <1>1, <2>1 DEF Tick, StoreTypeOK
  <2>2. CASE Settle \/ Expire
    BY <2>2 DEF Settle, Expire
  <2>3. ASSUME NEW c \in Reserves, Stamp(c) \/ Take(c)
        PROVE rec.st = "committed" => rec' = rec \/ clock' >= ttl
    BY <2>3 DEF Stamp, Take, Free
  <2>4. ASSUME NEW c \in Calls, Return(c) PROVE rec' = rec
    BY <2>4 DEF Return
  <2>5. QED BY <1>1, <2>1, <2>2, <2>3, <2>4 DEF Next
<1>2. QED BY <1>1, StoreTypeCorrect, PTL DEF Spec, CommittedIsFinal

-----------------------------------------------------------------------------
(* The Redis provider.                                                     *)

(* Where a call stands, against its stamp, its answer and its writes.      *)
CallState ==
  /\ \A c \in Calls : pc[c] # "done" => answer[c] = "none"
  /\ \A c \in Calls : /\ pc[c] \in {"insert", "takeover"} => c \in Reserves
                      /\ pc[c] = "commit" => c \in Commits
  /\ \A c \in Reserves : /\ pc[c] = "idle" => stamp[c] = 0
                         /\ pc[c] \in Cmds => stamp[c] > 0
  /\ \A m \in wire : /\ pc[m.call] # "idle"
                     /\ m.cmd \in {"insert", "takeover"} =>
                           m.call \in Reserves /\ stamp[m.call] > 0
                     /\ m.cmd = "takeover" => pc[m.call] \in {"takeover", "done"}

(* A value the server holds or has returned.                               *)
ValueOK(v) == v \in {Absent, Committed} \cup {Pending(d, stamp[d]) : d \in grants}

(* What a takeover expects: a foreign lease that is over.                  *)
Expects(c) == \E d \in grants : /\ d # c
                                /\ seen[c] = Pending(d, stamp[d])
                                /\ stamp[d] <= stamp[c] - Lease

SeenOK == /\ \A c \in Reserves : pc[c] = "takeover" => Expects(c)
          /\ \A m \in wire : m.cmd = "takeover" => Expects(m.call)

(* What the reply to the newest write proves.                              *)
ReplyOK == \A c \in Calls : reply[c] # NoReply =>
  /\ ValueOK(reply[c])
  /\ reply[c] = Committed => settled
  /\ pc[c] = "insert" /\ reply[c] = Absent => c \in grants
  /\ pc[c] = "takeover" /\ reply[c] = seen[c] => c \in grants
  /\ pc[c] = "commit" /\ reply[c] # Absent => settled

RedisInv == /\ TypeOK
            /\ CallState
            /\ ValueOK(rec)
            /\ Stamped
            /\ rec = Committed => settled
            /\ SeenOK
            /\ ReplyOK

LEMMA RedisInvInit == RInit => RedisInv
<1> SUFFICES ASSUME RInit PROVE RedisInv
  OBVIOUS
<1>1. StoreTypeOK
  BY StoreTypeInitStep DEF RInit
<1>2. TypeOK
  BY <1>1, ValueTypes DEF RInit, TypeOK, Writes
<1>3. CallState
  BY DEF RInit, Init, CallState, Cmds, Calls
<1>4. ValueOK(rec) /\ (rec = Committed => settled)
  BY ValueFields DEF RInit, Init, ValueOK
<1>5. Stamped
  BY StoreInvInit DEF RInit, StoreInv
<1>6. SeenOK /\ ReplyOK
  BY DEF RInit, SeenOK, ReplyOK, Calls
<1>7. QED BY <1>2, <1>3, <1>4, <1>5, <1>6 DEF RedisInv

(* NoReplyDiffers: no stored value looks like a missing reply.             *)
LEMMA NoReplyDiffers == \A v \in Values : v # NoReply
BY DEF Values, NoReply

(* DispatchTypes and FinishTypes: the two ways a call moves on.            *)
LEMMA DispatchTypes ==
  ASSUME TypeOK, NEW c \in Calls, NEW cmd \in Cmds, Dispatch(c, cmd)
  PROVE  /\ pc' \in [Calls -> Cmds \cup {"idle", "done"}]
         /\ sends' \in [Calls -> Nat]
         /\ wire' \subseteq Writes
         /\ reply' \in [Calls -> Values \cup {NoReply}]
BY DEF TypeOK, Dispatch, Write, Writes

LEMMA FinishTypes ==
  ASSUME TypeOK, NEW c \in Calls, NEW a \in Answers, Finish(c, a),
         UNCHANGED <<clock, rec, ttl, grants, stamp, settled>>
  PROVE  TypeOK'
BY DEF TypeOK, StoreTypeOK, Finish

(* FinishInv: returning an answer keeps every other fact.                  *)
LEMMA FinishInv ==
  ASSUME RedisInv, NEW c \in Calls, NEW a \in Answers, Finish(c, a),
         pc[c] # "idle" \/ c \in Commits \/ stamp[c] = 0,
         UNCHANGED <<clock, rec, ttl, grants, stamp, settled>>
  PROVE  RedisInv'
<1> USE DEF RedisInv
<1>1. TypeOK'
  BY FinishTypes
<1>2. /\ pc' = [pc EXCEPT ![c] = "done"] /\ reply' = [reply EXCEPT ![c] = NoReply]
      /\ answer' = [answer EXCEPT ![c] = a] /\ UNCHANGED <<wire, sends, seen>>
  BY DEF Finish
<1>3. \A d \in Calls : d # c => pc'[d] = pc[d] /\ reply'[d] = reply[d] /\ answer'[d] = answer[d]
  BY <1>2 DEF TypeOK, StoreTypeOK
<1>4. pc'[c] = "done" /\ reply'[c] = NoReply
  BY <1>2 DEF TypeOK
<1>5. CallState'
  BY <1>2, <1>3, <1>4 DEF CallState, Calls, Cmds, TypeOK, Writes
<1>6. ValueOK(rec)' /\ Stamped' /\ (rec = Committed => settled)'
  BY DEF ValueOK, Stamped
<1>7. SeenOK'
  BY <1>2, <1>3, <1>4 DEF SeenOK, Expects, Calls
<1>8. ReplyOK'
  BY <1>2, <1>3, <1>4 DEF ReplyOK, ValueOK
<1>9. QED BY <1>1, <1>5, <1>6, <1>7, <1>8

(* DispatchInv: repeating the command a call waits for keeps every fact.   *)
LEMMA DispatchInv ==
  ASSUME RedisInv, NEW c \in Calls, NEW cmd \in Cmds, Dispatch(c, cmd),
         answer[c] = "none",
         cmd \in {"insert", "takeover"} => c \in Reserves /\ stamp[c] > 0,
         cmd = "commit" => c \in Commits,
         cmd = "takeover" => Expects(c),
         \/ pc[c] = cmd
         \/ pc[c] = "idle" /\ cmd # "takeover"
            /\ \A m \in wire : m.call # c,
         UNCHANGED <<clock, rec, ttl, grants, stamp, settled, answer, seen>>
  PROVE  RedisInv'
<1> USE DEF RedisInv
<1>1. TypeOK'
  BY DispatchTypes DEF TypeOK, StoreTypeOK
<1>2. /\ pc' = [pc EXCEPT ![c] = cmd] /\ reply' = [reply EXCEPT ![c] = NoReply]
      /\ wire' = wire \cup {Write(c, cmd)}
  BY DEF Dispatch
<1>3. \A d \in Calls : d # c => pc'[d] = pc[d] /\ reply'[d] = reply[d]
  BY <1>2 DEF TypeOK
<1>4. pc'[c] = cmd /\ reply'[c] = NoReply
  BY <1>2 DEF TypeOK
<1>5. Write(c, cmd).call = c /\ Write(c, cmd).cmd = cmd
  BY DEF Write
<1>6. CallState'
  BY <1>2, <1>3, <1>4, <1>5, CallsAssumption DEF CallState, Calls, Cmds, TypeOK, Writes
<1>7. ValueOK(rec)' /\ Stamped' /\ (rec = Committed => settled)'
  BY DEF ValueOK, Stamped
<1>8. SeenOK'
  BY <1>2, <1>3, <1>4, <1>5 DEF SeenOK, Expects, Calls
<1>9. ReplyOK'
  BY <1>2, <1>3, <1>4 DEF ReplyOK, ValueOK
<1>10. QED BY <1>1, <1>6, <1>7, <1>8, <1>9

(* ExecInv: a write that runs, late or not, keeps every fact, and its reply *)
(* proves what it says.                                                    *)
LEMMA ExecInv ==
  ASSUME RedisInv, NEW m \in wire, ReplyWith(m),
         grants \subseteq grants', grants' \subseteq Reserves,
         \A d \in grants' : stamp[d] > 0,
         rec' \in {Absent, Committed} \cup {Pending(d, stamp[d]) : d \in grants'},
         ttl' \in Nat, settled' \in BOOLEAN, settled => settled',
         rec' = Committed => settled',
         m.cmd = "insert" /\ rec = Absent => m.call \in grants',
         m.cmd = "takeover" /\ rec = seen[m.call] => m.call \in grants',
         m.cmd = "commit" /\ rec # Absent => settled'
  PROVE  RedisInv'
<1> USE DEF RedisInv
<1>1. /\ UNCHANGED <<clock, stamp, answer, pc, sends, seen>>
      /\ wire' \subseteq wire
      /\ reply' = IF pc[m.call] = m.cmd /\ sends[m.call] = m.n
                  THEN [reply EXCEPT ![m.call] = rec] ELSE reply
  BY DEF ReplyWith
<1>2. m.call \in Calls /\ rec \in Values
  BY DEF TypeOK, StoreTypeOK, Writes
<1>3. /\ \A c \in Calls : reply'[c] # reply[c] => c = m.call /\ reply'[c] = rec /\ pc[c] = m.cmd
      /\ reply' \in [Calls -> Values \cup {NoReply}]
  BY <1>1, <1>2 DEF TypeOK
<1>4. rec' \in Values
  BY <1>1, ValueTypes DEF TypeOK, StoreTypeOK
<1>5. TypeOK'
  BY <1>1, <1>3, <1>4 DEF TypeOK, StoreTypeOK
<1>6. CallState' /\ Stamped'
  BY <1>1 DEF CallState, Stamped
<1>7. ValueOK(rec)' /\ (rec = Committed => settled)'
  BY <1>1 DEF ValueOK
<1>8. SeenOK'
  BY <1>1 DEF SeenOK, Expects
<1>9. ASSUME NEW c \in Calls, reply'[c] # NoReply
      PROVE  /\ ValueOK(reply[c])'
             /\ reply'[c] = Committed => settled'
             /\ pc'[c] = "insert" /\ reply'[c] = Absent => c \in grants'
             /\ pc'[c] = "takeover" /\ reply'[c] = seen'[c] => c \in grants'
             /\ pc'[c] = "commit" /\ reply'[c] # Absent => settled'
  <2>1. CASE reply'[c] = reply[c]
    BY <1>1, <1>9, <2>1 DEF ReplyOK, ValueOK
  <2>2. CASE reply'[c] # reply[c]
    BY <1>1, <1>3, <2>2 DEF ValueOK
  <2>3. QED BY <2>1, <2>2
<1>10. ReplyOK'
  BY <1>9 DEF ReplyOK
<1>11. QED BY <1>5, <1>6, <1>7, <1>8, <1>10

(* RedisInvStep: the invariant survives every step, one case per action.   *)
LEMMA RedisInvStep == ASSUME RedisInv, [RNext]_vars PROVE RedisInv'
<1> USE DEF RedisInv
<1>1. CASE RTick
  <2>1. StoreTypeOK'
    BY <1>1, StoreTypeInitStep DEF RTick, Next, TypeOK
  <2>2. /\ clock' = clock + 1 /\ rec' \in {Absent, rec}
        /\ UNCHANGED <<grants, stamp, settled, answer, pc, sends, seen, wire, reply>>
    BY <1>1 DEF RTick, Tick, redisVars
  <2>3. TypeOK'
    BY <2>1, <2>2 DEF TypeOK
  <2>4. CallState' /\ SeenOK' /\ ReplyOK'
    BY <2>2 DEF CallState, SeenOK, Expects, ReplyOK, ValueOK
  <2>5. ValueOK(rec)' /\ (rec = Committed => settled)'
    BY <2>2, ValueFields DEF ValueOK
  <2>6. Stamped'
    BY <2>2, TimeAssumption DEF Stamped, TypeOK, StoreTypeOK
  <2>7. QED BY <2>3, <2>4, <2>5, <2>6
<1>2. ASSUME NEW c \in Reserves, BeginReserve(c) PROVE RedisInv'
  <2>1. PICK s \in 0..MaxSkew : stamp' = [stamp EXCEPT ![c] = clock + s + Lease]
    BY <1>2 DEF BeginReserve
  <2>2. /\ pc[c] = "idle" /\ Dispatch(c, "insert") /\ c \in Calls
        /\ UNCHANGED <<clock, rec, ttl, grants, settled, answer, seen>>
    BY <1>2 DEF BeginReserve, Calls
  <2>3. stamp[c] = 0 /\ c \notin grants /\ (\A m \in wire : m.call # c) /\ answer[c] = "none"
    BY <2>2 DEF CallState, Stamped
  <2>4. /\ \A d \in Reserves \ {c} : stamp'[d] = stamp[d]
        /\ stamp'[c] = clock + s + Lease /\ stamp' \in [Reserves -> Nat]
    BY <2>1, TimeAssumption DEF TypeOK, StoreTypeOK
  <2>5. TypeOK'
    BY <2>2, <2>4, DispatchTypes DEF TypeOK, StoreTypeOK, Cmds
  <2>6. /\ \A d \in Calls : d # c => pc'[d] = pc[d] /\ reply'[d] = reply[d]
        /\ pc'[c] = "insert" /\ reply'[c] = NoReply
        /\ wire' = wire \cup {Write(c, "insert")}
        /\ Write(c, "insert").call = c /\ Write(c, "insert").cmd = "insert"
    BY <2>2 DEF Dispatch, TypeOK, Write
  <2>7. \A d \in grants : stamp'[d] = stamp[d]
    BY <2>3, <2>4 DEF TypeOK, StoreTypeOK
  <2>8. stamp'[c] > 0 /\ stamp'[c] <= clock + MaxSkew + Lease
    BY <2>4, TimeAssumption DEF TypeOK, StoreTypeOK
  <2>9. CallState'
    BY <2>2, <2>3, <2>4, <2>6, <2>8, CallsAssumption DEF CallState, Calls, Cmds, TypeOK, Writes
  <2>10. ValueOK(rec)' /\ (rec = Committed => settled)'
    BY <2>2, <2>7 DEF ValueOK
  <2>11. Stamped'
    BY <2>2, <2>3, <2>4, <2>8 DEF Stamped
  <2>12. ASSUME NEW d \in Reserves, d # c, Expects(d) PROVE Expects(d)'
    BY <2>2, <2>4, <2>7, <2>12 DEF Expects
  <2>13. SeenOK'
    BY <2>2, <2>3, <2>6, <2>12 DEF SeenOK, CallState, Calls
  <2>14. ASSUME NEW v, ValueOK(v) PROVE ValueOK(v)'
    BY <2>2, <2>7, <2>14 DEF ValueOK
  <2>15. ReplyOK'
    <3> SUFFICES ASSUME NEW d \in Calls, reply'[d] # NoReply
                 PROVE /\ ValueOK(reply[d])'
                       /\ reply'[d] = Committed => settled'
                       /\ pc'[d] = "insert" /\ reply'[d] = Absent => d \in grants'
                       /\ pc'[d] = "takeover" /\ reply'[d] = seen'[d] => d \in grants'
                       /\ pc'[d] = "commit" /\ reply'[d] # Absent => settled'
      BY DEF ReplyOK
    <3>1. d # c /\ reply'[d] = reply[d] /\ pc'[d] = pc[d]
      BY <2>6
    <3>2. ValueOK(reply[d])
      BY <3>1 DEF ReplyOK
    <3>3. ValueOK(reply[d])'
      BY <2>2, <2>7, <3>1, <3>2 DEF ValueOK
    <3>4. QED BY <2>2, <3>1, <3>3 DEF ReplyOK
  <2>16. QED BY <2>5, <2>9, <2>10, <2>11, <2>13, <2>15
<1>3. ASSUME NEW c \in Commits, BeginCommit(c) PROVE RedisInv'
  BY <1>3, DispatchInv DEF BeginCommit, CallState, Calls, Cmds
<1>4. ASSUME NEW c \in Calls, Refuse(c) PROVE RedisInv'
  BY <1>4, FinishInv DEF Refuse, CallState, Answers, Calls
<1>5. ASSUME NEW c \in Calls, Retry(c) PROVE RedisInv'
  <2>1. /\ pc[c] \in Cmds /\ Dispatch(c, pc[c])
        /\ UNCHANGED <<clock, rec, ttl, grants, stamp, settled, answer, seen>>
    BY <1>5 DEF Retry
  <2>2. /\ answer[c] = "none"
        /\ pc[c] \in {"insert", "takeover"} => c \in Reserves /\ stamp[c] > 0
        /\ pc[c] = "commit" => c \in Commits
        /\ pc[c] = "takeover" => Expects(c)
    BY <2>1 DEF CallState, SeenOK, Cmds
  <2>3. QED BY <2>1, <2>2, DispatchInv
<1>6. ASSUME NEW c \in Calls, GiveUp(c) PROVE RedisInv'
  BY <1>6, FinishInv DEF GiveUp, Answers, Cmds
<1>7. ASSUME NEW c \in Calls, Deliver(c) PROVE RedisInv'
  <2>1. /\ reply[c] # NoReply /\ UNCHANGED <<clock, rec, ttl, grants, stamp, settled>>
    BY <1>7 DEF Deliver
  <2>2. ASSUME NEW a \in Answers, Finish(c, a), pc[c] # "idle" PROVE RedisInv'
    BY <2>1, <2>2, FinishInv
  <2>3. CASE pc[c] = "insert" /\ reply[c].st = "pending" /\ reply[c] # Own(c)
             /\ reply[c].exp <= stamp[c] - Lease /\ Dispatch(c, "takeover")
             /\ seen' = [seen EXCEPT ![c] = reply[c]] /\ UNCHANGED answer
    <3>1. c \in Reserves /\ answer[c] = "none" /\ stamp[c] > 0
      BY <2>3 DEF CallState, Cmds
    <3>2. PICK d \in grants : reply[c] = Pending(d, stamp[d])
      BY <2>1, <2>3, ValueFields DEF ReplyOK, ValueOK
    <3>3. d # c /\ stamp[d] <= stamp[c] - Lease
      BY <2>3, <3>2, ValueFields DEF Own
    <3>4. d \in Reserves /\ reply[c] \in Values
      BY <2>1, <3>2, ValueTypes DEF TypeOK, StoreTypeOK
    <3>5. /\ seen'[c] = reply[c] /\ seen' \in [Reserves -> Values]
          /\ \A e \in Reserves \ {c} : seen'[e] = seen[e]
      BY <2>3, <3>1, <3>4 DEF TypeOK
    <3>6. Expects(c)'
      BY <2>1, <3>2, <3>3, <3>5 DEF Expects
    <3>7. /\ \A e \in Calls : e # c => pc'[e] = pc[e] /\ reply'[e] = reply[e]
          /\ pc'[c] = "takeover" /\ reply'[c] = NoReply
          /\ wire' = wire \cup {Write(c, "takeover")}
          /\ Write(c, "takeover").call = c /\ Write(c, "takeover").cmd = "takeover"
      BY <2>3 DEF Dispatch, TypeOK, Write
    <3>8. TypeOK'
      BY <2>1, <2>3, <3>5, DispatchTypes DEF TypeOK, StoreTypeOK, Cmds
    <3>9. CallState'
      BY <2>1, <2>3, <3>1, <3>7 DEF CallState, Calls, Cmds, TypeOK, Writes
    <3>10. ValueOK(rec)' /\ (rec = Committed => settled)' /\ Stamped'
      BY <2>1 DEF ValueOK, Stamped
    <3>11. ASSUME NEW e \in Reserves, e # c, Expects(e) PROVE Expects(e)'
      BY <2>1, <3>5, <3>11 DEF Expects
    <3>12. \A m \in wire : m.cmd = "takeover" => m.call \in Reserves /\ m.call # c
      BY <2>3 DEF CallState
    <3>13. SeenOK'
      BY <3>6, <3>7, <3>11, <3>12 DEF SeenOK, Calls
    <3>14. ReplyOK'
      BY <2>1, <3>5, <3>7, CallsAssumption DEF ReplyOK, ValueOK, Calls, CallState
    <3>15. QED BY <3>8, <3>9, <3>10, <3>13, <3>14
  <2>4. CASE pc[c] = "insert" /\ ReadInsert(c, reply[c])
    BY <2>2, <2>3, <2>4 DEF ReadInsert, Takeover, Answers
  <2>5. CASE pc[c] = "takeover" /\ mapTakeover(c, reply[c])
    BY <2>2, <2>5 DEF mapTakeover, Answers
  <2>6. CASE pc[c] = "commit" /\ ReadCommit(c, reply[c])
    BY <2>2, <2>6 DEF ReadCommit, Answers
  <2>7. QED BY <1>7, <2>4, <2>5, <2>6 DEF Deliver
<1>8. ASSUME NEW m \in wire, m.cmd \in {"insert", "takeover"}, ReplyWith(m), StoreOwn(m.call)
      PROVE RedisInv'
  <2>1. m.call \in Reserves /\ stamp[m.call] > 0
    BY <1>8 DEF CallState
  <2>2. /\ rec' = Pending(m.call, stamp[m.call]) /\ ttl' = clock + Retention
        /\ grants' = grants \cup {m.call} /\ settled' = settled
    BY <1>8 DEF StoreOwn, Own
  <2>3. ttl' \in Nat /\ grants' \subseteq Reserves /\ settled' \in BOOLEAN
    BY <2>1, <2>2, TimeAssumption DEF TypeOK, StoreTypeOK
  <2>4. rec' # Committed /\ \A d \in grants' : stamp[d] > 0
    BY <2>1, <2>2, ValueFields DEF Stamped, TypeOK, StoreTypeOK
  <2>5. QED BY <1>8, <2>1, <2>2, <2>3, <2>4, ExecInv
<1>9. ASSUME NEW m \in wire, ReplyWith(m), UNCHANGED <<rec, ttl, grants, settled>>,
             m.cmd = "insert" => rec # Absent,
             m.cmd = "takeover" => rec # seen[m.call],
             m.cmd = "commit" => rec = Absent
      PROVE RedisInv'
  <2>1. grants' \subseteq Reserves /\ ttl' \in Nat /\ settled' \in BOOLEAN
    BY <1>9 DEF TypeOK, StoreTypeOK
  <2>2. \A d \in grants' : stamp[d] > 0
    BY <1>9, <2>1 DEF Stamped
  <2>3. QED BY <1>9, <2>1, <2>2, ExecInv DEF ValueOK
<1>10. ASSUME NEW m \in wire, ExecInsert(m) \/ ExecTakeover(m) PROVE RedisInv'
  BY <1>8, <1>9, <1>10 DEF ExecInsert, ExecTakeover
<1>11. ASSUME NEW m \in wire, ExecCommit(m) PROVE RedisInv'
  <2>1. CASE rec = Absent /\ UNCHANGED <<rec, settled>>
    BY <1>9, <1>11, <2>1 DEF ExecCommit
  <2>2. CASE rec # Absent /\ rec' = Committed /\ settled' = TRUE
    <3>1. /\ grants' \subseteq Reserves /\ ttl' \in Nat /\ settled' \in BOOLEAN
          /\ m.cmd = "commit" /\ ReplyWith(m) /\ grants' = grants
      BY <1>11, <2>2 DEF ExecCommit, TypeOK, StoreTypeOK
    <3>2. \A d \in grants' : stamp[d] > 0
      BY <3>1 DEF Stamped
    <3>3. QED BY <2>2, <3>1, <3>2, ExecInv
  <2>3. QED BY <1>11, <2>1, <2>2 DEF ExecCommit
<1>12. ASSUME NEW m \in wire, Lose(m) PROVE RedisInv'
  <2>1. /\ wire' \subseteq wire
        /\ UNCHANGED <<clock, rec, ttl, grants, stamp, settled, answer, pc, sends, seen, reply>>
    BY <1>12 DEF Lose
  <2>2. TypeOK' /\ CallState' /\ Stamped'
    BY <2>1 DEF TypeOK, StoreTypeOK, CallState, Stamped
  <2>3. ValueOK(rec)' /\ (rec = Committed => settled)' /\ SeenOK' /\ ReplyOK'
    BY <2>1 DEF ValueOK, SeenOK, Expects, ReplyOK
  <2>4. QED BY <2>2, <2>3
<1>13. CASE UNCHANGED vars
  BY <1>13 DEF vars, TypeOK, StoreTypeOK, CallState, Stamped, ValueOK, SeenOK, Expects, ReplyOK
<1>14. QED BY <1>1, <1>2, <1>3, <1>4, <1>5, <1>6, <1>7, <1>10, <1>11, <1>12, <1>13 DEF RNext

(* StepImplements: every step of the provider is a step of the contract or *)
(* leaves its state alone.                                                 *)
LEMMA StepImplements == ASSUME RedisInv, [RNext]_vars PROVE [Next]_storeVars
<1> USE DEF RedisInv
<1>1. CASE RTick
  BY <1>1 DEF RTick, Next
<1>2. ASSUME NEW c \in Reserves, BeginReserve(c) PROVE Stamp(c)
  BY <1>2 DEF BeginReserve, Stamp, CallState, Calls
<1>3. ASSUME NEW c \in Commits, BeginCommit(c) PROVE UNCHANGED storeVars
  BY <1>3 DEF BeginCommit, storeVars
<1>4. ASSUME NEW c \in Calls, Retry(c) PROVE UNCHANGED storeVars
  BY <1>4 DEF Retry, storeVars
<1>5. ASSUME NEW c \in Calls, NEW a \in Answers \ {"none"}, Finish(c, a), pc[c] # "done",
             \/ a = "error"
             \/ c \in Reserves /\ ReserveAnswer(c, a)
             \/ c \in Commits /\ CommitAnswer(a),
             UNCHANGED <<clock, rec, ttl, grants, stamp, settled>>
      PROVE Return(c)
  BY <1>5 DEF Finish, Return, CallState
<1>6. ASSUME NEW c \in Calls, Refuse(c) \/ GiveUp(c) PROVE Return(c)
  BY <1>5, <1>6 DEF Refuse, GiveUp, Answers, Cmds
<1>7. ASSUME NEW c \in Calls, Deliver(c) PROVE [Next]_storeVars
  <2>1. reply[c] # NoReply /\ UNCHANGED <<clock, rec, ttl, grants, stamp, settled>>
    BY <1>7 DEF Deliver
  <2>2. \/ reply[c] = Absent
        \/ reply[c] = Committed /\ settled
        \/ \E d \in grants : reply[c] = Pending(d, stamp[d])
    BY <2>1 DEF ReplyOK, ValueOK
  <2>3. ASSUME Finish(c, "error"), pc[c] # "done" PROVE Return(c)
    BY <1>5, <2>1, <2>3 DEF Answers
  <2>4. ASSUME c \in Reserves, stamp[c] > 0, pc[c] # "done",
               reply[c].st = "pending", reply[c] # Own(c), Finish(c, "pending")
        PROVE Return(c)
    <3>1. grants \ {c} # {}
      BY <2>2, <2>4, ValueFields DEF Own
    <3>2. QED BY <1>5, <2>1, <2>4, <3>1 DEF ReserveAnswer, Answers
  <2>5. ASSUME c \in Reserves, stamp[c] > 0, pc[c] # "done", c \in grants, Finish(c, "reserved")
        PROVE Return(c)
    BY <1>5, <2>1, <2>5 DEF ReserveAnswer, Answers
  <2>6. ASSUME c \in Reserves, stamp[c] > 0, pc[c] # "done",
               reply[c] = Committed, Finish(c, "committed")
        PROVE Return(c)
    <3>1. settled
      BY <2>1, <2>6 DEF ReplyOK
    <3>2. QED BY <1>5, <2>1, <2>6, <3>1 DEF ReserveAnswer, Answers
  <2>7. CASE pc[c] = "insert" /\ ReadInsert(c, reply[c])
    <3>1. c \in Reserves /\ stamp[c] > 0 /\ pc[c] # "done"
      BY <2>7 DEF CallState, Cmds
    <3>2. reply[c] \in {Absent, Own(c)} => c \in grants
      BY <2>1, <2>2, <2>7, ValueFields DEF ReplyOK, Own
    <3>3. CASE Takeover(c, reply[c])
      BY <2>1, <2>3, <3>1, <3>3 DEF Takeover, storeVars, Next
    <3>4. QED BY <2>4, <2>5, <2>6, <2>7, <3>1, <3>2, <3>3 DEF ReadInsert, Next
  <2>8. CASE pc[c] = "takeover" /\ mapTakeover(c, reply[c])
    <3>1. c \in Reserves /\ stamp[c] > 0 /\ pc[c] # "done"
      BY <2>8 DEF CallState, Cmds
    <3>2. reply[c] \in {seen[c], Own(c)} => c \in grants
      BY <2>1, <2>2, <2>8, ValueFields DEF ReplyOK, Own
    <3>3. QED BY <2>3, <2>4, <2>5, <2>6, <2>8, <3>1, <3>2 DEF mapTakeover, Next
  <2>9. CASE pc[c] = "commit" /\ ReadCommit(c, reply[c])
    <3>1. c \in Commits
      BY <2>9 DEF CallState
    <3>2. reply[c] # Absent => settled
      BY <2>1, <2>9 DEF ReplyOK
    <3>3. Return(c)
      BY <1>5, <2>1, <2>9, <3>1, <3>2 DEF ReadCommit, CommitAnswer, Answers
    <3>4. QED BY <3>3 DEF Next
  <2>10. QED BY <1>7, <2>7, <2>8, <2>9 DEF Deliver
<1>8. ASSUME NEW m \in wire, ReplyWith(m), StoreOwn(m.call), m.cmd \in {"insert", "takeover"},
             Free
      PROVE m.call \in Reserves /\ Take(m.call)
  <2>1. m.call \in Reserves /\ stamp[m.call] > 0
    BY <1>8 DEF CallState
  <2>2. ttl' = clock + Retention
    BY <1>8 DEF StoreOwn
  <2>3. ttl' \in 0..(clock + Retention) /\ stamp[m.call] - Lease - MaxSkew + Retention <= ttl'
    BY <2>1, <2>2, TimeAssumption DEF Stamped, TypeOK, StoreTypeOK
  <2>4. QED BY <1>8, <2>1, <2>3 DEF ReplyWith, StoreOwn, Own, Take
<1>9. ASSUME NEW m \in wire, ExecInsert(m) PROVE [Next]_storeVars
  BY <1>8, <1>9, ValueFields DEF ExecInsert, Free, Next, ReplyWith, storeVars
<1>10. ASSUME NEW m \in wire, ExecTakeover(m) PROVE [Next]_storeVars
  <2>1. CASE rec = seen[m.call] /\ StoreOwn(m.call)
    <3>1. m.call \in Reserves /\ Expects(m.call)
      BY <1>10 DEF ExecTakeover, CallState, SeenOK
    <3>2. PICK d \in grants : seen[m.call] = Pending(d, stamp[d])
                              /\ stamp[d] <= stamp[m.call] - Lease
      BY <3>1 DEF Expects
    <3>3. stamp[d] \in Nat /\ stamp[m.call] \in Nat /\ clock \in Nat
          /\ stamp[m.call] <= clock + MaxSkew + Lease
      BY <3>1 DEF TypeOK, StoreTypeOK, Stamped
    <3>4. stamp[d] <= clock + MaxSkew
      BY <3>2, <3>3, TimeAssumption
    <3>5. Free
      BY <2>1, <3>2, <3>4, ValueFields DEF Free
    <3>6. QED BY <1>8, <1>10, <2>1, <3>5 DEF ExecTakeover, Next
  <2>2. CASE rec # seen[m.call]
    BY <1>10, <2>2 DEF ExecTakeover, ReplyWith, storeVars
  <2>3. QED BY <1>10, <2>1, <2>2 DEF ExecTakeover
<1>11. ASSUME NEW m \in wire, ExecCommit(m) PROVE [Next]_storeVars
  <2>1. UNCHANGED <<clock, stamp, answer, ttl, grants>>
    BY <1>11 DEF ExecCommit, ReplyWith
  <2>2. CASE rec # Absent /\ rec' = Committed /\ settled' = TRUE
    <3>1. CASE rec = Committed
      BY <2>1, <2>2, <3>1 DEF storeVars, TypeOK, StoreTypeOK
    <3>2. CASE rec # Committed
      <4>1. rec.st = "pending"
        BY <2>2, <3>2, ValueFields DEF ValueOK
      <4>2. QED BY <2>1, <2>2, <4>1 DEF Settle, Next
    <3>3. QED BY <3>1, <3>2
  <2>3. QED BY <1>11, <2>1, <2>2 DEF ExecCommit, storeVars
<1>12. ASSUME NEW m \in wire, Lose(m) PROVE UNCHANGED storeVars
  BY <1>12 DEF Lose, storeVars
<1>13. CASE UNCHANGED vars
  BY <1>13 DEF vars, storeVars
<1>14. QED
  BY <1>1, <1>2, <1>3, <1>4, <1>6, <1>7, <1>9, <1>10, <1>11, <1>12, <1>13 DEF RNext, Next

(* RedisTypeCorrect: the provider keeps its types.                         *)
THEOREM RedisTypeCorrect == RSpec => []TypeOK
<1>1. RedisInv => TypeOK
  BY DEF RedisInv
<1>2. RedisInv /\ [RNext]_vars => RedisInv'
  BY RedisInvStep
<1>3. QED BY <1>1, <1>2, RedisInvInit, PTL DEF RSpec

(* RedisImplementsContract: retries, lost replies and late executions are  *)
(* invisible: the provider implements the storage contract.                *)
THEOREM RedisImplementsContract == RSpec => Contract
<1>1. RedisInv /\ [RNext]_vars => RedisInv'
  BY RedisInvStep
<1>2. RedisInv /\ [RNext]_vars => [Next]_storeVars
  BY StepImplements
<1>3. RInit => Init
  BY DEF RInit
<1>4. QED BY <1>1, <1>2, <1>3, RedisInvInit, PTL DEF RSpec, Contract, Spec

(* RedisLeaseIsExclusive: whatever lease and retention are configured, the *)
(* Redis provider never grants a lease in its term twice and never drops   *)
(* it, two takeovers that compete for one expired lease included.          *)
THEOREM RedisLeaseIsExclusive == RSpec => []ExclusiveLease
BY RedisImplementsContract, LeaseIsExclusive, PTL DEF Contract

(* RedisCommitIsFinal: no retried or late write re-opens a committed       *)
(* coordinate before its retention ends.                                   *)
THEOREM RedisCommitIsFinal == RSpec => CommittedIsFinal
BY RedisImplementsContract, CommitIsFinal, PTL DEF Contract

(* RedisTakeoverIsSafe: a compare-and-set on the wire only ever expects a  *)
(* foreign value whose lease is over.                                      *)
THEOREM RedisTakeoverIsSafe == RSpec => []TakeoverOverExpired
<1>1. RedisInv => TakeoverOverExpired
  BY ValueFields DEF RedisInv, SeenOK, Expects, TakeoverOverExpired
<1>2. RedisInv /\ [RNext]_vars => RedisInv'
  BY RedisInvStep
<1>3. QED BY <1>1, <1>2, RedisInvInit, PTL DEF RSpec
=============================================================================
