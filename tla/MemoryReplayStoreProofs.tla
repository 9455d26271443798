---------------------- MODULE MemoryReplayStoreProofs -----------------------
(***************************************************************************)
(* Proofs about the memory replay store, for any calls, closing callers,   *)
(* keys and limits.                                                        *)
(*                                                                         *)
(* The argument.  The gate counts the calls at work (Counted), so the      *)
(* drain is published behind the last of them and nothing is admitted      *)
(* after it (Draining); the map is cleared behind the drain.  One call at  *)
(* a time has the token (TokenHeld), so the reading of the clock it        *)
(* applies its operation with is the newest one (Readings), and a record   *)
(* that is gone had lapsed by then (Lapsed).  Granted and Proven say what  *)
(* an outcome proves about the history of the coordinate: that is what the *)
(* storage contract asks of an answer.                                     *)
(***************************************************************************)
EXTENDS MemoryReplayStore, FiniteSetTheorems, WellFoundedInduction, TLAPS

(* The steps under the token, and those before the clock is read.          *)
TokenSteps == {"token", "checked", "captured", "applied"}
Unread == {"idle", "admitted", "queued", "token", "checked"}

(* The calls the gate has admitted and not let go.                         *)
Working == {c \in Calls : pc[c] \notin {"idle", "done"}}

(* Types; a call works on a key of its kind.                               *)
Types == /\ TypeOK
         /\ grants \subseteq Reserves /\ settled \in BOOLEAN
         /\ \A c \in Calls : key[c] = Coord <=> c \in Props

(* lifecycleGate.inFlight counts them.                                     *)
Counted == inFlight = Cardinality(Working)

(* The token is with the call whose step says so, and with no other.       *)
TokenHeld == \A c \in Calls : token = c <=> pc[c] \in TokenSteps

(* The drain is final and not lost: it is published as soon as nothing is  *)
(* in flight, nothing is admitted behind it, and everything a closing      *)
(* caller does after waitForDrain happens behind it.                       *)
Draining == /\ drained => state \in {"closing", "closed"} /\ inFlight = 0
            /\ state = "closed" \/ (state = "closing" /\ inFlight = 0) => drained
            /\ \A q \in Closers : /\ cpc[q] = "waiting" => state \in {"closing", "closed"}
                                  /\ cpc[q] \in {"drained", "cleared", "closed"} => drained
                                  /\ cpc[q] # "invariant"
            /\ cleared => drained /\ \A k \in Keys : entry[k] = Absent

(* A call reads the clock once, and the last reading is the holder's.      *)
Readings == /\ lastNow <= clock
            /\ \A c \in Calls : /\ at[c] <= clock
                                /\ pc[c] \in Unread => at[c] = NotRead
                                /\ pc[c] = "captured" => at[c] = lastNow

(* The coordinate holds what a granted call wrote, or a commit.            *)
Records == /\ entry[Coord] \in {Absent, Committed} \cup
                               {Pending(c, at[c] + Lease) : c \in grants}
           /\ entry[Coord] = Committed => settled
           /\ \A k \in FirstKeys : entry[k] \in {Absent, FirstSeen}

(* A record is gone only after its retention.                              *)
Lapsed == ~cleared => \A k \in Keys : entry[k] = Absent => expiry[k] <= lastNow

(* Only a call that has applied its operation has been granted anything.   *)
Granted == \A c \in grants : at[c] # NotRead /\ pc[c] \in {"applied", "released", "done"}

(* What the outcome of a call proves.                                      *)
Proven ==
    /\ \A c \in Calls : pc[c] \in Unread \cup {"captured"} => result[c] = "none"
    /\ \A c \in Reserves :
          /\ result[c] = "reserved" => c \in grants
          /\ result[c] = "pending" => grants \ {c} # {} /\ at[c] # NotRead
          /\ result[c] = "committed" => settled /\ at[c] # NotRead
          /\ result[c] # "unresolved"
    /\ \A c \in Commits : /\ result[c] \notin {"reserved", "pending"}
                          /\ result[c] = "committed" => settled

IInv == /\ Types /\ Counted /\ TokenHeld /\ Draining /\ Readings /\ Records
        /\ Lapsed /\ Granted /\ Proven /\ PruneReachesEveryExpired

-----------------------------------------------------------------------------
(***************************************************************************)
(* Counting calls and records.                                             *)
(***************************************************************************)
(* Sets of calls are finite.                                               *)
LEMMA CallSets ==
    /\ \A S \in SUBSET Calls : IsFiniteSet(S) /\ Cardinality(S) \in 0..Cardinality(Calls)
    /\ Cardinality(Calls) \in Nat
<1>1. IsFiniteSet(Calls)
  BY MemoryAssumption
<1>2. Cardinality(Calls) \in Nat
  BY <1>1, FS_CardinalityType
<1>3. ASSUME NEW S \in SUBSET Calls
      PROVE  IsFiniteSet(S) /\ Cardinality(S) \in 0..Cardinality(Calls)
  <2>1. IsFiniteSet(S) /\ Cardinality(S) <= Cardinality(Calls)
    BY <1>1, FS_Subset
  <2>2. Cardinality(S) \in Nat
    BY <2>1, FS_CardinalityType
  <2> QED
    BY <1>2, <2>1, <2>2
<1> QED
  BY <1>2, <1>3

(* Admission adds one working call, leaving takes one away.                *)
LEMMA OneMore ==
    ASSUME NEW S \in SUBSET Calls, NEW c \in Calls \ S
    PROVE  Cardinality(S \cup {c}) = Cardinality(S) + 1
BY CallSets, FS_AddElement

LEMMA OneLess ==
    ASSUME NEW S \in SUBSET Calls, NEW c \in S
    PROVE  Cardinality(S \ {c}) = Cardinality(S) - 1
BY CallSets, FS_RemoveElement

(* No call works when none is in flight.                                   *)
LEMMA NoneWorking ==
    ASSUME Counted, inFlight = 0
    PROVE  \A c \in Calls : pc[c] \in {"idle", "done"}
<1>1. IsFiniteSet(Working)
  BY CallSets DEF Working
<1>2. Working = {}
  BY <1>1, FS_EmptySet DEF Counted
<1> QED
  BY <1>2 DEF Working

(* A set of natural numbers that is not empty has a least element.         *)
LEMMA LeastNat ==
    ASSUME NEW T \in SUBSET Nat, T # {}
    PROVE  \E x \in T : \A y \in T : x <= y
<1>1. PICK x \in T : \A y \in T : <<y, x>> \notin OpToRel(<, Nat)
  BY NatLessThanWellFounded, WFMin
<1>2. ASSUME NEW y \in T PROVE x <= y
  <2>1. x \in Nat /\ y \in Nat
    OBVIOUS
  <2>2. ~(y < x)
    BY <1>1, <2>1 DEF OpToRel
  <2> QED
    BY <2>1, <2>2
<1> QED
  BY <1>2

(* PruneUsesItsBudget: pruneExpired leaves an expired record behind only   *)
(* when it has removed PruneBudget of them.  The oldest one left has only  *)
(* removed ones before it, and at least PruneBudget of those.              *)
LEMMA PruneUsesItsBudget ==
    ASSUME Types, NEW now \in Nat, NEW k \in Expired(now) \ Pruned(now)
    PROVE  Cardinality(Pruned(now)) >= PruneBudget
<1> DEFINE E == Expired(now)
           Older(l) == {m \in E : Before(m, l)}
           Left == E \ Pruned(now)
<1>1. /\ \A S \in SUBSET Keys : IsFiniteSet(S) /\ Cardinality(S) \in Nat
      /\ Keys \subseteq Nat /\ PruneBudget \in Nat
  <2>1. IsFiniteSet(Keys)
    BY MemoryAssumption, FS_AddElement DEF Keys
  <2> QED
    BY <2>1, MemoryAssumption, FS_Subset, FS_CardinalityType DEF Keys
<1>2. E \subseteq Keys /\ \A l \in Keys : expiry[l] \in Nat
  BY DEF Expired, Present, Types, TypeOK
<1>3. \A l \in E : Older(l) \subseteq Keys /\ Cardinality(Older(l)) \in Nat
  BY <1>1, <1>2
<1>4. PICK l \in Left : \A m \in Left : Cardinality(Older(l)) <= Cardinality(Older(m))
  <2> DEFINE T == {Cardinality(Older(m)) : m \in Left}
  <2>1. T \in SUBSET Nat /\ T # {}
    BY <1>3
  <2> HIDE DEF T
  <2>2. PICK x \in T : \A y \in T : x <= y
    BY <2>1, LeastNat
  <2> QED
    BY <2>2 DEF T
<1>5. Older(l) \subseteq Pruned(now)
  <2> SUFFICES ASSUME NEW m \in Older(l), m \notin Pruned(now) PROVE FALSE
    OBVIOUS
  <2>1. m \in Left /\ m \in Keys /\ l \in Keys
    BY <1>2
  <2>2. Older(m) \subseteq Older(l) \ {m}
    <3> SUFFICES ASSUME NEW n \in Older(m) PROVE n \in Older(l) \ {m}
      OBVIOUS
    <3>1. Before(n, m) /\ Before(m, l) /\ n \in E
      OBVIOUS
    <3>2. {n, m, l} \subseteq Nat /\ {expiry[n], expiry[m], expiry[l]} \subseteq Nat
      BY <1>1, <1>2, <2>1, <3>1
    <3>3. Before(n, l) /\ n # m
      BY <3>1, <3>2 DEF Before
    <3> QED
      BY <3>1, <3>3
  <2>3. Cardinality(Older(m)) <= Cardinality(Older(l) \ {m})
    BY <1>1, <1>2, <2>2, FS_Subset
  <2>4. Cardinality(Older(l) \ {m}) = Cardinality(Older(l)) - 1
    BY <1>1, <1>2, FS_RemoveElement
  <2>5. Cardinality(Older(l)) <= Cardinality(Older(m))
    BY <1>4, <2>1
  <2> QED
    BY <1>3, <2>1, <2>3, <2>4, <2>5
<1>6. Pruned(now) \subseteq Keys
  BY <1>2 DEF Pruned
<1>7. Cardinality(Older(l)) <= Cardinality(Pruned(now))
  BY <1>1, <1>5, <1>6, FS_Subset
<1>8. ~(Cardinality(Older(l)) < PruneBudget)
  BY DEF Pruned
<1> QED
  BY <1>1, <1>3, <1>6, <1>7, <1>8

-----------------------------------------------------------------------------
(***************************************************************************)
(* The steps.                                                              *)
(***************************************************************************)

(* Time passes.                                                            *)
LEMMA TickKeeps ==
    ASSUME IInv, Tick
    PROVE  IInv'
<1>0. Types /\ Counted /\ TokenHeld /\ Draining /\ Readings /\ Records
      /\ Lapsed /\ Granted /\ Proven /\ PruneReachesEveryExpired
  BY DEF IInv
<1>1. Counted' /\ TokenHeld' /\ Draining' /\ Records' /\ Lapsed' /\ Granted' /\ Proven' /\
      PruneReachesEveryExpired'
  BY <1>0 DEF Counted, Working, TokenHeld, Draining, Records, Lapsed, Granted, Proven,
     PruneReachesEveryExpired, Tick, gateVars, tableVars, callVars
<1>2. Types'
  BY <1>0, MemoryAssumption DEF Types, TypeOK, Tick, gateVars, tableVars, callVars
<1>3. Readings'
  BY <1>0 DEF Readings, NotRead, Types, TypeOK, Tick, callVars
<1> QED
  BY <1>1, <1>2, <1>3 DEF IInv

(* The gate admits a call or refuses it.                                   *)
LEMMA AdmitKeeps ==
    ASSUME IInv, NEW c \in Calls, Admit(c)
    PROVE  IInv'
<1>0. Types /\ Counted /\ TokenHeld /\ Draining /\ Readings /\ Records
      /\ Lapsed /\ Granted /\ Proven /\ PruneReachesEveryExpired
  BY DEF IInv
<1>1. Records' /\ Lapsed'
  BY <1>0 DEF Records, Lapsed, Admit, gateVars, tableVars, callVars
<1>2. Counted'
  <2>1. CASE state = "ready"
    <3>1. Working' = Working \cup {c} /\ c \notin Working
      BY <1>0, <2>1 DEF Working, Types, TypeOK, Admit, Goto
    <3>2. Cardinality(Working') = Cardinality(Working) + 1
      BY <3>1, OneMore DEF Working
    <3> QED
      BY <1>0, <2>1, <3>2 DEF Counted, Admit
  <2>2. CASE state # "ready"
    <3>1. Working' = Working
      BY <1>0, <2>2 DEF Working, Types, TypeOK, Admit, Conclude, Goto
    <3> QED
      BY <1>0, <2>2, <3>1 DEF Counted, Admit
  <2> QED
    BY <2>1, <2>2
<1>3. Types'
  <2>1. inFlight' \in 0..Cardinality(Calls)
    BY <1>2, CallSets DEF Counted, Working
  <2>2. drained' \in BOOLEAN
    BY <1>0 DEF Types, TypeOK, Admit
  <2> QED
    BY <1>0, <2>1, <2>2 DEF Types, TypeOK, Steps, Results, Admit, Goto, Conclude, tableVars
<1>4. TokenHeld'
  BY <1>0, MemoryAssumption DEF TokenHeld, TokenSteps, Types, TypeOK, Admit, Goto, Conclude,
     gateVars
<1>5. Draining'
  BY <1>0 DEF Draining, Admit, tableVars
<1>6. Readings'
  BY <1>0 DEF Readings, Unread, Types, TypeOK, Admit, Goto, Conclude
<1>7. Granted'
  BY <1>0 DEF Granted, Types, TypeOK, Unread, Calls, Props, Admit, Goto, Conclude, gateVars,
     tableVars, callVars
<1>8. Proven'
  BY <1>0 DEF Proven, Unread, Types, TypeOK, Calls, Props, Admit, Goto, Conclude, tableVars
<1>9. PruneReachesEveryExpired'
  BY <1>0 DEF PruneReachesEveryExpired, Types, TypeOK, Admit, Conclude, gateVars
<1> QED
  BY <1>1, <1>2, <1>3, <1>4, <1>5, <1>6, <1>7, <1>8, <1>9 DEF IInv

(* The token is free, or the call queues, or the queue is full.            *)
LEMMA AcquireKeeps ==
    ASSUME IInv, NEW c \in Calls, Acquire(c)
    PROVE  IInv'
<1>0. Types /\ Counted /\ TokenHeld /\ Draining /\ Readings /\ Records
      /\ Lapsed /\ Granted /\ Proven /\ PruneReachesEveryExpired
  BY DEF IInv
<1>1. Draining' /\ Records' /\ Lapsed'
  BY <1>0 DEF Draining, Records, Lapsed, Acquire, gateVars, tableVars, callVars
<1>2. Types'
  BY <1>0, MemoryAssumption DEF Types, TypeOK, Steps, Results, Acquire, TakeToken, Conclude,
     Goto, gateVars, tableVars
<1>3. Counted'
  <2>1. Working' = Working
    BY <1>0 DEF Working, Types, TypeOK, Acquire, TakeToken, Conclude, Goto
  <2> QED
    BY <1>0, <2>1 DEF Counted, Acquire, gateVars
<1>4. TokenHeld'
  BY <1>0, MemoryAssumption DEF TokenHeld, TokenSteps, Types, TypeOK, Acquire, TakeToken,
     Conclude, Goto
<1>5. Readings'
  BY <1>0 DEF Readings, Unread, Types, TypeOK, Acquire, TakeToken, Conclude, Goto
<1>6. Granted'
  BY <1>0 DEF Granted, Types, TypeOK, Calls, Props, Acquire, TakeToken, Conclude, Goto,
     tableVars
<1>7. Proven'
  BY <1>0 DEF Proven, Unread, Types, TypeOK, Calls, Props, Acquire, TakeToken, Conclude, Goto,
     tableVars
<1>8. PruneReachesEveryExpired'
  BY <1>0 DEF PruneReachesEveryExpired, Types, TypeOK, Acquire, TakeToken, Conclude
<1> QED
  BY <1>1, <1>2, <1>3, <1>4, <1>5, <1>6, <1>7, <1>8 DEF IInv

(* A queued call gets the token.                                           *)
LEMMA DequeueKeeps ==
    ASSUME IInv, NEW c \in Calls, Dequeue(c)
    PROVE  IInv'
<1>0. Types /\ Counted /\ TokenHeld /\ Draining /\ Readings /\ Records
      /\ Lapsed /\ Granted /\ Proven /\ PruneReachesEveryExpired
  BY DEF IInv
<1>1. Draining' /\ Records' /\ Lapsed' /\ PruneReachesEveryExpired'
  BY <1>0 DEF Draining, Records, Lapsed, PruneReachesEveryExpired, Dequeue, TakeToken,
     gateVars, tableVars, callVars
<1>2. Types'
  BY <1>0, MemoryAssumption DEF Types, TypeOK, Steps, Dequeue, TakeToken, Goto, gateVars,
     tableVars
<1>3. Counted'
  <2>1. Working' = Working
    BY <1>0 DEF Working, Dequeue, TakeToken, Goto
  <2> QED
    BY <1>0, <2>1 DEF Counted, Dequeue, gateVars
<1>4. TokenHeld'
  BY <1>0, MemoryAssumption DEF TokenHeld, TokenSteps, Types, TypeOK, Dequeue, TakeToken, Goto
<1>5. Readings'
  BY <1>0 DEF Readings, Unread, Dequeue, TakeToken, Goto
<1>6. Granted'
  BY <1>0 DEF Granted, Dequeue, TakeToken, Goto, tableVars
<1>7. Proven'
  BY <1>0 DEF Proven, Unread, Dequeue, TakeToken, Goto, tableVars
<1> QED
  BY <1>1, <1>2, <1>3, <1>4, <1>5, <1>6, <1>7 DEF IInv

(* The context of the caller ends.                                         *)
LEMMA CancelKeeps ==
    ASSUME IInv, NEW c \in Calls, Cancel(c)
    PROVE  IInv'
<1>0. Types /\ Counted /\ TokenHeld /\ Draining /\ Readings /\ Records
      /\ Lapsed /\ Granted /\ Proven /\ PruneReachesEveryExpired
  BY DEF IInv
<1>1. Draining' /\ Records' /\ Lapsed'
  BY <1>0 DEF Draining, Records, Lapsed, Cancel, gateVars, tableVars, callVars
<1>2. Types'
  BY <1>0, MemoryAssumption DEF Types, TypeOK, Steps, Results, Cancel, Conclude, Goto,
     gateVars, tableVars
<1>3. Counted'
  <2>1. Working' = Working
    BY <1>0 DEF Working, Cancel, Conclude, Goto
  <2> QED
    BY <1>0, <2>1 DEF Counted, Cancel, gateVars
<1>4. TokenHeld'
  BY <1>0, MemoryAssumption DEF TokenHeld, TokenSteps, Cancel, Conclude, Goto
<1>5. Readings'
  BY <1>0 DEF Readings, Unread, Cancel, Conclude, Goto
<1>6. Granted'
  BY <1>0 DEF Granted, Cancel, Conclude, Goto, tableVars
<1>7. Proven'
  BY <1>0 DEF Proven, Unread, Types, TypeOK, Cancel, Conclude, Goto, tableVars
<1>8. PruneReachesEveryExpired'
  BY <1>0 DEF PruneReachesEveryExpired, Cancel, Conclude
<1> QED
  BY <1>1, <1>2, <1>3, <1>4, <1>5, <1>6, <1>7, <1>8 DEF IInv

(* The lifecycle is checked under the token.                               *)
LEMMA CheckStateKeeps ==
    ASSUME IInv, NEW c \in Calls, CheckState(c)
    PROVE  IInv'
<1>0. Types /\ Counted /\ TokenHeld /\ Draining /\ Readings /\ Records
      /\ Lapsed /\ Granted /\ Proven /\ PruneReachesEveryExpired
  BY DEF IInv
<1>1. Draining' /\ Records' /\ Lapsed'
  BY <1>0 DEF Draining, Records, Lapsed, CheckState, gateVars, tableVars, callVars
<1>2. Types'
  BY <1>0, MemoryAssumption DEF Types, TypeOK, Steps, Results, CheckState, Conclude, Goto,
     gateVars, tableVars
<1>3. Counted'
  <2>1. Working' = Working
    BY <1>0 DEF Working, Types, TypeOK, CheckState, Conclude, Goto
  <2> QED
    BY <1>0, <2>1 DEF Counted, CheckState, gateVars
<1>4. TokenHeld'
  BY <1>0, MemoryAssumption DEF TokenHeld, TokenSteps, Types, TypeOK, CheckState, Conclude,
     Goto
<1>5. Readings'
  BY <1>0 DEF Readings, Unread, Types, TypeOK, CheckState, Conclude, Goto
<1>6. Granted'
  BY <1>0 DEF Granted, Types, TypeOK, Calls, Props, CheckState, Conclude, Goto, tableVars
<1>7. Proven'
  BY <1>0 DEF Proven, Unread, Types, TypeOK, Calls, Props, CheckState, Conclude, Goto,
     tableVars
<1>8. PruneReachesEveryExpired'
  BY <1>0 DEF PruneReachesEveryExpired, Types, TypeOK, CheckState, Conclude
<1> QED
  BY <1>1, <1>2, <1>3, <1>4, <1>5, <1>6, <1>7, <1>8 DEF IInv

(* The clock is read: only the holder of the token does, so it is the last. *)
LEMMA CaptureKeeps ==
    ASSUME IInv, NEW c \in Calls, Capture(c)
    PROVE  IInv'
<1>0. Types /\ Counted /\ TokenHeld /\ Draining /\ Readings /\ Records
      /\ Lapsed /\ Granted /\ Proven /\ PruneReachesEveryExpired
  BY DEF IInv
<1>1. Draining' /\ PruneReachesEveryExpired'
  BY <1>0 DEF Draining, PruneReachesEveryExpired, Capture, gateVars, tableVars, callVars
<1>2. Types'
  BY <1>0, MemoryAssumption DEF Types, TypeOK, Steps, Capture, Goto, gateVars, tableVars
<1>3. Counted'
  <2>1. Working' = Working
    BY <1>0 DEF Working, Capture, Goto
  <2> QED
    BY <1>0, <2>1 DEF Counted, Capture, gateVars
<1>4. TokenHeld'
  BY <1>0, MemoryAssumption DEF TokenHeld, TokenSteps, Capture, Goto
<1>5. Readings'
  BY <1>0 DEF Readings, Unread, TokenSteps, Types, TypeOK, TokenHeld, Capture, Goto
<1>6. Records'
  BY <1>0 DEF Records, Capture, Granted, tableVars
<1>7. Lapsed'
  BY <1>0 DEF Lapsed, Types, TypeOK, Capture, Readings, tableVars
<1>8. Granted'
  BY <1>0 DEF Granted, Capture, Goto, tableVars
<1>9. Proven'
  BY <1>0 DEF Proven, Unread, Capture, Goto, tableVars
<1> QED
  BY <1>1, <1>2, <1>3, <1>4, <1>5, <1>6, <1>7, <1>8, <1>9 DEF IInv

(* The clock fails.                                                        *)
LEMMA ClockFaultKeeps ==
    ASSUME IInv, NEW c \in Calls, ClockFault(c)
    PROVE  IInv'
<1>0. Types /\ Counted /\ TokenHeld /\ Draining /\ Readings /\ Records
      /\ Lapsed /\ Granted /\ Proven /\ PruneReachesEveryExpired
  BY DEF IInv
<1>1. Records' /\ Lapsed'
  BY <1>0 DEF Records, Lapsed, ClockFault, degrade, gateVars, tableVars, callVars
<1>2. Types'
  BY <1>0, MemoryAssumption DEF Types, TypeOK, Steps, Results, ClockFault, degrade, Conclude,
     Goto, tableVars
<1>3. Counted'
  <2>1. Working' = Working
    BY <1>0 DEF Working, ClockFault, degrade, Conclude, Goto
  <2> QED
    BY <1>0, <2>1 DEF Counted, ClockFault, degrade, gateVars
<1>4. TokenHeld'
  BY <1>0, MemoryAssumption DEF TokenHeld, TokenSteps, ClockFault, degrade, Conclude, Goto
<1>5. Readings'
  BY <1>0 DEF Readings, Unread, ClockFault, degrade, Conclude, Goto
<1>6. Granted'
  BY <1>0 DEF Granted, ClockFault, degrade, Conclude, Goto, tableVars
<1>7. Draining'
  BY <1>0 DEF Draining, ClockFault, degrade, tableVars
<1>8. Proven'
  BY <1>0 DEF Proven, Unread, Types, TypeOK, ClockFault, degrade, Conclude, Goto, tableVars
<1>9. PruneReachesEveryExpired'
  BY <1>0 DEF PruneReachesEveryExpired, ClockFault, degrade, Conclude
<1> QED
  BY <1>1, <1>2, <1>3, <1>4, <1>5, <1>6, <1>7, <1>8, <1>9 DEF IInv

(* The token goes back.                                                    *)
LEMMA ReleaseKeeps ==
    ASSUME IInv, NEW c \in Calls, Release(c)
    PROVE  IInv'
<1>0. Types /\ Counted /\ TokenHeld /\ Draining /\ Readings /\ Records
      /\ Lapsed /\ Granted /\ Proven /\ PruneReachesEveryExpired
  BY DEF IInv
<1>1. Draining' /\ Records' /\ Lapsed' /\ PruneReachesEveryExpired'
  BY <1>0 DEF Draining, Records, Lapsed, PruneReachesEveryExpired, Release, gateVars,
     tableVars, callVars
<1>2. Types'
  BY <1>0, MemoryAssumption DEF Types, TypeOK, Steps, Release, Goto, gateVars, tableVars
<1>3. Counted'
  <2>1. Working' = Working
    BY <1>0 DEF Working, Release, Goto
  <2> QED
    BY <1>0, <2>1 DEF Counted, Release, gateVars
<1>4. TokenHeld'
  BY <1>0, MemoryAssumption DEF TokenHeld, TokenSteps, Types, TypeOK, Release, Goto
<1>5. Readings'
  BY <1>0 DEF Readings, Unread, Release, Goto
<1>6. Granted'
  BY <1>0 DEF Granted, Release, Goto, tableVars
<1>7. Proven'
  BY <1>0 DEF Proven, Unread, Release, Goto, tableVars
<1> QED
  BY <1>1, <1>2, <1>3, <1>4, <1>5, <1>6, <1>7 DEF IInv

(* A call leaves; the last one publishes the drain.                        *)
LEMMA FinishKeeps ==
    ASSUME IInv, NEW c \in Calls, Finish(c)
    PROVE  IInv'
<1>0. Types /\ Counted /\ TokenHeld /\ Draining /\ Readings /\ Records
      /\ Lapsed /\ Granted /\ Proven /\ PruneReachesEveryExpired
  BY DEF IInv
<1>a. ~drained
  BY <1>0, NoneWorking DEF Finish, Draining
<1>1. Records' /\ Lapsed' /\ PruneReachesEveryExpired'
  BY <1>0 DEF Records, Lapsed, PruneReachesEveryExpired, Finish, gateVars, tableVars, callVars
<1>2. Counted'
  <2>1. Working' = Working \ {c} /\ c \in Working
    BY <1>0 DEF Working, Types, TypeOK, Finish, Goto
  <2>2. Cardinality(Working') = Cardinality(Working) - 1
    BY <2>1, OneLess DEF Working
  <2> QED
    BY <1>0, <2>2 DEF Counted, Finish
<1>3. Types'
  <2>1. inFlight' \in 0..Cardinality(Calls)
    BY <1>2, CallSets DEF Counted, Working
  <2>2. drained' \in BOOLEAN
    BY <1>0 DEF Finish, PublishDrain
  <2> QED
    BY <1>0, <2>1, <2>2 DEF Types, TypeOK, Steps, Finish, Goto, tableVars
<1>4. TokenHeld'
  BY <1>0, MemoryAssumption, <1>a DEF TokenHeld, TokenSteps, Finish, Goto
<1>5. Draining'
  BY <1>0, <1>a DEF Draining, Finish, PublishDrain
<1>6. Readings'
  BY <1>0, <1>a DEF Readings, Unread, Finish, Goto
<1>7. Granted'
  BY <1>0, <1>a DEF Granted, Finish, Goto, tableVars
<1>8. Proven'
  BY <1>0, <1>a DEF Proven, Unread, Finish, Goto, tableVars
<1> QED
  BY <1>1, <1>2, <1>3, <1>4, <1>5, <1>6, <1>7, <1>8 DEF IInv

(* Closing starts; with nothing in flight the drain is published at once.  *)
LEMMA beginCloseKeeps ==
    ASSUME IInv, NEW q \in Closers, beginClose(q)
    PROVE  IInv'
<1>0. Types /\ Counted /\ TokenHeld /\ Draining /\ Readings /\ Records
      /\ Lapsed /\ Granted /\ Proven /\ PruneReachesEveryExpired
  BY DEF IInv
<1>1. Counted' /\ TokenHeld' /\ Readings' /\ Records' /\ Lapsed' /\ Granted' /\ Proven' /\
      PruneReachesEveryExpired'
  BY <1>0 DEF Counted, Working, TokenHeld, Readings, Records, Lapsed, Granted, Proven,
     PruneReachesEveryExpired, beginClose, gateVars, tableVars, callVars
<1>2. Types'
  BY <1>0, MemoryAssumption DEF Types, TypeOK, beginClose, ClosePC, PublishDrain, tableVars,
     callVars
<1>3. Draining'
  BY <1>0 DEF Draining, Types, TypeOK, beginClose, ClosePC, PublishDrain, gateVars, tableVars
<1> QED
  BY <1>1, <1>2, <1>3 DEF IInv

(* The drain is seen.                                                      *)
LEMMA waitForDrainKeeps ==
    ASSUME IInv, NEW q \in Closers, waitForDrain(q)
    PROVE  IInv'
<1>0. Types /\ Counted /\ TokenHeld /\ Draining /\ Readings /\ Records
      /\ Lapsed /\ Granted /\ Proven /\ PruneReachesEveryExpired
  BY DEF IInv
<1>1. Counted' /\ TokenHeld' /\ Readings' /\ Records' /\ Lapsed' /\ Granted' /\ Proven' /\
      PruneReachesEveryExpired'
  BY <1>0 DEF Counted, Working, TokenHeld, Readings, Records, Lapsed, Granted, Proven,
     PruneReachesEveryExpired, waitForDrain, gateVars, tableVars, callVars
<1>2. Types'
  BY <1>0, MemoryAssumption DEF Types, TypeOK, waitForDrain, ClosePC, gateVars, tableVars,
     callVars
<1>3. Draining'
  BY <1>0 DEF Draining, waitForDrain, ClosePC, gateVars, tableVars
<1> QED
  BY <1>1, <1>2, <1>3 DEF IInv

(* A closing caller gives up.                                              *)
LEMMA AbandonCloseKeeps ==
    ASSUME IInv, NEW q \in Closers, AbandonClose(q)
    PROVE  IInv'
<1>0. Types /\ Counted /\ TokenHeld /\ Draining /\ Readings /\ Records
      /\ Lapsed /\ Granted /\ Proven /\ PruneReachesEveryExpired
  BY DEF IInv
<1>1. Counted' /\ TokenHeld' /\ Readings' /\ Records' /\ Lapsed' /\ Granted' /\ Proven' /\
      PruneReachesEveryExpired'
  BY <1>0 DEF Counted, Working, TokenHeld, Readings, Records, Lapsed, Granted, Proven,
     PruneReachesEveryExpired, AbandonClose, gateVars, tableVars, callVars
<1>2. Types'
  BY <1>0, MemoryAssumption DEF Types, TypeOK, AbandonClose, ClosePC, gateVars, tableVars,
     callVars
<1>3. Draining'
  BY <1>0 DEF Draining, AbandonClose, ClosePC, gateVars, tableVars
<1> QED
  BY <1>1, <1>2, <1>3 DEF IInv

(* Behind the drain nothing is in flight.                                  *)
LEMMA publishClosedKeeps ==
    ASSUME IInv, NEW q \in Closers, publishClosed(q)
    PROVE  IInv'
<1>0. Types /\ Counted /\ TokenHeld /\ Draining /\ Readings /\ Records
      /\ Lapsed /\ Granted /\ Proven /\ PruneReachesEveryExpired
  BY DEF IInv
<1>1. Counted' /\ TokenHeld' /\ Readings' /\ Records' /\ Lapsed' /\ Granted' /\ Proven' /\
      PruneReachesEveryExpired'
  BY <1>0 DEF Counted, Working, TokenHeld, Readings, Records, Lapsed, Granted, Proven,
     PruneReachesEveryExpired, publishClosed, gateVars, tableVars, callVars
<1>2. Types'
  BY <1>0, MemoryAssumption DEF Types, TypeOK, publishClosed, ClosePC, tableVars, callVars
<1>3. Draining'
  BY <1>0 DEF Draining, Types, TypeOK, publishClosed, ClosePC, gateVars, tableVars
<1> QED
  BY <1>1, <1>2, <1>3 DEF IInv

(* The map is cleared, when no call works on it.                           *)
LEMMA clearOnceKeeps ==
    ASSUME IInv, NEW q \in Closers, clearOnce(q)
    PROVE  IInv'
<1>0. Types /\ Counted /\ TokenHeld /\ Draining /\ Readings /\ Records
      /\ Lapsed /\ Granted /\ Proven /\ PruneReachesEveryExpired
  BY DEF IInv
<1>a. \A c \in Calls : pc[c] \in {"idle", "done"}
  BY <1>0, NoneWorking DEF clearOnce, Draining
<1>1. Counted' /\ TokenHeld' /\ Granted' /\ Proven' /\ PruneReachesEveryExpired'
  BY <1>0 DEF Counted, Working, TokenHeld, Granted, Proven, PruneReachesEveryExpired,
     clearOnce, gateVars, tableVars, callVars
<1>2. Types'
  <2>1. cleared' \in BOOLEAN
    BY <1>0 DEF clearOnce
  <2>2. entry' \in [Keys -> [st : {"absent", "pending", "committed", "first_seen"},
                            by : Reserves \cup {NoCall}, exp : Nat]]
    BY <1>0 DEF Types, TypeOK, clearOnce, Absent
  <2> QED
    BY <1>0, <2>1, <2>2, MemoryAssumption DEF Types, TypeOK, clearOnce, ClosePC, gateVars,
       callVars
<1>3. Draining'
  BY <1>0, <1>a DEF Draining, clearOnce, ClosePC, gateVars
<1>4. Readings'
  BY <1>0, <1>a DEF Readings, Types, TypeOK, clearOnce, callVars
<1>5. Records'
  BY <1>0, <1>a DEF Records, clearOnce, Keys, Absent, Committed, callVars
<1>6. Lapsed'
  BY <1>0, <1>a DEF Lapsed, clearOnce
<1> QED
  BY <1>1, <1>2, <1>3, <1>4, <1>5, <1>6 DEF IInv


-----------------------------------------------------------------------------
(***************************************************************************)
(* Apply: what a call finds under the token, and the four things it does.  *)
(***************************************************************************)
(* The call has the token and the newest reading, and the map is not       *)
(* cleared.                                                                *)
LEMMA UnderToken ==
    ASSUME IInv, NEW c \in Calls, pc[c] = "captured"
    PROVE  /\ token = c /\ ~cleared /\ ~drained
           /\ at[c] \in Nat /\ at[c] = lastNow /\ at[c] <= clock
           /\ c \notin grants
<1>1. token = c /\ at[c] = lastNow /\ at[c] <= clock /\ c \notin grants
  BY DEF IInv, TokenHeld, TokenSteps, Readings, Granted
<1>2. at[c] \in Nat
  BY <1>1 DEF IInv, Types, TypeOK
<1>3. ~drained
  BY NoneWorking DEF IInv, Draining
<1>4. ~cleared
  BY <1>3 DEF IInv, Draining
<1> QED
  BY <1>1, <1>2, <1>3, <1>4

(* What is left after pruning, and what liveEntry says of it; "unprunable" *)
(* it never says.                                                          *)
LEMMA AfterPruning ==
    ASSUME Types, NEW now \in Nat, NEW k \in Keys
    PROVE  /\ Rest(now) \in [Keys -> {Absent} \cup {entry[l] : l \in Keys}]
           /\ Rest(now)[k] = entry[k] \/ (Rest(now)[k] = Absent /\ expiry[k] <= now)
           /\ liveEntry(k, now) \in {"absent", "live", "limit"}
           /\ liveEntry(k, now) = "absent" => Rest(now)[k] = Absent
           /\ liveEntry(k, now) = "live" => Rest(now)[k] = entry[k] /\ entry[k] # Absent
<1>1. Rest(now) \in [Keys -> {Absent} \cup {entry[l] : l \in Keys}]
  BY DEF Rest
<1>2. Rest(now)[k] = IF k \in Pruned(now) THEN Absent ELSE entry[k]
  BY DEF Rest
<1>3. Rest(now)[k] = entry[k] \/ (Rest(now)[k] = Absent /\ expiry[k] <= now)
  BY <1>2 DEF Pruned, Expired
<1>4. CASE Rest(now)[k] = Absent
  BY <1>1, <1>3, <1>4 DEF liveEntry
<1>5. CASE Rest(now)[k] # Absent /\ expiry[k] > now
  BY <1>1, <1>3, <1>5 DEF liveEntry
<1>6. CASE Rest(now)[k] # Absent /\ ~(expiry[k] > now)
  <2>1. k \in Expired(now) \ Pruned(now)
    BY <1>2, <1>6 DEF Expired, Present, Types, TypeOK
  <2>2. Cardinality(Pruned(now)) >= PruneBudget
    BY <2>1, PruneUsesItsBudget
  <2> QED
    BY <1>1, <1>3, <1>6, <2>2 DEF liveEntry
<1> QED
  BY <1>4, <1>5, <1>6

(* The call concludes with r.                                              *)
Answer(c, r) == result' = [result EXCEPT ![c] = r]

(* Only expired records go.                                                *)
Kept(c, r) == /\ Answer(c, r)
              /\ entry' = Rest(at[c])
              /\ UNCHANGED <<expiry, grants, settled>>
              /\ r \in Results \ {"none", "reserved", "unprunable"}
              /\ r = "pending" => c \in Reserves /\ entry[Coord].st = "pending"
              /\ r = "committed" => c \in Reserves /\ entry[Coord].st = "committed"
              /\ r = "unresolved" => c \in Commits

(* A first-seen record is inserted, where there is none.                   *)
Noted(c) == /\ Answer(c, "first_seen")
            /\ c \in Checks /\ Rest(at[c])[key[c]] = Absent /\ ~Full(at[c])
            /\ entry' = [Rest(at[c]) EXCEPT ![key[c]] = FirstSeen]
            /\ expiry' = [expiry EXCEPT ![key[c]] = at[c] + Retention]
            /\ UNCHANGED <<grants, settled>>

(* A reservation takes the coordinate.                                     *)
Taken(c) == /\ Answer(c, "reserved")
            /\ c \in Reserves
            /\ \/ Rest(at[c])[Coord] = Absent /\ ~Full(at[c])
               \/ entry[Coord].st = "pending" /\ entry[Coord].exp <= at[c]
            /\ entry' = [Rest(at[c]) EXCEPT ![Coord] = Pending(c, at[c] + Lease)]
            /\ expiry' = [expiry EXCEPT ![Coord] = at[c] + Retention]
            /\ grants' = grants \cup {c} /\ UNCHANGED settled

(* A commit settles it.                                                    *)
Sealed(c) == /\ Answer(c, "committed")
             /\ c \in Commits
             /\ Rest(at[c])[Coord] = entry[Coord] /\ entry[Coord] # Absent
             /\ entry' = [Rest(at[c]) EXCEPT ![Coord] = Committed]
             /\ settled' = TRUE /\ UNCHANGED <<expiry, grants>>

(* Apply does one of the four.                                             *)
LEMMA ApplyDoes ==
    ASSUME IInv, NEW c \in Calls, Apply(c)
    PROVE  (\E r \in Results : Kept(c, r)) \/ Noted(c) \/ Taken(c) \/ Sealed(c)
<1>0. Types /\ Records /\ at[c] \in Nat /\ key[c] \in Keys
  BY UnderToken DEF IInv, Types, TypeOK, Apply
<1>1. /\ Lookup(c) \in {"absent", "live", "limit"}
      /\ Lookup(c) = "absent" => Rest(at[c])[key[c]] = Absent
      /\ Lookup(c) = "live" => Rest(at[c])[key[c]] = entry[key[c]] /\ entry[key[c]] # Absent
  BY <1>0, AfterPruning DEF Lookup
<1>2. c \in Props => key[c] = Coord
  BY <1>0 DEF Types
<1>3. {"limit", "replayed", "pending", "committed", "unresolved"} \subseteq Results
  BY DEF Results
<1>4. CASE c \in Checks /\ rememberStorageKey(c)
  <2>1. CASE Refused(c) \/ (Lookup(c) = "live" /\ Keep(c, "replayed"))
    BY <1>1, <1>3, <2>1 DEF Refused, Keep, Kept, Answer
  <2>2. CASE Insert(c, FirstSeen, "first_seen")
    BY <1>1, <1>3, <1>4, <2>2 DEF Insert, Keep, Put, Kept, Noted, Answer, FirstSeen
  <2> QED
    BY <1>4, <2>1, <2>2 DEF rememberStorageKey
<1>5. CASE c \in Reserves /\ reservePropagationKey(c)
  <2> DEFINE own == Pending(c, at[c] + Lease)
  <2>0. key[c] = Coord
    BY <1>2, <1>5 DEF Props
  <2>1. CASE Refused(c)
    BY <1>1, <1>3, <2>1 DEF Refused, Keep, Kept, Answer
  <2>2. CASE Insert(c, own, "reserved")
    <3>1. own.st = "pending"
      BY DEF Pending
    <3> HIDE DEF own
    <3>2. CASE Full(at[c]) /\ Keep(c, "limit")
      BY <1>3, <3>2 DEF Keep, Kept, Answer
    <3>3. CASE /\ ~Full(at[c]) /\ Put(c, own, "reserved")
               /\ grants' = grants \cup {c} /\ UNCHANGED settled
      BY <1>1, <1>5, <2>0, <2>2, <3>3 DEF Insert, Put, Taken, Answer, own
    <3> QED
      BY <2>2, <3>1, <3>2, <3>3 DEF Insert
  <2>3. CASE entry[Coord].st = "committed" /\ Keep(c, "committed")
    BY <1>3, <1>5, <2>3 DEF Keep, Kept, Answer
  <2>4. CASE entry[Coord].st = "pending" /\ Keep(c, "pending")
    BY <1>3, <1>5, <2>4 DEF Keep, Kept, Answer
  <2>5. CASE /\ entry[Coord].st = "pending" /\ entry[Coord].exp <= at[c]
             /\ Put(c, own, "reserved") /\ grants' = grants \cup {c} /\ UNCHANGED settled
    BY <1>5, <2>0, <2>5 DEF Put, Taken, Answer
  <2> QED
    BY <1>5, <2>1, <2>2, <2>3, <2>4, <2>5 DEF reservePropagationKey
<1>6. CASE c \in Commits /\ commitPropagation(c)
  <2>0. key[c] = Coord
    BY <1>2, <1>6 DEF Props
  <2>1. CASE Refused(c) \/ (Lookup(c) = "absent" /\ Keep(c, "unresolved"))
    BY <1>1, <1>3, <1>6, <2>1 DEF Refused, Keep, Kept, Answer
  <2>2. CASE /\ Lookup(c) = "live"
             /\ result' = [result EXCEPT ![c] = "committed"]
             /\ entry' = [Rest(at[c]) EXCEPT ![Coord] = Committed]
             /\ settled' = TRUE
             /\ UNCHANGED <<expiry, grants>>
    BY <1>1, <1>6, <2>0, <2>2 DEF Sealed, Answer
  <2> QED
    BY <1>6, <2>1, <2>2 DEF commitPropagation
<1> QED
  BY <1>4, <1>5, <1>6 DEF Apply

(* Each of the four keeps the invariant.                                   *)
LEMMA ApplyKeeps ==
    ASSUME IInv, NEW c \in Calls, Apply(c)
    PROVE  IInv'
<1>0. Types /\ Counted /\ TokenHeld /\ Draining /\ Readings /\ Records
      /\ Lapsed /\ Granted /\ Proven /\ PruneReachesEveryExpired
  BY DEF IInv
<1>1. pc[c] = "captured" /\ pc' = [pc EXCEPT ![c] = "applied"]
  BY DEF Apply, Goto
<1>2. /\ token = c /\ ~cleared /\ ~drained
      /\ at[c] \in Nat /\ at[c] = lastNow /\ at[c] <= clock /\ c \notin grants
  BY <1>1, UnderToken
<1>3. Counted'
  <2>1. Working' = Working
    BY <1>0, <1>1 DEF Working
  <2> QED
    BY <1>0, <2>1 DEF Counted, Apply, gateVars
<1>4. TokenHeld' /\ Draining' /\ Readings'
  BY <1>0, <1>1, <1>2 DEF TokenHeld, TokenSteps, Draining, Readings, Unread, Apply, gateVars
<1>5. \A k \in Keys :
         Rest(at[c])[k] = entry[k] \/ (Rest(at[c])[k] = Absent /\ expiry[k] <= at[c])
  BY <1>0, <1>2, AfterPruning
<1>6. Rest(at[c]) \in [Keys -> [st : {"absent", "pending", "committed", "first_seen"},
                                by : Reserves \cup {NoCall}, exp : Nat]]
  <2>1. Absent \in [st : {"absent", "pending", "committed", "first_seen"},
                    by : Reserves \cup {NoCall}, exp : Nat]
    BY DEF Absent
  <2> QED
    BY <1>0, <2>1 DEF Rest, Types, TypeOK
<1>7. /\ Coord \in Keys /\ FirstKeys \subseteq Keys \ {Coord} /\ key[c] \in Keys
      /\ Calls = Reserves \cup Commits \cup Checks
      /\ \A d \in Reserves : d \notin Commits /\ d \notin Checks
      /\ \A d \in Commits : d \notin Checks
      /\ c \in Checks => key[c] \in FirstKeys
      /\ Lease \in Nat /\ Retention \in Nat
  BY <1>0, MemoryAssumption DEF Keys, Calls, Props, Types, TypeOK
<1>8. UNCHANGED <<clock, state, inFlight, drained, token, lastNow, key, at, cpc, cleared, final>>
  BY DEF Apply, gateVars
<1>9. ASSUME NEW r \in Results, Kept(c, r)
      PROVE  Types' /\ Records' /\ Lapsed' /\ Granted' /\ Proven' /\ PruneReachesEveryExpired'
  <2>1. Types'
    BY <1>0, <1>1, <1>6, <1>8, <1>9 DEF Types, TypeOK, Kept, Answer, Steps
  <2>2. Records'
    BY <1>0, <1>5, <1>7, <1>8, <1>9 DEF Records, Kept, Absent, Committed
  <2>3. Lapsed'
    BY <1>0, <1>2, <1>5, <1>8, <1>9 DEF Lapsed, Kept
  <2>4. Granted'
    BY <1>0, <1>1, <1>7, <1>8, <1>9 DEF Granted, Kept
  <2>5. Proven'
    <3>1. r = "pending" => grants \ {c} # {}
      BY <1>0, <1>2, <1>9 DEF Kept, Records, Absent, Committed
    <3>2. r = "committed" => c \in Reserves /\ settled
      BY <1>0, <1>9 DEF Kept, Records, Absent, Pending
    <3> QED
      BY <1>0, <1>1, <1>2, <1>7, <1>8, <1>9, <3>1, <3>2 DEF Proven, Kept, Answer, Unread, Types,
         TypeOK, NotRead
  <2>6. PruneReachesEveryExpired'
    BY <1>0, <1>9 DEF PruneReachesEveryExpired, Kept, Answer
  <2> QED
    BY <2>1, <2>2, <2>3, <2>4, <2>5, <2>6
<1>10. ASSUME Noted(c)
       PROVE  Types' /\ Records' /\ Lapsed' /\ Granted' /\ Proven' /\ PruneReachesEveryExpired'
  <2>1. Types'
    BY <1>0, <1>1, <1>2, <1>6, <1>7, <1>8, <1>10 DEF Types, TypeOK, Noted, Answer, Steps,
       Results, FirstSeen
  <2>2. Records'
    BY <1>0, <1>5, <1>6, <1>7, <1>8, <1>10 DEF Records, Noted, Absent, Committed
  <2>3. Lapsed'
    BY <1>0, <1>2, <1>5, <1>6, <1>7, <1>8, <1>10 DEF Lapsed, Noted, FirstSeen, Absent
  <2>4. Granted'
    BY <1>0, <1>1, <1>7, <1>8, <1>10 DEF Granted, Noted
  <2>5. Proven'
    BY <1>0, <1>1, <1>7, <1>8, <1>10 DEF Proven, Noted, Answer, Unread, Types, TypeOK
  <2>6. PruneReachesEveryExpired'
    BY <1>0, <1>10 DEF PruneReachesEveryExpired, Noted, Answer
  <2> QED
    BY <2>1, <2>2, <2>3, <2>4, <2>5, <2>6
<1>11. ASSUME Taken(c)
       PROVE  Types' /\ Records' /\ Lapsed' /\ Granted' /\ Proven' /\ PruneReachesEveryExpired'
  <2>1. Types'
    BY <1>0, <1>1, <1>2, <1>6, <1>7, <1>8, <1>11 DEF Types, TypeOK, Taken, Answer, Steps,
       Results, Pending
  <2>2. Records'
    <3>1. entry'[Coord] = Pending(c, at'[c] + Lease) /\ c \in grants'
      BY <1>6, <1>7, <1>8, <1>11 DEF Taken
    <3>2. entry'[Coord] # Committed
      BY <3>1 DEF Pending, Committed
    <3>3. \A k \in FirstKeys : entry'[k] = Rest(at[c])[k]
      BY <1>6, <1>7, <1>11 DEF Taken
    <3> QED
      BY <1>0, <1>5, <1>7, <3>1, <3>2, <3>3 DEF Records
  <2>3. Lapsed'
    BY <1>0, <1>2, <1>5, <1>6, <1>7, <1>8, <1>11 DEF Lapsed, Taken, Pending, Absent
  <2>4. Granted'
    BY <1>0, <1>1, <1>2, <1>7, <1>8, <1>11 DEF Granted, Taken, Types, TypeOK, NotRead
  <2>5. Proven'
    BY <1>0, <1>1, <1>7, <1>8, <1>11 DEF Proven, Taken, Answer, Unread, Types, TypeOK
  <2>6. PruneReachesEveryExpired'
    BY <1>0, <1>11 DEF PruneReachesEveryExpired, Taken, Answer
  <2> QED
    BY <2>1, <2>2, <2>3, <2>4, <2>5, <2>6
<1>12. ASSUME Sealed(c)
       PROVE  Types' /\ Records' /\ Lapsed' /\ Granted' /\ Proven' /\ PruneReachesEveryExpired'
  <2>1. Types'
    BY <1>0, <1>1, <1>2, <1>6, <1>7, <1>8, <1>12 DEF Types, TypeOK, Sealed, Answer, Steps,
       Results, Committed
  <2>2. Records'
    BY <1>0, <1>5, <1>6, <1>7, <1>8, <1>12 DEF Records, Sealed
  <2>3. Lapsed'
    BY <1>0, <1>2, <1>5, <1>6, <1>7, <1>8, <1>12 DEF Lapsed, Sealed, Committed, Absent
  <2>4. Granted'
    BY <1>0, <1>1, <1>7, <1>8, <1>12 DEF Granted, Sealed
  <2>5. Proven'
    BY <1>0, <1>1, <1>7, <1>8, <1>12 DEF Proven, Sealed, Answer, Unread, Types, TypeOK
  <2>6. PruneReachesEveryExpired'
    BY <1>0, <1>12 DEF PruneReachesEveryExpired, Sealed, Answer
  <2> QED
    BY <2>1, <2>2, <2>3, <2>4, <2>5, <2>6
<1> QED
  BY <1>3, <1>4, <1>9, <1>10, <1>11, <1>12, ApplyDoes DEF IInv

-----------------------------------------------------------------------------
(***************************************************************************)
(* Theorems.                                                               *)
(***************************************************************************)
(* The invariant holds at the start.                                       *)
LEMMA MemoryInit == Init => IInv
<1> SUFFICES ASSUME Init PROVE IInv
  OBVIOUS
<1>1. Types
  <2>1. /\ Coord \in Keys /\ Coord \notin FirstKeys /\ Calls = Props \cup Checks
        /\ Props \cap Checks = {} /\ MaxClock \in Nat
    BY MemoryAssumption DEF Keys, Calls
  <2>2. \A c \in Calls : key[c] = Coord <=> c \in Props
    BY <2>1 DEF Init
  <2>3. drained \in BOOLEAN /\ settled \in BOOLEAN /\ cleared \in BOOLEAN
    BY DEF Init
  <2> QED
    BY <2>1, <2>2, <2>3, CallSets DEF Init, Types, TypeOK, Steps, Results, Absent
<1>2. Counted
  <2>1. Working = {}
    BY DEF Init, Working
  <2> QED
    BY <2>1, FS_EmptySet DEF Init, Counted
<1>3. TokenHeld /\ Draining /\ Readings /\ Granted
  BY MemoryAssumption DEF Init, TokenHeld, TokenSteps, Draining, Readings, NotRead, Granted
<1>4. Records /\ Lapsed
  BY MemoryAssumption DEF Init, Records, Lapsed, Keys, Absent, Committed
<1>5. Proven /\ PruneReachesEveryExpired
  BY DEF Init, Proven, PruneReachesEveryExpired, Calls, Props
<1> QED
  BY <1>1, <1>2, <1>3, <1>4, <1>5 DEF IInv

(* Every step keeps it.                                                    *)
LEMMA MemoryStep ==
    ASSUME IInv, [Next]_vars
    PROVE  IInv'
<1>1. CASE UNCHANGED vars
  BY <1>1 DEF IInv, Types, TypeOK, Counted, Working, TokenHeld, Draining, Readings, Records,
     Lapsed, Granted, Proven, PruneReachesEveryExpired, vars, gateVars, tableVars, callVars
<1>2. CASE Tick
  BY <1>2, TickKeeps
<1>3. ASSUME NEW c \in Calls, CallStep(c) \/ Cancel(c) \/ ClockFault(c)
      PROVE  IInv'
  BY <1>3, AdmitKeeps, AcquireKeeps, DequeueKeeps, CheckStateKeeps, CaptureKeeps, ApplyKeeps,
     ReleaseKeeps, FinishKeeps, CancelKeeps, ClockFaultKeeps DEF CallStep
<1>4. ASSUME NEW q \in Closers, beginClose(q) \/ CloseStep(q) \/ AbandonClose(q)
      PROVE  IInv'
  BY <1>4, beginCloseKeeps, waitForDrainKeeps, clearOnceKeeps, publishClosedKeeps,
     AbandonCloseKeeps DEF CloseStep
<1> QED
  BY <1>1, <1>2, <1>3, <1>4 DEF Next

(* MemoryInvariant: the store keeps the invariant, for any sets of calls   *)
(* and keys and any limits.                                                *)
THEOREM MemoryInvariant == Spec => []IInv
BY MemoryInit, MemoryStep, PTL DEF Spec

(* MemoryTypeCorrect: every variable keeps its type.                       *)
THEOREM MemoryTypeCorrect == Spec => []TypeOK
<1>1. IInv => TypeOK
  BY DEF IInv, Types
<1> QED
  BY <1>1, MemoryInvariant, PTL

(* NothingAfterClearHolds: once Close has cleared the map no record comes  *)
(* back and no call is at work on it.                                      *)
THEOREM NothingAfterClearHolds == Spec => []NothingAfterClear
<1>1. IInv => NothingAfterClear
  BY NoneWorking DEF IInv, Draining, NothingAfterClear
<1> QED
  BY <1>1, MemoryInvariant, PTL

(* PruneReachesEveryExpiredHolds: liveEntry's internal invariant is        *)
(* unreachable for any number of keys, any ceiling and any prune budget.   *)
THEOREM PruneReachesEveryExpiredHolds == Spec => []PruneReachesEveryExpired
<1>1. IInv => PruneReachesEveryExpired
  BY DEF IInv
<1> QED
  BY <1>1, MemoryInvariant, PTL

(* CloseFindsNothingInFlight: the failure branch of publishClosed is dead  *)
(* code, whatever order closing callers and admitted calls run in.         *)
THEOREM CloseFindsNothingInFlight == Spec => [](\A q \in Closers : cpc[q] # "invariant")
<1>1. IInv => \A q \in Closers : cpc[q] # "invariant"
  BY DEF IInv, Draining
<1> QED
  BY <1>1, MemoryInvariant, PTL

(* CloseIsNeverStuck, the safety half of CloseReturns: a closing caller    *)
(* waits only while some admitted call can go on, so no drain signal is    *)
(* lost and nobody waits for a token that nobody holds (finish,            *)
(* publishDrainLocked, releaseToken).                                      *)
THEOREM CloseIsNeverStuck ==
    Spec => [](\A q \in Closers : cpc[q] = "waiting" /\ ~drained =>
                  \E c \in Working : pc[c] = "queued" => token = NoCall)
<1>1. ASSUME IInv, NEW q \in Closers, cpc[q] = "waiting", ~drained
      PROVE  \E c \in Working : pc[c] = "queued" => token = NoCall
  <2>1. inFlight # 0
    BY <1>1 DEF IInv, Draining
  <2>2. PICK c \in Working : TRUE
    <3>1. Cardinality({}) = 0
      BY FS_EmptySet
    <3> QED
      BY <1>1, <2>1, <3>1 DEF IInv, Counted
  <2>3. CASE token = NoCall
    BY <2>2, <2>3
  <2>4. CASE token \in Calls
    <3>1. pc[token] \in TokenSteps
      BY <1>1, <2>4 DEF IInv, TokenHeld
    <3> QED
      BY <2>4, <3>1 DEF TokenSteps, Working
  <2> QED
    BY <1>1, <2>3, <2>4 DEF IInv, Types, TypeOK
<1>2. IInv => \A q \in Closers : cpc[q] = "waiting" /\ ~drained =>
                 \E c \in Working : pc[c] = "queued" => token = NoCall
  BY <1>1
<1> QED
  BY <1>2, MemoryInvariant, PTL

(* Only Apply touches the retention of a record, the grants and the        *)
(* commit.                                                                 *)
LEMMA ApplyAlone ==
    ASSUME [Next]_vars
    PROVE  (\E c \in Calls : Apply(c)) \/ UNCHANGED <<expiry, grants, settled>>
<1>1. ASSUME NEW c \in Calls, CallStep(c) \/ Cancel(c) \/ ClockFault(c), ~Apply(c)
      PROVE  UNCHANGED <<expiry, grants, settled>>
  BY <1>1 DEF CallStep, Admit, Acquire, Dequeue, CheckState, Capture, Release, Finish, Cancel,
     ClockFault, tableVars
<1>2. ASSUME NEW q \in Closers, beginClose(q) \/ CloseStep(q) \/ AbandonClose(q)
      PROVE  UNCHANGED <<expiry, grants, settled>>
  BY <1>2 DEF CloseStep, beginClose, waitForDrain, clearOnce, publishClosed, AbandonClose,
     tableVars
<1>3. CASE Tick \/ UNCHANGED vars
  BY <1>3 DEF Tick, vars, tableVars
<1> QED
  BY <1>1, <1>2, <1>3 DEF Next

(* FirstSeenOnceHolds: a key is called first seen again only a full        *)
(* retention after the end of its last record, for any limits and however  *)
(* the calls interleave: what is pruned has lapsed, and the clock readings *)
(* of successive token holders do not go back.                             *)
THEOREM FirstSeenOnceHolds == Spec => FirstSeenOnce
<1>1. ASSUME IInv, [Next]_vars
      PROVE  [\A k \in FirstKeys : expiry[k] > 0 /\ expiry'[k] # expiry[k] =>
                 expiry'[k] >= expiry[k] + Retention]_vars
  <2> SUFFICES ASSUME NEW k \in FirstKeys, expiry'[k] # expiry[k]
               PROVE  expiry'[k] >= expiry[k] + Retention
    OBVIOUS
  <2>1. PICK c \in Calls : Apply(c)
    BY <1>1, ApplyAlone
  <2>2. /\ at[c] \in Nat /\ at[c] = lastNow /\ ~cleared
        /\ Types /\ Lapsed /\ k \in Keys /\ k # Coord /\ Retention \in Nat /\ expiry[k] \in Nat
    BY <1>1, <2>1, UnderToken, MemoryAssumption DEF Apply, IInv, Types, TypeOK, Keys
  <2>3. Noted(c) /\ key[c] = k
    BY <1>1, <2>1, <2>2, ApplyDoes DEF Kept, Noted, Taken, Sealed, Types, TypeOK
  <2>4. expiry'[k] = at[c] + Retention /\ Rest(at[c])[k] = Absent
    BY <2>2, <2>3 DEF Noted
  <2>5. expiry[k] <= at[c]
    BY <2>2, <2>4, AfterPruning DEF Lapsed
  <2> QED
    BY <2>2, <2>4, <2>5
<1> QED
  BY <1>1, MemoryInvariant, PTL DEF Spec, FirstSeenOnce

-----------------------------------------------------------------------------
(***************************************************************************)
(* The storage contract.                                                   *)
(***************************************************************************)
(* What the refinement mapping of Store substitutes.                       *)
Rec == IF cleared THEN final ELSE entry[Coord]
Stamps == [c \in Reserves |-> IF at[c] = NotRead THEN 0 ELSE at[c] + Lease]
AnswersNow == [c \in Props |-> AnswerOf(c)]
contractVars == <<clock, Rec, expiry[Coord], grants, Stamps, settled, AnswersNow>>

(* The empty store is an initial state of the contract.                    *)
LEMMA ContractInit == Init => Store!Init
<1> SUFFICES ASSUME Init PROVE Store!Init
  OBVIOUS
<1>1. entry[Coord] = Absent /\ expiry[Coord] = 0
  BY DEF Init, Keys
<1>2. \A c \in Reserves : at[c] = NotRead
  BY DEF Init, Calls, Props
<1>3. \A c \in Props : AnswerOf(c) = "none"
  BY DEF Init, AnswerOf, Calls
<1> QED
  BY <1>1, <1>2, <1>3 DEF Init, Store!Init, Store!Absent, Absent, Store!Calls, Props

(* A call answers when it is done, and not before.                         *)
LEMMA Unanswered ==
    ASSUME Types, NEW c \in Calls, NEW step \in Steps \ {"done"}, NEW r,
           pc[c] # "done", pc' = [pc EXCEPT ![c] = step],
           result' = result \/ result' = [result EXCEPT ![c] = r]
    PROVE  AnswersNow' = AnswersNow
<1>1. ASSUME NEW d \in Props PROVE AnswerOf(d)' = AnswerOf(d)
  BY <1>1 DEF AnswerOf, Types, TypeOK, Calls
<1> QED
  BY <1>1 DEF AnswersNow

(* The steps of a call between its admission and its end, the reading of   *)
(* the clock and the operation itself apart, are invisible.                *)
LEMMA HandOverIsSilent ==
    ASSUME IInv, NEW c \in Calls,
           \/ Admit(c) /\ state = "ready"
           \/ Acquire(c) \/ Dequeue(c) \/ CheckState(c) \/ Release(c) \/ Cancel(c) \/ ClockFault(c)
    PROVE  UNCHANGED contractVars
<1>1. UNCHANGED <<clock, Rec, expiry, grants, Stamps, settled>>
  BY DEF Rec, Stamps, Admit, Acquire, Dequeue, CheckState, Release, Cancel, ClockFault,
     tableVars
<1>2. /\ \E step \in Steps \ {"done"} : pc' = [pc EXCEPT ![c] = step]
      /\ pc[c] # "done"
      /\ \E r : result' = result \/ result' = [result EXCEPT ![c] = r]
  BY DEF Admit, Acquire, TakeToken, Dequeue, CheckState, Release, Cancel, ClockFault,
     Conclude, Goto, Steps
<1>3. AnswersNow' = AnswersNow
  BY <1>2, Unanswered DEF IInv
<1> QED
  BY <1>1, <1>3 DEF contractVars

(* A call that leaves returns its answer; the contract allows it.          *)
LEMMA LeavingReturns ==
    ASSUME IInv, NEW c \in Calls,
           pc[c] \notin {"done"} \cup TokenSteps, pc' = [pc EXCEPT ![c] = "done"],
           \/ result' = result /\ pc[c] = "released"
           \/ result' = [result EXCEPT ![c] = "invariant"]
           \/ result' = [result EXCEPT ![c] = "closed"],
           UNCHANGED <<clock, cleared, final, entry, expiry, grants, at, settled>>
    PROVE  UNCHANGED contractVars \/ \E d \in Store!Calls : Store!Return(d)
<1>0. Types /\ Proven /\ Granted
  BY DEF IInv
<1>1. UNCHANGED <<clock, Rec, expiry, grants, Stamps, settled>>
  BY DEF Rec, Stamps
<1>2. \A d \in Props : d # c => AnswerOf(d)' = AnswerOf(d)
  BY <1>0 DEF AnswerOf, Types, TypeOK, Calls
<1>3. CASE c \notin Props
  <2>1. AnswersNow' = AnswersNow
    BY <1>2, <1>3 DEF AnswersNow
  <2> QED
    BY <1>1, <2>1 DEF contractVars
<1>4. CASE c \in Props
  <2> DEFINE a == AnswerOf(c)'
  <2>1. AnswersNow[c] = "none" /\ AnswersNow' = [AnswersNow EXCEPT ![c] = a]
    BY <1>2, <1>4 DEF AnswersNow, AnswerOf
  <2>2. /\ a \in {"reserved", "pending", "committed", "unresolved", "error"}
        /\ a # "error" => result[c] = a
    BY <1>0 DEF AnswerOf, Types, TypeOK
  <2>3. c \in Reserves /\ a # "error" => Store!ReserveAnswer(c, a)
    <3> SUFFICES ASSUME c \in Reserves, a # "error" PROVE Store!ReserveAnswer(c, a)
      OBVIOUS
    <3>1. at[c] # NotRead /\ at[c] \in Nat /\ Lease \in Nat \ {0}
      BY <1>0, <2>2, MemoryAssumption DEF Proven, Granted, Types, TypeOK
    <3> QED
      BY <1>0, <2>2, <3>1 DEF Proven, Store!ReserveAnswer
  <2>4. c \in Commits /\ a # "error" => Store!CommitAnswer(a)
    BY <1>0, <2>2 DEF Proven, Store!CommitAnswer
  <2> HIDE DEF a
  <2>5. Store!Return(c)
    BY <1>1, <1>4, <2>1, <2>2, <2>3, <2>4 DEF Store!Return, Store!Answers, AnswersNow, Props
  <2> QED
    BY <1>4, <2>5 DEF Store!Calls, Props
<1> QED
  BY <1>3, <1>4

(* Reading the clock stamps a reservation.                                 *)
LEMMA CaptureStamps ==
    ASSUME IInv, NEW c \in Calls, Capture(c)
    PROVE  UNCHANGED contractVars \/ \E d \in Reserves : Store!Stamp(d)
<1>0. Types /\ Readings /\ clock \in Nat /\ Lease \in Nat
  BY MemoryAssumption DEF IInv, Types, TypeOK
<1>1. UNCHANGED <<clock, Rec, expiry, grants, settled>>
  BY DEF Rec, Capture, tableVars
<1>2. AnswersNow' = AnswersNow
  BY <1>0, Unanswered DEF Capture, Goto, Steps
<1>3. CASE c \notin Reserves
  <2>1. Stamps' = Stamps
    BY <1>0, <1>3 DEF Stamps, Capture
  <2> QED
    BY <1>1, <1>2, <2>1 DEF contractVars
<1>4. CASE c \in Reserves
  <2>1. Stamps[c] = 0
    BY <1>0, <1>4 DEF Stamps, Capture, Readings, Unread
  <2>2. Stamps' = [Stamps EXCEPT ![c] = clock + 0 + Lease]
    <3>1. \A d \in Reserves : at'[d] = IF d = c THEN clock ELSE at[d]
      BY <1>0, <1>4 DEF Capture, Types, TypeOK
    <3>2. clock # NotRead /\ clock + 0 + Lease = clock + Lease
      BY <1>0 DEF NotRead
    <3> QED
      BY <1>4, <3>1, <3>2 DEF Stamps
  <2>3. AnswersNow[c] = "none"
    BY <1>4 DEF AnswersNow, AnswerOf, Capture, Props
  <2>4. Store!Stamp(c)
    BY <1>1, <1>2, <1>4, <2>1, <2>2, <2>3 DEF Store!Stamp, Rec, Stamps, AnswersNow
  <2> QED
    BY <1>4, <2>4
<1> QED
  BY <1>3, <1>4

(* The operation: at most one step of the contract, although it prunes and *)
(* writes in one.                                                          *)
LEMMA ApplyImplements ==
    ASSUME IInv, NEW c \in Calls, Apply(c)
    PROVE  \/ UNCHANGED contractVars
           \/ Store!Expire \/ Store!Settle
           \/ \E d \in Reserves : Store!Take(d)
<1>0. Types /\ Records
  BY DEF IInv
<1>1. /\ ~cleared /\ at[c] \in Nat /\ at[c] <= clock
      /\ UNCHANGED <<clock, at, cleared, final, key>>
  BY UnderToken DEF Apply
<1>2. /\ Coord \in Keys /\ key[c] \in Keys /\ expiry[Coord] \in Nat
      /\ clock \in Nat /\ Lease \in Nat \ {0} /\ Retention \in Nat
      /\ c \in Checks => key[c] # Coord
  BY <1>0, MemoryAssumption DEF Types, TypeOK, Keys
<1>3. Rec = entry[Coord] /\ Rec' = entry'[Coord] /\ Stamps' = Stamps
  BY <1>1 DEF Rec, Stamps
<1>4. AnswersNow' = AnswersNow
  <2>1. \E r : result' = [result EXCEPT ![c] = r]
    BY ApplyDoes DEF Kept, Noted, Taken, Sealed, Answer
  <2> QED
    BY <1>0, <2>1, Unanswered DEF Apply, Goto, Steps
<1>5. /\ Rest(at[c]) \in [Keys -> {Absent} \cup {entry[l] : l \in Keys}]
      /\ Rest(at[c])[Coord] = entry[Coord] \/
         (Rest(at[c])[Coord] = Absent /\ expiry[Coord] <= at[c])
  BY <1>0, <1>1, <1>2, AfterPruning
<1>6. CASE (\E r \in Results : Kept(c, r)) \/ Noted(c)
  <2>1. entry'[Coord] = Rest(at[c])[Coord] /\ UNCHANGED <<expiry[Coord], grants, settled>>
    BY <1>0, <1>2, <1>5, <1>6 DEF Kept, Noted, Types, TypeOK
  <2>2. CASE entry'[Coord] = entry[Coord]
    BY <1>1, <1>3, <1>4, <2>1, <2>2 DEF contractVars
  <2>3. CASE entry'[Coord] = Absent /\ expiry[Coord] <= at[c]
    <3>1. expiry[Coord] <= clock
      BY <1>1, <1>2, <2>3
    <3>2. Store!Expire
      BY <1>1, <1>3, <1>4, <2>1, <2>3, <3>1 DEF Store!Expire, Store!Absent, Absent, AnswersNow
    <3> QED
      BY <3>2
  <2> QED
    BY <1>5, <2>1, <2>2, <2>3
<1>7. CASE Taken(c)
  <2>1. c \in Reserves /\ Stamps[c] = at[c] + Lease
    BY <1>1, <1>7 DEF Taken, Stamps, NotRead
  <2>2. /\ entry'[Coord] = Pending(c, Stamps[c]) /\ expiry'[Coord] = at[c] + Retention
        /\ grants' = grants \cup {c} /\ UNCHANGED settled
    BY <1>0, <1>2, <1>5, <1>7, <2>1 DEF Taken, Types, TypeOK
  <2>3. \/ entry[Coord].st = "absent" \/ expiry[Coord] <= clock
        \/ entry[Coord].st = "pending" /\ entry[Coord].exp <= clock + 0
    <3>1. CASE Rest(at[c])[Coord] = Absent
      BY <1>1, <1>2, <1>5, <3>1 DEF Absent
    <3>2. CASE entry[Coord].st = "pending" /\ entry[Coord].exp <= at[c]
      <4>1. entry[Coord].exp \in Nat
        BY <1>0, <1>2 DEF Types, TypeOK <4> QED BY <1>1, <1>2, <3>2, <4>1
    <3> QED
      BY <1>7, <3>1, <3>2 DEF Taken
  <2>4. Store!Free
    BY <1>3, <2>3 DEF Store!Free, Rec
  <2>5. /\ Stamps[c] > 0 /\ expiry'[Coord] \in 0..(clock + Retention)
        /\ Stamps[c] - Lease - 0 + Retention <= expiry'[Coord]
    BY <1>1, <1>2, <2>1, <2>2
  <2>6. Store!Take(c)
    BY <1>1, <1>3, <1>4, <2>1, <2>2, <2>4, <2>5 DEF Store!Take, Store!Pending, Pending, Stamps,
       AnswersNow
  <2> QED
    BY <2>1, <2>6
<1>8. CASE Sealed(c)
  <2>1. /\ entry'[Coord] = Committed /\ settled' = TRUE /\ UNCHANGED <<expiry, grants>>
    BY <1>0, <1>2, <1>5, <1>8 DEF Sealed
  <2>2. CASE entry[Coord] = Committed
    <3>1. settled' = settled
      BY <1>0, <2>1, <2>2 DEF Records
    <3> QED
      BY <1>1, <1>3, <1>4, <2>1, <2>2, <3>1 DEF contractVars
  <2>3. CASE entry[Coord] # Committed
    <3>1. entry[Coord].st = "pending"
      BY <1>0, <1>8, <2>3 DEF Records, Sealed, Pending
    <3>2. Store!Settle
      BY <1>1, <1>3, <1>4, <2>1, <3>1 DEF Store!Settle, Store!Committed, Committed, AnswersNow
    <3> QED
      BY <3>2
  <2> QED
    BY <2>2, <2>3
<1> QED
  BY <1>6, <1>7, <1>8, ApplyDoes

(* Closing is invisible: clearOnce remembers what the coordinate held.     *)
LEMMA ClosingIsSilent ==
    ASSUME IInv, NEW q \in Closers, beginClose(q) \/ CloseStep(q) \/ AbandonClose(q)
    PROVE  UNCHANGED contractVars
<1>1. UNCHANGED <<clock, Rec, expiry, grants, settled, callVars>>
  BY DEF CloseStep, beginClose, waitForDrain, clearOnce, publishClosed, AbandonClose, Rec,
     tableVars
<1> QED
  BY <1>1 DEF contractVars, Stamps, AnswersNow, AnswerOf, callVars

(* Every step is a step of the contract or invisible in it.                *)
LEMMA ContractStep ==
    ASSUME IInv, [Next]_vars
    PROVE  [Store!Next]_(Store!storeVars)
<1> SUFFICES Store!Next \/ UNCHANGED contractVars
  BY DEF Store!storeVars, contractVars, Rec, Stamps, AnswersNow
<1>1. CASE UNCHANGED vars
  BY <1>1 DEF vars, tableVars, callVars, contractVars, Rec, Stamps, AnswersNow, AnswerOf
<1>2. CASE Tick
  <2>1. Store!Tick
    BY <1>2 DEF Tick, Store!Tick, tableVars, callVars, AnswerOf
  <2> QED
    BY <2>1 DEF Store!Next
<1>3. ASSUME NEW c \in Calls, CallStep(c) \/ Cancel(c) \/ ClockFault(c)
      PROVE  Store!Next \/ UNCHANGED contractVars
  <2>1. CASE \/ Admit(c) /\ state = "ready"
             \/ Acquire(c) \/ Dequeue(c) \/ CheckState(c) \/ Release(c) \/ Cancel(c) \/ ClockFault(c)
    BY <2>1, HandOverIsSilent
  <2>2. CASE (Admit(c) /\ state # "ready") \/ Finish(c)
    <3>1. UNCHANGED contractVars \/ \E d \in Store!Calls : Store!Return(d)
      BY <2>2, LeavingReturns DEF Admit, Finish, Conclude, Goto, TokenSteps, tableVars
    <3> QED
      BY <3>1 DEF Store!Next
  <2>3. CASE Capture(c)
    BY <2>3, CaptureStamps DEF Store!Next
  <2>4. CASE Apply(c)
    BY <2>4, ApplyImplements DEF Store!Next
  <2> QED
    BY <1>3, <2>1, <2>2, <2>3, <2>4 DEF CallStep
<1>4. ASSUME NEW q \in Closers, beginClose(q) \/ CloseStep(q) \/ AbandonClose(q)
      PROVE  UNCHANGED contractVars
  BY <1>4, ClosingIsSilent
<1> QED
  BY <1>1, <1>2, <1>3, <1>4 DEF Next

(* StoreContractHolds: the memory store implements the storage contract    *)
(* with no clock skew, for any calls, keys and limits: handing over the    *)
(* token, pruning, the ceiling and closing are all invisible in it.        *)
THEOREM StoreContractHolds == Spec => StoreContract
BY ContractInit, ContractStep, MemoryInvariant, PTL DEF Spec, StoreContract, Store!Spec

-----------------------------------------------------------------------------
(***************************************************************************)
(* What the contract buys the callers of the memory store.                 *)
(***************************************************************************)
(* A lease in its term has the record, and the record outlives the term.   *)
TermEnd(c) == (Stamps[c] - Lease) + Store!Term
Covered == \A c \in grants : clock < TermEnd(c) =>
              Rec \in {Pending(c, Stamps[c]), Committed} /\ TermEnd(c) <= expiry[Coord]

(* The types of what the contract sees.                                    *)
LEMMA ContractTypes ==
    ASSUME IInv
    PROVE  /\ clock \in Nat /\ expiry[Coord] \in Nat /\ Lease \in Nat \ {0} /\ Retention \in Nat
           /\ grants \subseteq Reserves /\ Stamps \in [Reserves -> Nat]
           /\ \A c \in grants : Stamps[c] > 0
<1>1. /\ clock \in Nat /\ expiry[Coord] \in Nat /\ Lease \in Nat \ {0} /\ Retention \in Nat
      /\ grants \subseteq Reserves
  BY MemoryAssumption DEF IInv, Types, TypeOK, Keys
<1>2. \A c \in Reserves : at[c] \in Nat \cup {NotRead}
  BY DEF IInv, Types, TypeOK, Calls, Props
<1>3. Stamps \in [Reserves -> Nat]
  BY <1>1, <1>2 DEF Stamps
<1>4. \A c \in grants : Stamps[c] > 0
  BY <1>1, <1>2 DEF IInv, Granted, Stamps
<1> QED
  BY <1>1, <1>3, <1>4

(* No step of the contract uncovers a running lease.                       *)
LEMMA CoveredStep ==
    ASSUME IInv, Covered, [Next]_vars
    PROVE  Covered'
<1>0. /\ clock \in Nat /\ expiry[Coord] \in Nat /\ Lease \in Nat \ {0} /\ Retention \in Nat
      /\ grants \subseteq Reserves /\ Stamps \in [Reserves -> Nat]
      /\ \A c \in grants : Stamps[c] > 0
      /\ Store!Term \in Nat /\ Store!Term <= Lease /\ Store!Term <= Retention
  BY ContractTypes DEF Store!Term
<1> USE DEF TermEnd
<1>1. CASE UNCHANGED Store!storeVars
  BY <1>1 DEF Covered, Store!storeVars, Rec, Stamps
<1>2. CASE Store!Tick
  <2>1. /\ clock' = clock + 1 /\ UNCHANGED <<expiry[Coord], grants, Stamps>>
        /\ Rec' = Rec \/ expiry[Coord] <= clock + 1
    BY <1>2 DEF Store!Tick, Rec, Stamps
  <2> QED
    BY <1>0, <2>1 DEF Covered
<1>3. CASE Store!Expire
  <2>1. UNCHANGED <<clock, expiry[Coord], grants, Stamps>> /\ expiry[Coord] <= clock
    BY <1>3 DEF Store!Expire, Stamps
  <2> QED
    BY <1>0, <2>1 DEF Covered
<1>4. CASE Store!Settle
  <2>1. UNCHANGED <<clock, expiry[Coord], grants, Stamps>> /\ Rec' = Committed
    BY <1>4 DEF Store!Settle, Store!Committed, Committed, Rec, Stamps
  <2> QED
    BY <1>0, <2>1 DEF Covered
<1>5. ASSUME NEW d \in Reserves, Store!Stamp(d) PROVE Covered'
  <2>1. /\ UNCHANGED <<clock, Rec, expiry[Coord], grants>> /\ Stamps[d] = 0
        /\ \E s \in 0..0 : Stamps' = [Stamps EXCEPT ![d] = clock + s + Lease]
    BY <1>5 DEF Store!Stamp, Rec, Stamps
  <2>2. \A c \in grants : Stamps'[c] = Stamps[c]
    BY <1>0, <2>1
  <2> QED
    BY <2>1, <2>2 DEF Covered
<1>6. ASSUME NEW d \in Reserves, Store!Take(d) PROVE Covered'
  <2>1. /\ UNCHANGED <<clock, Stamps>> /\ grants' = grants \cup {d}
        /\ Rec' = Pending(d, Stamps[d])
        /\ expiry'[Coord] \in 0..(clock + Retention)
        /\ Stamps[d] - Lease - 0 + Retention <= expiry'[Coord]
    BY <1>6 DEF Store!Take, Store!Pending, Pending, Rec, Stamps
  <2>2. \/ Rec.st = "absent" \/ expiry[Coord] <= clock
        \/ Rec.st = "pending" /\ Rec.exp <= clock + 0
    BY <1>6 DEF Store!Take, Store!Free, Rec
  <2>3. ASSUME NEW c \in grants PROVE ~(clock < TermEnd(c))
    BY <1>0, <2>2 DEF Covered, Pending, Committed
  <2>4. TermEnd(d) <= expiry'[Coord]
    BY <1>0, <2>1
  <2> QED
    BY <2>1, <2>3, <2>4 DEF Covered
<1>7. ASSUME NEW d \in Store!Calls, Store!Return(d) PROVE Covered'
  <2>1. UNCHANGED <<clock, Rec, expiry[Coord], grants, Stamps>>
    BY <1>7 DEF Store!Return, Rec, Stamps
  <2> QED
    BY <2>1 DEF Covered
<1> QED
  BY <1>1, <1>2, <1>3, <1>4, <1>5, <1>6, <1>7, ContractStep DEF Store!Next

(* MemoryLeaseIsExclusive: whatever lease and retention are configured,    *)
(* the memory store never grants the coordinate to a second attempt and    *)
(* never prunes it while a lease is in its term (reservePropagationKey,    *)
(* pruneExpired).                                                          *)
THEOREM MemoryLeaseIsExclusive == Spec => []Store!ExclusiveLease
<1>1. Init => Covered
  BY DEF Init, Covered
<1>2. IInv /\ Covered /\ [Next]_vars => Covered'
  BY CoveredStep
<1>3. ASSUME IInv, Covered PROVE Store!ExclusiveLease
  <2>1. ASSUME NEW c \in Reserves, Store!Live(c)
        PROVE  Rec \in {Pending(c, Stamps[c]), Committed}
    <3>1. c \in grants /\ clock + 0 < TermEnd(c)
      BY <2>1 DEF Store!Live, TermEnd, Stamps
    <3>2. clock < TermEnd(c)
      BY <1>3, <3>1, ContractTypes
    <3> QED
      BY <1>3, <3>1, <3>2 DEF Covered
  <2> QED
    BY <2>1 DEF Store!ExclusiveLease, Rec, Pending, Committed
<1> QED
  BY <1>1, <1>2, <1>3, MemoryInvariant, PTL DEF Spec

(* MemoryCommitIsFinal: a committed coordinate stays committed until its   *)
(* retention ends, whatever reservations and commits follow.               *)
THEOREM MemoryCommitIsFinal == Spec => Store!CommittedIsFinal
<1>1. ASSUME IInv, [Next]_vars
      PROVE  [Rec.st = "committed" => Rec' = Rec \/ clock' >= expiry[Coord]]_(Store!storeVars)
  <2>0. clock \in Nat /\ expiry[Coord] \in Nat
    BY <1>1, ContractTypes
  <2>1. CASE Store!Tick
    BY <2>0, <2>1 DEF Store!Tick, Rec
  <2>2. CASE Store!Expire
    BY <2>0, <2>2 DEF Store!Expire
  <2>3. CASE Store!Settle
    BY <2>3 DEF Store!Settle, Rec
  <2>4. CASE \E d \in Reserves : Store!Stamp(d)
    BY <2>4 DEF Store!Stamp, Rec
  <2>5. CASE \E d \in Reserves : Store!Take(d)
    BY <2>0, <2>5 DEF Store!Take, Store!Free, Rec
  <2>6. CASE \E d \in Store!Calls : Store!Return(d)
    BY <2>6 DEF Store!Return, Rec
  <2> QED
    BY <1>1, <2>1, <2>2, <2>3, <2>4, <2>5, <2>6, ContractStep DEF Store!Next
<1> QED
  BY <1>1, MemoryInvariant, PTL DEF Spec, Store!CommittedIsFinal, Rec

-----------------------------------------------------------------------------
(***************************************************************************)
(* The limits.                                                             *)
(***************************************************************************)
Bounded == Cardinality(Present) <= MaxEntries /\ Cardinality(Waiting) <= MaxWaiters

(* Inserting replaces what was pruned or finds room; a takeover and a      *)
(* commit replace the record they found.                                   *)
LEMMA EntriesBounded ==
    ASSUME IInv, Bounded, [Next]_vars
    PROVE  Cardinality(Present') <= MaxEntries
<1>0. /\ \A S \in SUBSET Keys : IsFiniteSet(S) /\ Cardinality(S) \in Nat
      /\ Coord \in Keys /\ MaxEntries \in Nat /\ Present \subseteq Keys /\ Present' \subseteq Keys
      /\ \A now : Present \ Pruned(now) \subseteq Present
  <2>1. IsFiniteSet(Keys)
    BY MemoryAssumption, FS_AddElement DEF Keys
  <2> QED
    BY <2>1, MemoryAssumption, FS_Subset, FS_CardinalityType DEF Keys, Present
<1>1. ASSUME Present' \subseteq Present PROVE Cardinality(Present') <= MaxEntries
  <2>1. Cardinality(Present') <= Cardinality(Present)
    BY <1>0, <1>1, FS_Subset
  <2> QED
    BY <1>0, <2>1 DEF Bounded
<1>2. ASSUME NEW c \in Calls, Apply(c) PROVE Cardinality(Present') <= MaxEntries
  <2> DEFINE Left == Present \ Pruned(at[c])
  <2>0. key[c] \in Keys /\ entry \in [Keys -> {entry[k] : k \in Keys}]
    BY DEF IInv, Types, TypeOK
  <2>1. \A k \in Keys : Rest(at[c])[k] # Absent => k \in Left
    BY DEF Rest, Present
  <2>2. CASE \E r \in Results : Kept(c, r)
    BY <1>1, <2>1, <2>2 DEF Kept, Present
  <2>3. ASSUME NEW l \in Keys, ~Full(at[c]), \A k \in Keys \ {l} : entry'[k] = Rest(at[c])[k]
        PROVE  Cardinality(Present') <= MaxEntries
    <3>1. Present' \subseteq Left \cup {l}
      BY <2>1, <2>3 DEF Present
    <3>2. IsFiniteSet(Left) /\ Cardinality(Left) \in Nat /\ Cardinality(Left) < MaxEntries
      BY <1>0, <2>3 DEF Full
    <3>3. IsFiniteSet(Left \cup {l}) /\ Cardinality(Left \cup {l}) <= Cardinality(Left) + 1
      BY <3>2, FS_AddElement
    <3>4. Cardinality(Present') <= Cardinality(Left \cup {l})
      BY <3>1, <3>3, FS_Subset
    <3>5. Cardinality(Present') \in Nat /\ Cardinality(Left \cup {l}) \in Nat
      BY <1>0, <2>3
    <3> QED
      BY <1>0, <3>2, <3>3, <3>4, <3>5
  <2>4. CASE Noted(c)
    BY <2>0, <2>3, <2>4 DEF Noted, Rest
  <2>5. CASE (Taken(c) \/ Sealed(c)) /\ Coord \in Present
    <3>1. \A k \in Keys \ {Coord} : entry'[k] = Rest(at[c])[k]
      BY <1>0, <2>5 DEF Taken, Sealed, Rest
    <3> QED
      BY <1>1, <2>1, <2>5, <3>1 DEF Present
  <2>6. CASE Taken(c) /\ Coord \notin Present
    <3>1. ~Full(at[c])
      BY <1>0, <2>6 DEF Taken, Present, Absent
    <3> QED
      BY <1>0, <2>3, <2>6, <3>1 DEF Taken, Rest
  <2>7. Sealed(c) => Coord \in Present
    BY <1>0 DEF Sealed, Present
  <2> QED
    BY <1>2, <2>2, <2>4, <2>5, <2>6, <2>7, ApplyDoes
<1>3. ASSUME NEW q \in Closers, clearOnce(q) PROVE Cardinality(Present') <= MaxEntries
  BY <1>1, <1>3 DEF clearOnce, Present
<1>4. ASSUME entry' = entry PROVE Cardinality(Present') <= MaxEntries
  BY <1>1, <1>4 DEF Present
<1>5. ASSUME NEW c \in Calls, CallStep(c) \/ Cancel(c) \/ ClockFault(c), ~Apply(c)
      PROVE  entry' = entry
  BY <1>5 DEF CallStep, Admit, Acquire, Dequeue, CheckState, Capture, Release, Finish, Cancel,
     ClockFault, tableVars
<1>6. ASSUME NEW q \in Closers, beginClose(q) \/ CloseStep(q) \/ AbandonClose(q), ~clearOnce(q)
      PROVE  entry' = entry
  BY <1>6 DEF CloseStep, beginClose, waitForDrain, publishClosed, AbandonClose, tableVars
<1>7. CASE Tick \/ UNCHANGED vars
  BY <1>4, <1>7 DEF Tick, vars, tableVars
<1> QED
  BY <1>2, <1>3, <1>4, <1>5, <1>6, <1>7 DEF Next

(* Only Acquire queues a call, and only below the limit.                   *)
LEMMA WaitersBounded ==
    ASSUME IInv, Bounded, [Next]_vars
    PROVE  Cardinality(Waiting') <= MaxWaiters
<1>0. /\ MaxWaiters \in Nat /\ Waiting \subseteq Calls /\ pc \in [Calls -> Steps]
      /\ \A S \in SUBSET Calls : IsFiniteSet(S) /\ Cardinality(S) \in Nat
  BY MemoryAssumption, CallSets DEF Waiting, IInv, Types, TypeOK
<1>1. ASSUME Waiting' \subseteq Waiting PROVE Cardinality(Waiting') <= MaxWaiters
  <2>1. Cardinality(Waiting') <= Cardinality(Waiting)
    BY <1>0, <1>1, FS_Subset
  <2>2. Waiting' \subseteq Calls
    BY <1>0, <1>1
  <2> QED
    BY <1>0, <2>1, <2>2 DEF Bounded
<1>2. ASSUME NEW c \in Calls, Acquire(c) PROVE Cardinality(Waiting') <= MaxWaiters
  <2>1. CASE pc' = [pc EXCEPT ![c] = "queued"] /\ Cardinality(Waiting) < MaxWaiters
    <3>1. Waiting' = Waiting \cup {c} /\ c \notin Waiting
      BY <1>0, <1>2, <2>1 DEF Waiting, Acquire
    <3>2. Cardinality(Waiting') = Cardinality(Waiting) + 1
      BY <1>0, <3>1, OneMore
    <3> QED
      BY <1>0, <2>1, <3>2
  <2>2. CASE pc' = [pc EXCEPT ![c] = "token"] \/ pc' = [pc EXCEPT ![c] = "released"]
    BY <1>0, <1>1, <2>2 DEF Waiting
  <2> QED
    BY <1>2, <2>1, <2>2 DEF Acquire, TakeToken, Conclude, Goto
<1>3. ASSUME NEW c \in Calls, CallStep(c) \/ Cancel(c) \/ ClockFault(c), ~Acquire(c)
      PROVE  Cardinality(Waiting') <= MaxWaiters
  <2>1. \E step \in Steps \ {"queued"} : pc' = [pc EXCEPT ![c] = step]
    BY <1>3 DEF CallStep, Admit, Dequeue, TakeToken, CheckState, Capture, Apply, Release,
       Finish, Cancel, ClockFault, Conclude, Goto, Steps
  <2> QED
    BY <1>0, <1>1, <2>1 DEF Waiting
<1>4. ASSUME pc' = pc PROVE Cardinality(Waiting') <= MaxWaiters
  BY <1>1, <1>4 DEF Waiting
<1>5. ASSUME NEW q \in Closers, beginClose(q) \/ CloseStep(q) \/ AbandonClose(q)
      PROVE  pc' = pc
  BY <1>5 DEF CloseStep, beginClose, waitForDrain, clearOnce, publishClosed, AbandonClose,
     callVars
<1>6. CASE Tick \/ UNCHANGED vars
  BY <1>4, <1>6 DEF Tick, vars, callVars
<1> QED
  BY <1>2, <1>3, <1>4, <1>5, <1>6 DEF Next

(* LimitsHold: the map never holds more than MaxEntries records and no     *)
(* more than MaxWaiters calls queue for the token, through takeovers,      *)
(* partial pruning and closing (insertEntry, acquireToken).                *)
THEOREM LimitsHold ==
    Spec => [](Cardinality(Present) <= MaxEntries /\ Cardinality(Waiting) <= MaxWaiters)
<1>1. Init => Bounded
  <2> SUFFICES ASSUME Init PROVE Bounded
    OBVIOUS
  <2>1. Present = {} /\ Waiting = {}
    BY DEF Init, Present, Waiting
  <2> QED
    BY <2>1, FS_EmptySet, MemoryAssumption DEF Bounded
<1>2. IInv /\ Bounded /\ [Next]_vars => Bounded'
  BY EntriesBounded, WaitersBounded DEF Bounded
<1> QED
  BY <1>1, <1>2, MemoryInvariant, PTL DEF Spec, Bounded
============================================================================
