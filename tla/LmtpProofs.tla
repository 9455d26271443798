----------------------------- MODULE LmtpProofs ------------------------------
(***************************************************************************)
(* Proofs about the LMTP receiver of the DSN propagator: its listener, for *)
(* any connections, any number of callers of Close and any limit, and one  *)
(* session, for any forward paths and any sequence of commands.            *)
(*                                                                         *)
(* What makes Close safe is spread over three places: admit refuses under  *)
(* the lock once closed is set (Admission), the snapshot that shutdown     *)
(* takes in the same critical section therefore names every session that   *)
(* can still wait for a client (Snapshot), and the WaitGroup counts all of *)
(* them only because the accept loop was joined first (Quiet).             *)
(*                                                                         *)
(* The session comes last; it shares no state with the listener.           *)
(***************************************************************************)
EXTENDS LmtpRuntime, LmtpSession, FiniteSetTheorems, TLAPS

InSession == {"idle", "reading", "handling", "ending"}
Held      == {"slotted", "registered"} \cup InSession
AcceptOver == {"none", "exited"}
Joined    == {"drain", "forced", "cleanup", "done"}

Types ==
    /\ closed \in BOOLEAN /\ ready \in BOOLEAN /\ bounded \in BOOLEAN /\ drained \in BOOLEAN
    /\ failed \in BOOLEAN
    /\ listener \in {"none", "open", "closed"}
    /\ accept \in {"begin", "accepting", "slotted", "registered"} \cup AcceptOver
    /\ cur \in Conns \cup {NoConn}
    /\ conn \in [Conns -> {"none", "queued", "gone"} \cup Held]
    /\ once \in {"none", "unlisten", "join"} \cup Joined

\* The accept loop holds at most one connection, and that one only it moves.
Admission ==
    /\ start = "idle" => accept = "none"
    /\ accept \in {"slotted", "registered"} => cur \in Conns /\ conn[cur] = accept
    /\ \A c \in Conns : conn[c] \in {"slotted", "registered"} => accept = conn[c] /\ cur = c
    /\ \A c \in Conns : conn[c] \in {"registered", "idle", "reading", "handling"} => c \in active

\* Once closed, every session that may still wait for its client is in the snapshot.
Snapshot ==
    /\ closed <=> once # "none"
    /\ closed => \A c \in Conns :
          conn[c] \in {"registered", "idle", "reading", "handling"} => c \in snapshot
    /\ once = "forced" => snapshot \subseteq shut

\* A shutdown that has not failed joined the accept loop, and drained what it had left.
Quiet ==
    /\ once \in Joined /\ ~failed => accept \in AcceptOver
    /\ drained => once \in Joined
    /\ drained /\ ~failed => \A c \in Conns : conn[c] \notin InSession
    /\ once \in {"cleanup", "done"} /\ ~failed => drained

\* The WaitGroup counts the sessions; the slots, the admitted connections too.
Sessions == {c \in Conns : conn[c] \in InSession}
Holders  == {c \in Conns : conn[c] \in Held}
WaitCount == workers = Cardinality(Sessions)
SlotCount == slots = Cardinality(Holders) /\ slots <= MaxConnections

IInv == /\ Types /\ ReadyMeansAccepting /\ Admission /\ Snapshot /\ Quiet
        /\ WaitCount /\ SlotCount

-----------------------------------------------------------------------------
(***************************************************************************)
(* Counting.                                                               *)
(***************************************************************************)
\* The sessions are among finitely many connections.
LEMMA SessionsFinite == IsFiniteSet(Sessions)
BY RuntimeAssumption, FS_Subset DEF Sessions

\* So are the connections that hold a slot.
LEMMA HoldersFinite == IsFiniteSet(Holders)
BY RuntimeAssumption, FS_Subset DEF Holders

\* Nothing has happened: nobody is admitted and nothing is counted.
LEMMA InitIInv == Init => IInv
<1> SUFFICES ASSUME Init PROVE IInv
      OBVIOUS
<1>1. Types /\ ReadyMeansAccepting /\ Admission /\ Snapshot /\ Quiet
      BY RuntimeAssumption DEF Init, Types, ReadyMeansAccepting, Admission, Snapshot, Quiet,
         AcceptOver
<1>2. Sessions = {} /\ Holders = {}
      BY DEF Init, Sessions, Holders, InSession, Held
<1>3. WaitCount /\ SlotCount
      BY <1>2, FS_EmptySet, RuntimeAssumption DEF Init, WaitCount, SlotCount
<1>4. QED
      BY <1>1, <1>3 DEF IInv

\* A step that changes nothing keeps the invariant.
LEMMA StutterIInv == IInv /\ UNCHANGED vars => IInv'
BY DEF IInv, Types, ReadyMeansAccepting, Admission, Snapshot, Quiet, WaitCount, SlotCount,
   Sessions, Holders, vars, guardVars, poolVars, stopVars

-----------------------------------------------------------------------------
(***************************************************************************)
(* Start, the accept loop, the sessions and Close, step by step.           *)
(***************************************************************************)
\* Start binds the listener and launches the loop, which holds nothing yet.
LEMMA StartIInv ==
    ASSUME IInv, Start
    PROVE  IInv'
<1> USE DEF guardVars, poolVars, stopVars
<1>1. Types'
      BY DEF IInv, Types, Start
<1>2. ReadyMeansAccepting'
      BY DEF IInv, ReadyMeansAccepting, Admission, Start
<1>3. Admission'
      BY DEF IInv, Admission, Start
<1>4. Snapshot'
      BY DEF IInv, Snapshot, Start
<1>5. Quiet'
      BY DEF IInv, Quiet, Snapshot, Start, Joined
<1>6. WaitCount'
      BY DEF IInv, WaitCount, Sessions, Start
<1>7. SlotCount'
      BY DEF IInv, SlotCount, Holders, Start
<1>8. QED
      BY <1>1, <1>2, <1>3, <1>4, <1>5, <1>6, <1>7 DEF IInv

\* StartLive keeps the invariant.
LEMMA StartLiveIInv ==
    ASSUME IInv, StartLive
    PROVE  IInv'
<1> USE DEF guardVars, poolVars, stopVars
<1>1. Types'
      BY DEF IInv, Types, StartLive
<1>2. ReadyMeansAccepting'
      BY DEF IInv, ReadyMeansAccepting, StartLive
<1>3. Admission'
      BY DEF IInv, Admission, StartLive
<1>4. Snapshot'
      BY DEF IInv, Snapshot, StartLive
<1>5. Quiet'
      BY DEF IInv, Quiet, StartLive
<1>6. WaitCount'
      BY DEF IInv, WaitCount, Sessions, StartLive
<1>7. SlotCount'
      BY DEF IInv, SlotCount, Holders, StartLive
<1>8. QED
      BY <1>1, <1>2, <1>3, <1>4, <1>5, <1>6, <1>7 DEF IInv

\* StartCancelled keeps the invariant.
LEMMA StartCancelledIInv ==
    ASSUME IInv, StartCancelled
    PROVE  IInv'
<1> USE DEF guardVars, poolVars, stopVars
<1>1. Types'
      BY DEF IInv, Types, StartCancelled
<1>2. ReadyMeansAccepting'
      BY DEF IInv, ReadyMeansAccepting, StartCancelled
<1>3. Admission'
      BY DEF IInv, Admission, StartCancelled
<1>4. Snapshot'
      BY DEF IInv, Snapshot, StartCancelled
<1>5. Quiet'
      BY DEF IInv, Quiet, StartCancelled
<1>6. WaitCount'
      BY DEF IInv, WaitCount, Sessions, StartCancelled
<1>7. SlotCount'
      BY DEF IInv, SlotCount, Holders, StartCancelled
<1>8. QED
      BY <1>1, <1>2, <1>3, <1>4, <1>5, <1>6, <1>7 DEF IInv

\* StartAborted keeps the invariant.
LEMMA StartAbortedIInv ==
    ASSUME IInv, StartAborted
    PROVE  IInv'
<1> USE DEF guardVars, poolVars, stopVars
<1>1. Types'
      BY DEF IInv, Types, StartAborted
<1>2. ReadyMeansAccepting'
      BY DEF IInv, ReadyMeansAccepting, StartAborted
<1>3. Admission'
      BY DEF IInv, Admission, StartAborted
<1>4. Snapshot'
      BY DEF IInv, Snapshot, StartAborted
<1>5. Quiet'
      BY DEF IInv, Quiet, StartAborted
<1>6. WaitCount'
      BY DEF IInv, WaitCount, Sessions, StartAborted
<1>7. SlotCount'
      BY DEF IInv, SlotCount, Holders, StartAborted
<1>8. QED
      BY <1>1, <1>2, <1>3, <1>4, <1>5, <1>6, <1>7 DEF IInv

\* A start that gives up takes the same snapshot as Close.
LEMMA StartAbortsIInv ==
    ASSUME IInv, StartAborts
    PROVE  IInv'
<1> USE DEF guardVars, poolVars, stopVars
<1>1. Types'
      BY DEF IInv, Types, StartAborts, ShutdownBegin
<1>2. ReadyMeansAccepting'
      BY DEF ReadyMeansAccepting, StartAborts, ShutdownBegin
<1>3. Admission'
      BY DEF IInv, Admission, StartAborts
<1>4. Snapshot'
      BY DEF IInv, Snapshot, Admission, StartAborts, ShutdownBegin
<1>5. Quiet'
      BY DEF IInv, Quiet, StartAborts, ShutdownBegin, Joined
<1>6. WaitCount'
      BY DEF IInv, WaitCount, Sessions, StartAborts
<1>7. SlotCount'
      BY DEF IInv, SlotCount, Holders, StartAborts
<1>8. QED
      BY <1>1, <1>2, <1>3, <1>4, <1>5, <1>6, <1>7 DEF IInv

\* The loop looks at closed under the lock before it reports ready.
LEMMA AcceptBeginIInv ==
    ASSUME IInv, AcceptBegin
    PROVE  IInv'
<1> USE DEF guardVars, poolVars, stopVars
<1>1. Types'
      BY DEF IInv, Types, AcceptBegin, AcceptOver
<1>2. ReadyMeansAccepting'
      BY DEF IInv, ReadyMeansAccepting, AcceptBegin
<1>3. Admission'
      BY DEF IInv, Admission, AcceptBegin
<1>4. Snapshot'
      BY DEF IInv, Snapshot, AcceptBegin
<1>5. Quiet'
      BY DEF IInv, Quiet, AcceptBegin, AcceptOver
<1>6. WaitCount'
      BY DEF IInv, WaitCount, Sessions, AcceptBegin
<1>7. SlotCount'
      BY DEF IInv, SlotCount, Holders, AcceptBegin
<1>8. QED
      BY <1>1, <1>2, <1>3, <1>4, <1>5, <1>6, <1>7 DEF IInv

\* A connection gets a slot only while one is free.
LEMMA AcceptIInv ==
    ASSUME NEW c \in Conns, IInv, Accept(c)
    PROVE  IInv'
<1> USE DEF guardVars, poolVars, stopVars
<1>1. Types'
      BY DEF IInv, Types, Accept, Conn, Held
<1>2. ReadyMeansAccepting'
      BY DEF IInv, ReadyMeansAccepting, Accept
<1>3. Admission'
      BY DEF IInv, Admission, Types, Accept, Conn
<1>4. Snapshot'
      BY DEF IInv, Snapshot, Types, Accept, Conn
<1>5. Quiet'
      BY DEF IInv, Quiet, Accept, AcceptOver
<1>6. Sessions' = Sessions
      BY DEF IInv, Types, Sessions, InSession, Accept, Conn
<1>7. IF slots < MaxConnections THEN c \notin Holders /\ Holders' = Holders \cup {c}
      ELSE Holders' = Holders
      BY DEF IInv, Types, Holders, InSession, Held, Accept, Conn
<1>8. WaitCount'
      BY <1>6 DEF IInv, WaitCount, Accept
<1>9. SlotCount'
      BY <1>7, HoldersFinite, FS_AddElement, FS_CardinalityType, RuntimeAssumption DEF IInv,
         SlotCount, Accept
<1>10. QED
      BY <1>1, <1>2, <1>3, <1>4, <1>5, <1>8, <1>9 DEF IInv

\* admit decides under the lock: after closed it returns the slot, before it the
\* connection is active and so in any later snapshot.
LEMMA admitIInv ==
    ASSUME IInv, admit
    PROVE  IInv'
<1> USE DEF guardVars, poolVars, stopVars
<1>1. Types'
      BY DEF IInv, Types, admit, Conn, Held
<1>2. ReadyMeansAccepting'
      BY DEF IInv, ReadyMeansAccepting, admit
<1>3. Admission'
      BY DEF IInv, Admission, Types, admit, Conn
<1>4. Snapshot'
      BY DEF IInv, Snapshot, Types, admit, Conn
<1>5. Quiet'
      BY DEF IInv, Quiet, admit, AcceptOver
<1>6. Sessions' = Sessions
      BY DEF IInv, Types, Admission, Sessions, InSession, admit, Conn
<1>7. IF closed THEN cur \in Holders /\ Holders' = Holders \ {cur}
      ELSE Holders' = Holders
      BY DEF IInv, Types, Admission, Holders, InSession, Held, admit, Conn
<1>8. WaitCount'
      BY <1>6 DEF IInv, WaitCount, admit
<1>9. SlotCount'
      BY <1>7, HoldersFinite, FS_RemoveElement, FS_CardinalityType, RuntimeAssumption DEF IInv,
         SlotCount, admit
<1>10. QED
      BY <1>1, <1>2, <1>3, <1>4, <1>5, <1>8, <1>9 DEF IInv

\* The WaitGroup takes over what the loop held: not after the loop was joined.
LEMMA LaunchIInv ==
    ASSUME IInv, Launch
    PROVE  IInv'
<1> USE DEF guardVars, poolVars, stopVars
<1>1. Types'
      BY DEF IInv, Types, Launch, Conn, InSession, Held
<1>2. ReadyMeansAccepting'
      BY DEF IInv, ReadyMeansAccepting, Launch
<1>3. Admission'
      BY DEF IInv, Admission, Types, Launch, Conn
<1>4. Snapshot'
      BY DEF IInv, Snapshot, Admission, Launch, Conn
<1>5. Quiet'
      BY DEF IInv, Quiet, Launch, AcceptOver
<1>6. cur \notin Sessions /\ Sessions' = Sessions \cup {cur}
      BY DEF IInv, Types, Admission, Sessions, InSession, Launch, Conn
<1>7. Holders' = Holders
      BY DEF IInv, Admission, Holders, InSession, Held, Launch, Conn
<1>8. WaitCount'
      BY <1>6, SessionsFinite, FS_AddElement DEF IInv, WaitCount, Launch
<1>9. SlotCount'
      BY <1>7 DEF IInv, SlotCount, Launch
<1>10. QED
      BY <1>1, <1>2, <1>3, <1>4, <1>5, <1>8, <1>9 DEF IInv

\* AcceptExit keeps the invariant.
LEMMA AcceptExitIInv ==
    ASSUME IInv, AcceptExit
    PROVE  IInv'
<1> USE DEF guardVars, poolVars, stopVars
<1>1. Types'
      BY DEF IInv, Types, AcceptExit, AcceptOver
<1>2. ReadyMeansAccepting'
      BY DEF ReadyMeansAccepting, AcceptExit
<1>3. Admission'
      BY DEF IInv, Admission, AcceptExit
<1>4. Snapshot'
      BY DEF IInv, Snapshot, AcceptExit
<1>5. Quiet'
      BY DEF IInv, Quiet, AcceptExit, AcceptOver
<1>6. WaitCount'
      BY DEF IInv, WaitCount, Sessions, AcceptExit
<1>7. SlotCount'
      BY DEF IInv, SlotCount, Holders, AcceptExit
<1>8. QED
      BY <1>1, <1>2, <1>3, <1>4, <1>5, <1>6, <1>7 DEF IInv

\* Connect keeps the invariant.
LEMMA ConnectIInv ==
    ASSUME NEW c \in Conns, IInv, Connect(c)
    PROVE  IInv'
<1> USE DEF guardVars, poolVars, stopVars
<1>1. Types'
      BY DEF IInv, Types, Connect, Conn
<1>2. ReadyMeansAccepting'
      BY DEF IInv, ReadyMeansAccepting, Connect
<1>3. Admission'
      BY DEF IInv, Admission, Connect, Conn
<1>4. Snapshot'
      BY DEF IInv, Snapshot, Connect, Conn
<1>5. Quiet'
      BY DEF IInv, Quiet, Connect, Conn, InSession
<1>6. Sessions' = Sessions /\ Holders' = Holders
      BY DEF Sessions, Holders, InSession, Held, Connect, Conn
<1>7. WaitCount'
      BY <1>6 DEF IInv, WaitCount, Connect
<1>8. SlotCount'
      BY <1>6 DEF IInv, SlotCount, Connect
<1>9. QED
      BY <1>1, <1>2, <1>3, <1>4, <1>5, <1>7, <1>8 DEF IInv

\* SessionLoop keeps the invariant.
LEMMA SessionLoopIInv ==
    ASSUME NEW c \in Conns, IInv, SessionLoop(c)
    PROVE  IInv'
<1> USE DEF guardVars, poolVars, stopVars
<1>1. Types'
      BY DEF IInv, Types, SessionLoop, Conn, InSession, Held
<1>2. ReadyMeansAccepting'
      BY DEF IInv, ReadyMeansAccepting, SessionLoop
<1>3. Admission'
      BY DEF IInv, Admission, SessionLoop, Conn
<1>4. Snapshot'
      BY DEF IInv, Snapshot, SessionLoop, Conn
<1>5. Quiet'
      BY DEF IInv, Quiet, SessionLoop, InSession
<1>6. Sessions' = Sessions /\ Holders' = Holders
      BY DEF Sessions, Holders, InSession, Held, SessionLoop, Conn
<1>7. WaitCount'
      BY <1>6 DEF IInv, WaitCount, SessionLoop
<1>8. SlotCount'
      BY <1>6 DEF IInv, SlotCount, SessionLoop
<1>9. QED
      BY <1>1, <1>2, <1>3, <1>4, <1>5, <1>7, <1>8 DEF IInv

\* SessionRead keeps the invariant.
LEMMA SessionReadIInv ==
    ASSUME NEW c \in Conns, IInv, SessionRead(c)
    PROVE  IInv'
<1> USE DEF guardVars, poolVars, stopVars
<1>1. Types'
      BY DEF IInv, Types, SessionRead, Conn, InSession, Held
<1>2. ReadyMeansAccepting'
      BY DEF IInv, ReadyMeansAccepting, SessionRead
<1>3. Admission'
      BY DEF IInv, Admission, Types, SessionRead, Conn
<1>4. Snapshot'
      BY DEF IInv, Snapshot, Types, SessionRead, Conn
<1>5. Quiet'
      BY DEF IInv, Quiet, SessionRead, InSession
<1>6. Sessions' = Sessions /\ Holders' = Holders
      BY DEF IInv, Types, Sessions, Holders, InSession, Held, SessionRead, Conn
<1>7. WaitCount'
      BY <1>6 DEF IInv, WaitCount, SessionRead
<1>8. SlotCount'
      BY <1>6 DEF IInv, SlotCount, SessionRead
<1>9. QED
      BY <1>1, <1>2, <1>3, <1>4, <1>5, <1>7, <1>8 DEF IInv

\* SessionReply keeps the invariant.
LEMMA SessionReplyIInv ==
    ASSUME NEW c \in Conns, IInv, SessionReply(c)
    PROVE  IInv'
<1> USE DEF guardVars, poolVars, stopVars
<1>1. Types'
      BY DEF IInv, Types, SessionReply, Conn, InSession, Held
<1>2. ReadyMeansAccepting'
      BY DEF IInv, ReadyMeansAccepting, SessionReply
<1>3. Admission'
      BY DEF IInv, Admission, SessionReply, Conn
<1>4. Snapshot'
      BY DEF IInv, Snapshot, SessionReply, Conn
<1>5. Quiet'
      BY DEF IInv, Quiet, SessionReply, InSession
<1>6. Sessions' = Sessions /\ Holders' = Holders
      BY DEF Sessions, Holders, InSession, Held, SessionReply, Conn
<1>7. WaitCount'
      BY <1>6 DEF IInv, WaitCount, SessionReply
<1>8. SlotCount'
      BY <1>6 DEF IInv, SlotCount, SessionReply
<1>9. QED
      BY <1>1, <1>2, <1>3, <1>4, <1>5, <1>7, <1>8 DEF IInv

\* The end of a session returns its slot and its count together.
LEMMA SessionEndIInv ==
    ASSUME NEW c \in Conns, IInv, SessionEnd(c)
    PROVE  IInv'
<1> USE DEF guardVars, poolVars, stopVars
<1>1. Types'
      BY DEF IInv, Types, SessionEnd, Conn
<1>2. ReadyMeansAccepting'
      BY DEF IInv, ReadyMeansAccepting, SessionEnd
<1>3. Admission'
      BY DEF IInv, Admission, Types, SessionEnd, Conn
<1>4. Snapshot'
      BY DEF IInv, Snapshot, Types, SessionEnd, Conn
<1>5. Quiet'
      BY DEF IInv, Quiet, SessionEnd, InSession
<1>6. IF c \in active THEN Sessions' = Sessions
      ELSE c \in Sessions /\ Sessions' = Sessions \ {c}
      BY DEF IInv, Types, Sessions, InSession, SessionEnd, Conn
<1>7. IF c \in active THEN Holders' = Holders
      ELSE c \in Holders /\ Holders' = Holders \ {c}
      BY DEF IInv, Types, Holders, InSession, Held, SessionEnd, Conn
<1>8. WaitCount'
      BY <1>6, SessionsFinite, FS_RemoveElement DEF IInv, WaitCount, SessionEnd
<1>9. SlotCount'
      BY <1>7, HoldersFinite, FS_RemoveElement, FS_CardinalityType, RuntimeAssumption DEF IInv,
         SlotCount, SessionEnd
<1>10. QED
      BY <1>1, <1>2, <1>3, <1>4, <1>5, <1>8, <1>9 DEF IInv

\* The first Close takes the snapshot in the critical section that sets closed.
LEMMA CloseIInv ==
    ASSUME NEW q \in Closers, IInv, Close(q)
    PROVE  IInv'
<1> USE DEF guardVars, poolVars, stopVars
<1>1. Types'
  <2>1. CASE once = "none"
        BY <2>1 DEF IInv, Types, Close, ShutdownBegin
  <2>2. CASE once # "none"
        BY <2>2 DEF IInv, Types, Close
  <2>3. QED
        BY <2>1, <2>2
<1>2. ReadyMeansAccepting'
      BY DEF IInv, ReadyMeansAccepting, Close, ShutdownBegin
<1>3. Admission'
      BY DEF IInv, Admission, Close
<1>4. Snapshot'
      BY DEF IInv, Snapshot, Admission, Close, ShutdownBegin
<1>5. Quiet'
      BY DEF IInv, Quiet, Close, ShutdownBegin, Joined
<1>6. WaitCount'
      BY DEF IInv, WaitCount, Sessions, Close
<1>7. SlotCount'
      BY DEF IInv, SlotCount, Holders, Close
<1>8. QED
      BY <1>1, <1>2, <1>3, <1>4, <1>5, <1>6, <1>7 DEF IInv

\* CloseReturn keeps the invariant.
LEMMA CloseReturnIInv ==
    ASSUME NEW q \in Closers, IInv, CloseReturn(q)
    PROVE  IInv'
<1> USE DEF guardVars, poolVars, stopVars
<1>1. Types'
      BY DEF IInv, Types, CloseReturn
<1>2. ReadyMeansAccepting'
      BY DEF IInv, ReadyMeansAccepting, CloseReturn
<1>3. Admission'
      BY DEF IInv, Admission, CloseReturn
<1>4. Snapshot'
      BY DEF IInv, Snapshot, CloseReturn
<1>5. Quiet'
      BY DEF IInv, Quiet, CloseReturn
<1>6. WaitCount'
      BY DEF IInv, WaitCount, Sessions, CloseReturn
<1>7. SlotCount'
      BY DEF IInv, SlotCount, Holders, CloseReturn
<1>8. QED
      BY <1>1, <1>2, <1>3, <1>4, <1>5, <1>6, <1>7 DEF IInv

\* CloseListener keeps the invariant.
LEMMA CloseListenerIInv ==
    ASSUME IInv, CloseListener
    PROVE  IInv'
<1> USE DEF guardVars, poolVars, stopVars
<1>1. Types'
      BY DEF IInv, Types, CloseListener
<1>2. ReadyMeansAccepting'
      BY DEF IInv, ReadyMeansAccepting, CloseListener
<1>3. Admission'
      BY DEF IInv, Admission, CloseListener
<1>4. Snapshot'
      BY DEF IInv, Snapshot, CloseListener
<1>5. Quiet'
      BY DEF IInv, Quiet, CloseListener, Joined
<1>6. WaitCount'
      BY DEF IInv, WaitCount, Sessions, CloseListener
<1>7. SlotCount'
      BY DEF IInv, SlotCount, Holders, CloseListener
<1>8. QED
      BY <1>1, <1>2, <1>3, <1>4, <1>5, <1>6, <1>7 DEF IInv

\* The join is the step after which no session can be added.
LEMMA JoinAcceptIInv ==
    ASSUME IInv, JoinAccept
    PROVE  IInv'
<1> USE DEF guardVars, poolVars, stopVars
<1>1. Types'
      BY DEF IInv, Types, JoinAccept, Joined
<1>2. ReadyMeansAccepting'
      BY DEF IInv, ReadyMeansAccepting, JoinAccept
<1>3. Admission'
      BY DEF IInv, Admission, JoinAccept
<1>4. Snapshot'
      BY DEF IInv, Snapshot, JoinAccept
<1>5. Quiet'
      BY DEF IInv, Quiet, JoinAccept, AcceptOver, Joined
<1>6. WaitCount'
      BY DEF IInv, WaitCount, Sessions, JoinAccept
<1>7. SlotCount'
      BY DEF IInv, SlotCount, Holders, JoinAccept
<1>8. QED
      BY <1>1, <1>2, <1>3, <1>4, <1>5, <1>6, <1>7 DEF IInv

\* The watcher sees zero: with the loop joined, no session is left.
LEMMA WatchWorkersIInv ==
    ASSUME IInv, WatchWorkers
    PROVE  IInv'
<1> USE DEF guardVars, poolVars, stopVars
<1>1. Types'
      BY DEF IInv, Types, WatchWorkers
<1>2. ReadyMeansAccepting'
      BY DEF IInv, ReadyMeansAccepting, WatchWorkers
<1>3. Admission'
      BY DEF IInv, Admission, WatchWorkers
<1>4. Snapshot'
      BY DEF IInv, Snapshot, WatchWorkers
<1>5. Sessions = {}
      BY SessionsFinite, FS_EmptySet DEF IInv, WaitCount, WatchWorkers
<1>6. Quiet'
      BY <1>5 DEF IInv, Quiet, Sessions, WatchWorkers, Joined
<1>7. WaitCount'
      BY DEF IInv, WaitCount, Sessions, WatchWorkers
<1>8. SlotCount'
      BY DEF IInv, SlotCount, Holders, WatchWorkers
<1>9. QED
      BY <1>1, <1>2, <1>3, <1>4, <1>6, <1>7, <1>8 DEF IInv

\* Drained keeps the invariant.
LEMMA DrainedIInv ==
    ASSUME IInv, Drained
    PROVE  IInv'
<1> USE DEF guardVars, poolVars, stopVars
<1>1. Types'
      BY DEF IInv, Types, Drained, Joined
<1>2. ReadyMeansAccepting'
      BY DEF IInv, ReadyMeansAccepting, Drained
<1>3. Admission'
      BY DEF IInv, Admission, Drained
<1>4. Snapshot'
      BY DEF IInv, Snapshot, Drained
<1>5. Quiet'
      BY DEF IInv, Quiet, Drained, Joined
<1>6. WaitCount'
      BY DEF IInv, WaitCount, Sessions, Drained
<1>7. SlotCount'
      BY DEF IInv, SlotCount, Holders, Drained
<1>8. QED
      BY <1>1, <1>2, <1>3, <1>4, <1>5, <1>6, <1>7 DEF IInv

\* ForceStreams keeps the invariant.
LEMMA ForceStreamsIInv ==
    ASSUME IInv, ForceStreams
    PROVE  IInv'
<1> USE DEF guardVars, poolVars, stopVars
<1>1. Types'
      BY DEF IInv, Types, ForceStreams, Joined
<1>2. ReadyMeansAccepting'
      BY DEF IInv, ReadyMeansAccepting, ForceStreams
<1>3. Admission'
      BY DEF IInv, Admission, ForceStreams
<1>4. Snapshot'
      BY DEF IInv, Snapshot, ForceStreams
<1>5. Quiet'
      BY DEF IInv, Quiet, ForceStreams, Joined
<1>6. WaitCount'
      BY DEF IInv, WaitCount, Sessions, ForceStreams
<1>7. SlotCount'
      BY DEF IInv, SlotCount, Holders, ForceStreams
<1>8. QED
      BY <1>1, <1>2, <1>3, <1>4, <1>5, <1>6, <1>7 DEF IInv

\* GiveUp keeps the invariant.
LEMMA GiveUpIInv ==
    ASSUME IInv, GiveUp
    PROVE  IInv'
<1> USE DEF guardVars, poolVars, stopVars
<1>1. Types'
      BY DEF IInv, Types, GiveUp, Joined
<1>2. ReadyMeansAccepting'
      BY DEF IInv, ReadyMeansAccepting, GiveUp
<1>3. Admission'
      BY DEF IInv, Admission, GiveUp
<1>4. Snapshot'
      BY DEF IInv, Snapshot, GiveUp
<1>5. Quiet'
      BY DEF Quiet, GiveUp, Joined
<1>6. WaitCount'
      BY DEF IInv, WaitCount, Sessions, GiveUp
<1>7. SlotCount'
      BY DEF IInv, SlotCount, Holders, GiveUp
<1>8. QED
      BY <1>1, <1>2, <1>3, <1>4, <1>5, <1>6, <1>7 DEF IInv

\* Cleanup keeps the invariant.
LEMMA CleanupIInv ==
    ASSUME IInv, Cleanup
    PROVE  IInv'
<1> USE DEF guardVars, poolVars, stopVars
<1>1. Types'
      BY DEF IInv, Types, Cleanup, Joined
<1>2. ReadyMeansAccepting'
      BY DEF IInv, ReadyMeansAccepting, Cleanup
<1>3. Admission'
      BY DEF IInv, Admission, Cleanup
<1>4. Snapshot'
      BY DEF IInv, Snapshot, Cleanup
<1>5. Quiet'
      BY DEF IInv, Quiet, Cleanup, Joined
<1>6. WaitCount'
      BY DEF IInv, WaitCount, Sessions, Cleanup
<1>7. SlotCount'
      BY DEF IInv, SlotCount, Holders, Cleanup
<1>8. QED
      BY <1>1, <1>2, <1>3, <1>4, <1>5, <1>6, <1>7 DEF IInv

-----------------------------------------------------------------------------
(***************************************************************************)
(* Theorems.                                                               *)
(***************************************************************************)
\* Every behaviour of the listener keeps the invariant, for any connections,
\* any callers of Close and any max_connections.
THEOREM Invariance == Spec => []IInv
<1>1. IInv /\ [Next]_vars => IInv'
  <2> SUFFICES ASSUME IInv, [Next]_vars PROVE IInv'
        OBVIOUS
  <2>1. CASE Start \/ StartLive \/ StartCancelled \/ StartAborted \/ StartAborts
        BY <2>1, StartIInv, StartLiveIInv, StartCancelledIInv, StartAbortedIInv, StartAbortsIInv
  <2>2. CASE AcceptStep
        BY <2>2, AcceptBeginIInv, admitIInv, LaunchIInv, AcceptExitIInv, AcceptIInv DEF AcceptStep
  <2>3. CASE \E c \in Conns : Connect(c) \/ SessionStep(c) \/ SessionReply(c)
        BY <2>3, ConnectIInv, SessionLoopIInv, SessionReadIInv, SessionEndIInv, SessionReplyIInv DEF
           SessionStep
  <2>4. CASE \E q \in Closers : Close(q) \/ CloseReturn(q)
        BY <2>4, CloseIInv, CloseReturnIInv
  <2>5. CASE StopStep
        BY <2>5, CloseListenerIInv, JoinAcceptIInv, WatchWorkersIInv, DrainedIInv, ForceStreamsIInv,
           GiveUpIInv, CleanupIInv DEF StopStep
  <2>6. CASE UNCHANGED vars
        BY <2>6, StutterIInv
  <2>7. QED
        BY <2>1, <2>2, <2>3, <2>4, <2>5, <2>6 DEF Next
<1>2. QED
      BY InitIInv, <1>1, PTL DEF Spec

\* The listener reports ready only while its accept loop runs and nobody has
\* begun to close it (runtimeGuard.ready).
THEOREM ReadyMeansAcceptingHolds == Spec => []ReadyMeansAccepting
<1>1. IInv => ReadyMeansAccepting
      BY DEF IInv
<1>2. QED
      BY Invariance, <1>1, PTL

\* When Close reports success the accept loop has ended and no connection holds
\* a slot: a session would have been counted, an admitted one held by the loop.
THEOREM CleanCloseIsQuietHolds == Spec => []CleanCloseIsQuiet
<1>1. IInv => CleanCloseIsQuiet
  <2> SUFFICES ASSUME IInv, once = "done", ~failed
               PROVE  accept \in AcceptOver /\ \A c \in Conns : ~HoldsSlot(c)
        BY DEF CleanCloseIsQuiet, AcceptOver
  <2>1. accept \in AcceptOver /\ \A c \in Conns : conn[c] \notin InSession
        BY DEF IInv, Quiet
  <2>2. \A c \in Conns : conn[c] \notin {"slotted", "registered"}
        BY <2>1 DEF IInv, Admission, AcceptOver
  <2>3. QED
        BY <2>1, <2>2 DEF HoldsSlot, InSession
<1>2. QED
      BY Invariance, <1>1, PTL

\* Once the deadline has forced the sessions, every session that waits for its
\* client has had its stream closed, also one admitted while Close began.
THEOREM NoneOverlookedHolds == Spec => []NoneOverlooked
<1>1. IInv => NoneOverlooked
      BY DEF IInv, Snapshot, NoneOverlooked
<1>2. QED
      BY Invariance, <1>1, PTL

\* No more than max_connections connections hold a slot, and the counter the
\* accept loop compares is exactly their number: no slot leaks or is returned
\* twice on any path of admit, serve and Close.
THEOREM SlotsExact ==
    Spec => [](slots = Cardinality({c \in Conns : HoldsSlot(c)}) /\ slots <= MaxConnections)
<1>1. IInv => slots = Cardinality({c \in Conns : HoldsSlot(c)}) /\ slots <= MaxConnections
  <2>1. Holders = {c \in Conns : HoldsSlot(c)}
        BY DEF Holders, HoldsSlot, Held, InSession
  <2>2. QED
        BY <2>1 DEF IInv, SlotCount
<1>2. QED
      BY Invariance, <1>1, PTL

-----------------------------------------------------------------------------
(***************************************************************************)
(* One session.                                                            *)
(***************************************************************************)
\* The inductive invariant: server and client agree and the fields have types.
SessionInv == SessionTypeOK /\ ViewsAgree

\* A command keeps server and client in agreement.
LEMMA CommandStep ==
    ASSUME SessionInv, [SessionNext]_sessionVars
    PROVE  SessionInv'
<1> USE SessionAssumption DEF SessionInv, SessionTypeOK, ViewsAgree, Views, NoMail, Codes,
        AtCommand, Emit, Refuse, resetTransaction, serverVars
<1>1. CASE handleLHLO
  BY <1>1 DEF handleLHLO
<1>2. CASE handleMail
  BY <1>2 DEF handleMail
<1>3. CASE handleRecipient
  BY <1>3 DEF handleRecipient
<1>4. CASE handleData
  BY <1>4 DEF handleData
<1>5. CASE Collected
  BY <1>5 DEF Collected, Delivery
<1>6. CASE RSET
  BY <1>6 DEF RSET
<1>7. CASE Other
  BY <1>7 DEF Other
<1>8. CASE End
  BY <1>8 DEF End
<1>9. CASE UNCHANGED sessionVars
  BY <1>9 DEF sessionVars
<1>10. QED
  BY <1>1, <1>2, <1>3, <1>4, <1>5, <1>6, <1>7, <1>8, <1>9 DEF SessionNext

\* The invariant holds at all times.
LEMMA SessionInvariant == SessionSpec => []SessionInv
<1>1. SessionInit => SessionInv
  BY SessionAssumption DEF SessionInit, SessionInv, SessionTypeOK, ViewsAgree, Views, NoMail,
     Codes
<1>2. SessionInv /\ [SessionNext]_sessionVars => SessionInv'
  BY CommandStep
<1>3. QED
  BY <1>1, <1>2, PTL DEF SessionSpec

\* No sequence of commands makes the server's idea of the transaction differ from the
\* one its replies reported (lmtp.go, dispatch).
THEOREM ClientAndServerAgree == SessionSpec => []ViewsAgree
<1>1. SessionInv => ViewsAgree
  BY DEF SessionInv
<1>2. QED
  BY <1>1, SessionInvariant, PTL

\* The handler is only ever given the complete transaction the client was told had been
\* accepted (lmtp.go, handleData).
THEOREM HandlerGetsTheTransaction == SessionSpec => HandsOverTheTransaction
<1>1. SessionInv /\ [SessionNext]_sessionVars =>
          [handed' # handed => handed' = view /\ view.rcpt \in Paths]_sessionVars
  <2> SUFFICES ASSUME SessionInv, SessionNext, handed' # handed
               PROVE  handed' = view /\ view.rcpt \in Paths
    BY DEF sessionVars
  <2>1. Collected
    BY DEF SessionNext, handleLHLO, handleMail, handleRecipient, handleData, RSET, Other,
       End, Emit, Refuse
  <2>2. handed' = Delivery
    BY <2>1 DEF Collected
  <2>3. /\ view.mail = "null" /\ view.utf8 = smtputf8 /\ view.rcpt = forwardPath
        /\ view.rcpt \in Paths
    BY <2>1 DEF Collected, SessionInv, SessionTypeOK, ViewsAgree, Views
  <2>4. view = [mail |-> "null", utf8 |-> smtputf8, rcpt |-> forwardPath]
    BY <2>3 DEF SessionInv, SessionTypeOK, Views
  <2>5. QED
    BY <2>2, <2>3, <2>4 DEF Delivery
<1>2. QED
  BY <1>1, SessionInvariant, PTL DEF SessionSpec, HandsOverTheTransaction

=============================================================================
