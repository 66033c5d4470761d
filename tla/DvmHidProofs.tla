---------------------------- MODULE DvmHidProofs ----------------------------
(***************************************************************************)
(* Proofs about DvmHid for every queue capacity, set of epochs and number  *)
(* of callbacks: type correctness, and that the reader, the worker and the *)
(* event system agree on the finger as long as nothing is lost.            *)
(***************************************************************************)
EXTENDS DvmHid, SequenceTheorems, TLAPS

(***************************************************************************)
(* TypeOK is not inductive: failures reaches 2 only on the way to the      *)
(* recovery that resets it, so the worker never posts with failures = 2.   *)
(***************************************************************************)
FailuresBounded ==
    /\ worker = "dispatch" => failures < 2
    /\ failures = 2 => needRecovery

TypeInv == TypeOK /\ FailuresBounded

\* The operations handle() builds are operations.
LEMMA OpTypes ==
    /\ UpOp \in Op /\ DownOp \in Op /\ MoveOp \in Op /\ WheelOp \in Op
    /\ \A d \in BOOLEAN : ButtonOp(d) \in Op
  BY DEF Op, UpOp, DownOp, MoveOp, WheelOp, ButtonOp

\* A lift asked for by release_contact or by a new epoch.
LEMMA ReleaseType == \A h : Release(h) \in Seq(Op)
  BY OpTypes DEF Release

LEMMA EpilogueType == \A r : Epilogue(r) \in Seq(Op)
  BY ReleaseType DEF Epilogue

\* queue_op keeps the queue a queue of operations within its capacity.
LEMMA EnqueueType ==
    ASSUME NEW q \in Seq(Op), NEW asked \in Seq(Op), Len(q) <= OpQueue
    PROVE  /\ Enqueue(q, asked) \in Seq(Op)
           /\ Len(Enqueue(q, asked)) <= OpQueue
<1>1. CASE Len(q) + Len(asked) <= OpQueue
  BY <1>1, OpQueueAssumption DEF Enqueue
<1>2. CASE Len(q) + Len(asked) > OpQueue
  <2> DEFINE all == q \o asked
  <2>1. all \in Seq(Op) /\ Len(all) = Len(q) + Len(asked)
    OBVIOUS
  <2>2. SubSeq(all, 1, OpQueue) \in Seq(Op) /\ Len(SubSeq(all, 1, OpQueue)) = OpQueue
    BY <2>1, <1>2, OpQueueAssumption
  <2> QED
    BY <2>2, <1>2, OpQueueAssumption DEF Enqueue
<1> QED
  BY <1>1, <1>2, OpQueueAssumption

\* Whatever handle() asks for, the variables it writes keep their types.
LEMMA AnswerType ==
    ASSUME TypeInv, NEW r \in Records, NEW asked \in Seq(Op), NEW h \in BOOLEAN,
           Answer(r, asked, h),
           state' \in {"I", "R", "L"}, notifying' \in 0..MaxNotify
    PROVE  TypeInv'
<1>1. ops' \in Seq(Op) /\ Len(ops') <= OpQueue
  BY EnqueueType DEF TypeInv, TypeOK, Answer
<1>2. epoch' \in Epochs \cup {BootEpoch}
  BY DEF Answer, Records
<1> QED
  BY <1>1, <1>2 DEF TypeInv, TypeOK, FailuresBounded, Answer, workerVars

\* One record of any kind.
LEMMA HandleType ==
    ASSUME TypeInv, NEW r \in Records, Handle(r)
    PROVE  TypeInv'
<1> USE OpTypes, ReleaseType, EpilogueType
<1>0. StillHeld(r) \in BOOLEAN /\ r.down \in BOOLEAN
  BY DEF StillHeld, NewEpoch, Records, TypeInv, TypeOK
<1>1. CASE HandlePing(r)
  <2>1. Answer(r, Epilogue(r), StillHeld(r))
    BY <1>1 DEF HandlePing
  <2>2. state' \in {"I", "R", "L"} /\ notifying' \in 0..MaxNotify
    BY <1>1 DEF HandlePing, TypeInv, TypeOK
  <2> QED
    BY <1>0, <2>1, <2>2, AnswerType
<1>2. ASSUME NEW s \in {state, "L"},
             \/ HandleCancel(r, s) \/ HandleButton(r, s) \/ HandleWheel(r, s)
             \/ HandleTouchNotReady(r, s) \/ HandleDown(r, s)
             \/ HandleMove(r, s) \/ HandleUp(r, s)
      PROVE  TypeInv'
  <2>1. SecondRead(s)
    BY <1>2 DEF HandleCancel, HandleButton, HandleWheel, HandleTouchNotReady,
                HandleDown, HandleMove, HandleUp
  <2>2. state' \in {"I", "R", "L"} /\ notifying' \in 0..MaxNotify
    BY <2>1, MaxNotifyAssumption DEF SecondRead, NotifyWrites, TypeInv, TypeOK
  <2>3. ASSUME NEW asked \in Seq(Op), NEW h \in BOOLEAN, Answer(r, asked, h)
        PROVE  TypeInv'
    BY <2>2, <2>3, AnswerType
  <2>4. CASE HandleCancel(r, s)
    <3>1. Epilogue(r) \o (IF s = "R" THEN Release(StillHeld(r)) ELSE <<>>) \in Seq(Op)
      BY <1>0
    <3> QED
      BY <1>0, <3>1, <2>3, <2>4 DEF HandleCancel
  <2>5. CASE HandleButton(r, s)
    <3>1. Epilogue(r) \o (IF s = "R" THEN <<ButtonOp(r.down)>> ELSE <<>>) \in Seq(Op)
      BY <1>0
    <3> QED
      BY <1>0, <3>1, <2>3, <2>5 DEF HandleButton
  <2>6. CASE HandleWheel(r, s)
    <3>1. Epilogue(r) \o (IF s = "R" /\ ~StillHeld(r) THEN <<WheelOp>> ELSE <<>>) \in Seq(Op)
      BY <1>0
    <3> QED
      BY <1>0, <3>1, <2>3, <2>6 DEF HandleWheel
  <2>7. CASE HandleTouchNotReady(r, s)
    BY <1>0, <2>3, <2>7 DEF HandleTouchNotReady
  <2>8. CASE HandleDown(r, s)
    <3>1. Epilogue(r) \o Release(StillHeld(r)) \o <<DownOp>> \in Seq(Op)
      BY <1>0
    <3> QED
      BY <1>0, <3>1, <2>3, <2>8 DEF HandleDown
  <2>9. CASE HandleMove(r, s)
    <3>1. Epilogue(r) \o (IF StillHeld(r) THEN <<MoveOp>> ELSE <<>>) \in Seq(Op)
      BY <1>0
    <3> QED
      BY <1>0, <3>1, <2>3, <2>9 DEF HandleMove
  <2>10. CASE HandleUp(r, s)
    <3>1. Epilogue(r) \o Release(StillHeld(r)) \in Seq(Op)
      BY <1>0
    <3> QED
      BY <1>0, <3>1, <2>3, <2>10 DEF HandleUp
  <2> QED
    BY <1>2, <2>4, <2>5, <2>6, <2>7, <2>8, <2>9, <2>10
<1> QED
  BY <1>1, <1>2 DEF Handle

\* The static initial values, at the first start ...
LEMMA InitType == Init => TypeInv
<1> SUFFICES ASSUME Init PROVE TypeInv
  OBVIOUS
<1>1. cur \in Op
  BY OpTypes DEF Init
<1>2. ops \in Seq(Op) /\ Len(ops) <= OpQueue
  BY OpQueueAssumption DEF Init
<1>3. service \in [Services -> {"null", "live", "dead"}]
  BY DEF Init
<1>4. notifying \in 0..MaxNotify
  BY MaxNotifyAssumption DEF Init
<1>5. /\ state \in {"I", "R", "L"}
      /\ needRecovery \in BOOLEAN
      /\ epoch \in Epochs \cup {BootEpoch}
      /\ held \in BOOLEAN
      /\ worker \in {"idle", "dispatch", "discarded", "rebuild", "rebuilt"}
      /\ hid \in {"touch", "opened", "buttons", "ok", "failed", "done"}
  BY DEF Init
<1>6. failures \in 0..2 /\ FailuresBounded
  BY DEF Init, FailuresBounded
<1>7. /\ contact \in BOOLEAN
      /\ reader \in {"reading", "eof", "closed", "crashed"}
      /\ loss \in {"none", "refused", "failed"}
  BY DEF Init
<1> QED
  BY <1>1, <1>2, <1>3, <1>4, <1>5, <1>6, <1>7 DEF TypeInv, TypeOK

\* ... and at every later one.
LEMMA FreshType ==
    ASSUME Fresh, contact' \in BOOLEAN,
           reader' \in {"reading", "eof", "closed", "crashed"},
           loss' \in {"none", "refused", "failed"}
    PROVE  TypeInv'
<1>1. cur' \in Op
  BY OpTypes DEF Fresh
<1>2. ops' \in Seq(Op) /\ Len(ops') <= OpQueue
  BY OpQueueAssumption DEF Fresh
<1>3. service' \in [Services -> {"null", "live", "dead"}]
  BY DEF Fresh
<1>4. notifying' \in 0..MaxNotify
  BY MaxNotifyAssumption DEF Fresh
<1>5. /\ state' \in {"I", "R", "L"}
      /\ needRecovery' \in BOOLEAN
      /\ epoch' \in Epochs \cup {BootEpoch}
      /\ held' \in BOOLEAN
      /\ worker' \in {"idle", "dispatch", "discarded", "rebuild", "rebuilt"}
      /\ hid' \in {"touch", "opened", "buttons", "ok", "failed", "done"}
  BY DEF Fresh
<1>6. failures' \in 0..2 /\ FailuresBounded'
  BY DEF Fresh, FailuresBounded
<1> QED
  BY <1>1, <1>2, <1>3, <1>4, <1>5, <1>6 DEF TypeInv, TypeOK

\* One step of any thread, callback or of the event system.
LEMMA StepType == TypeInv /\ [Next]_vars => TypeInv'
<1> SUFFICES ASSUME TypeInv, [Next]_vars PROVE TypeInv'
  OBVIOUS
<1> USE DEF TypeInv, TypeOK, FailuresBounded, workerVars
<1>1. CASE \E r \in Records : Handle(r)
  BY <1>1, HandleType
<1>2. CASE ReaderEof
  <2> DEFINE asked == IF state = "R" THEN Release(held) ELSE <<>>
  <2>1. asked \in Seq(Op)
    BY ReleaseType
  <2>2. ops' \in Seq(Op) /\ Len(ops') <= OpQueue
    BY <1>2, <2>1, EnqueueType DEF ReaderEof
  <2> QED
    BY <1>2, <2>2 DEF ReaderEof
<1>3. CASE InitTouch
  <2>1. service' \in [Services -> {"null", "live", "dead"}]
    BY <1>3 DEF InitTouch, InitCreates, InitCreateFails, Services
  <2>2. contact' \in BOOLEAN
    BY <1>3 DEF InitTouch, InitCreates, InitCreateFails
  <2> QED
    BY <1>3, <2>1, <2>2 DEF InitTouch, InitCreates, InitCreateFails
<1>4. CASE InitButtons
  BY <1>4 DEF InitButtons, InitCreates, InitCreateFails, Services
<1>5. CASE InitOpens \/ InitLibrariesFail \/ InitPublishes
  BY <1>5 DEF InitOpens, InitLibrariesFail, InitPublishes
<1>6. CASE WorkerTakes
  <2>1. Head(ops) \in Op /\ Tail(ops) \in Seq(Op) /\ Len(Tail(ops)) <= OpQueue
    BY <1>6, OpQueueAssumption DEF WorkerTakes
  <2>2. failures \in 0..2 /\ failures # 2
    BY <1>6 DEF WorkerTakes
  <2> QED
    BY <1>6, <2>1, <2>2 DEF WorkerTakes
<1>7. CASE WorkerDiscards
  BY <1>7, OpQueueAssumption DEF WorkerDiscards
<1>8. CASE WorkerPosts
  BY <1>8, OpTypes DEF WorkerPosts, CountDispatch, After, Op
<1>9. CASE WorkerPostFails
  <2>1. contact' \in BOOLEAN
    BY <1>9 DEF WorkerPostFails, FailedContacts
  <2>2. failures \in {0, 1} /\ failures' = failures + 1
    BY <1>9 DEF WorkerPostFails, CountDispatch
  <2>3. needRecovery' = (needRecovery \/ failures + 1 >= 2)
    BY <1>9 DEF WorkerPostFails, CountDispatch
  <2>5. failures' = 2 => failures + 1 >= 2
    BY <2>2
  <2>6. needRecovery' \in BOOLEAN /\ (failures' = 2 => needRecovery')
    BY <2>3, <2>5, Zenon
  <2>4. cur' \in Op
    BY <1>9, OpTypes DEF WorkerPostFails
  <2> QED
    BY <1>9, <2>1, <2>2, <2>4, <2>6 DEF WorkerPostFails
<1>10. CASE RecoverBegins
  BY <1>10 DEF RecoverBegins
<1>11. CASE RebuildFails
  <2>1. service' \in [Services -> {"null", "live", "dead"}]
    BY <1>11 DEF RebuildFails, Services
  <2>2. contact' \in BOOLEAN
    BY <1>11 DEF RebuildFails
  <2> QED
    BY <1>11, <2>1, <2>2 DEF RebuildFails
<1>12. CASE RebuildSucceeds
  <2>1. service' \in [Services -> {"null", "live", "dead"}]
    BY <1>12 DEF RebuildSucceeds, Services
  <2>2. contact' \in BOOLEAN
    BY <1>12 DEF RebuildSucceeds
  <2> QED
    BY <1>12, <2>1, <2>2 DEF RebuildSucceeds
<1>13. CASE RecoverEnds
  <2>1. failures' \in 0..2 /\ FailuresBounded'
    BY <1>13 DEF RecoverEnds
  <2> QED
    BY <1>13, <2>1 DEF RecoverEnds
<1>14. CASE NotifyStarts
  BY <1>14, MaxNotifyAssumption DEF NotifyStarts, NotifyWrites
<1>15. CASE NotifyLocks
  BY <1>15, MaxNotifyAssumption DEF NotifyLocks
<1>16. CASE \E s \in Services : ServiceDropped(s)
  BY <1>16 DEF ServiceDropped, Services
<1>17. CASE Exit
  <2>1. Fresh
    BY <1>17 DEF Exit
  <2>2. /\ contact' \in BOOLEAN
        /\ reader' \in {"reading", "eof", "closed", "crashed"}
        /\ loss' \in {"none", "refused", "failed"}
    BY <1>17 DEF Exit
  <2> QED
    BY ONLY <2>1, <2>2, FreshType
<1>18. CASE Restart
  <2>1. Fresh
    BY <1>18 DEF Restart
  <2>2. contact' = FALSE /\ reader' = "reading" /\ loss' = "none"
    BY <1>18 DEF Restart
  <2> QED
    BY <2>1, <2>2, FreshType
<1>19. CASE UNCHANGED vars
  BY <1>19 DEF vars
<1> QED
  BY <1>1, <1>2, <1>3, <1>4, <1>5, <1>6, <1>7, <1>8, <1>9, <1>10, <1>11, <1>12,
     <1>13, <1>14, <1>15, <1>16, <1>17, <1>18, <1>19 DEF Next

\* Every variable of the helper keeps its type, the operation queue stays
\* within OP_QUEUE, and the count of failed dispatches stays within 2.
THEOREM TypeCorrect == Spec => []TypeOK
<1>1. TypeInv => TypeOK
  BY DEF TypeInv
<1> QED
  BY <1>1, InitType, StepType, PTL DEF Spec
-----------------------------------------------------------------------------
(***************************************************************************)
(* The contact.  Fits is the existential part of ContactAccounted; Suits   *)
(* says that an operation may be posted with the finger as it is.          *)
(***************************************************************************)
Fits(q, c, h) == \E f \in [0..Len(q) -> BOOLEAN] : Gesture(q, c, h, f)

Suits(o, c) == (o \in {DownOp, WheelOp} => ~c) /\ (o = MoveOp => c)

LEMMA AfterType == \A o \in Op, c \in BOOLEAN : After(o, c) \in BOOLEAN
  BY DEF After, Op

\* Queueing an operation that suits the final finger extends the gesture.
LEMMA FitsAppend ==
    ASSUME NEW q \in Seq(Op), NEW c \in BOOLEAN, NEW h \in BOOLEAN, NEW o \in Op,
           Fits(q, c, h), Suits(o, h)
    PROVE  Fits(Append(q, o), c, After(o, h))
<1>1. PICK f \in [0..Len(q) -> BOOLEAN] : Gesture(q, c, h, f)
  BY DEF Fits
<1> DEFINE n == Len(q)
           p == Append(q, o)
           g == [i \in 0..(n+1) |-> IF i = n + 1 THEN After(o, h) ELSE f[i]]
<1>2. n \in Nat /\ Len(p) = n + 1 /\ p[n+1] = o /\ \A i \in 1..n : p[i] = q[i]
  OBVIOUS
<1>3. g \in [0..Len(p) -> BOOLEAN]
  BY <1>2, AfterType
<1>4. g[0] = c /\ g[Len(p)] = After(o, h)
  BY <1>1, <1>2 DEF Gesture
<1>5. ASSUME NEW i \in 1..Len(p)
      PROVE  /\ g[i] = After(p[i], g[i-1])
             /\ p[i] \in {DownOp, WheelOp} => ~g[i-1]
             /\ p[i] = MoveOp => g[i-1]
  <2>1. CASE i = n + 1
    <3>1. g[i-1] = h /\ g[i] = After(o, h) /\ p[i] = o
      BY <1>1, <1>2, <2>1 DEF Gesture
    <3> QED
      BY <3>1 DEF Suits
  <2>2. CASE i \in 1..n
    <3>1. g[i-1] = f[i-1] /\ g[i] = f[i] /\ p[i] = q[i]
      BY <1>2, <2>2
    <3> QED
      BY <1>1, <2>2, <3>1 DEF Gesture
  <2> QED
    BY <1>2, <2>1, <2>2
<1>6. Gesture(p, c, After(o, h), g)
  BY <1>4, <1>5 DEF Gesture
<1> QED
  BY <1>3, <1>6 DEF Fits

\* Posting the first operation leaves the rest of the gesture.
LEMMA FitsTail ==
    ASSUME NEW q \in Seq(Op), NEW c \in BOOLEAN, NEW h \in BOOLEAN, NEW o \in Op,
           Fits(<<o>> \o q, c, h)
    PROVE  Suits(o, c) /\ Fits(q, After(o, c), h)
<1> DEFINE n == Len(q)
           p == <<o>> \o q
<1>1. PICK f \in [0..Len(p) -> BOOLEAN] : Gesture(p, c, h, f)
  BY DEF Fits
<1>2. n \in Nat /\ Len(p) = n + 1 /\ p[1] = o /\ \A i \in 1..n : p[i+1] = q[i]
  OBVIOUS
<1> DEFINE g == [i \in 0..n |-> f[i+1]]
<1>3. g \in [0..n -> BOOLEAN]
  BY <1>2
<1>4. f[1] = After(o, c) /\ Suits(o, c)
  BY <1>1, <1>2 DEF Gesture, Suits
<1>5. g[0] = After(o, c) /\ g[n] = h
  BY <1>1, <1>2, <1>4 DEF Gesture
<1>6. ASSUME NEW i \in 1..n
      PROVE  /\ g[i] = After(q[i], g[i-1])
             /\ q[i] \in {DownOp, WheelOp} => ~g[i-1]
             /\ q[i] = MoveOp => g[i-1]
  <2>1. i + 1 \in 1..Len(p) /\ g[i] = f[i+1] /\ g[i-1] = f[(i+1)-1] /\ p[i+1] = q[i]
    BY <1>2
  <2> QED
    BY <1>1, <2>1 DEF Gesture
<1>7. Gesture(q, After(o, c), h, g)
  BY <1>5, <1>6 DEF Gesture
<1> QED
  BY <1>3, <1>4, <1>7 DEF Fits

(***************************************************************************)
(* The inductive invariant: while the worker is recovering, an operation   *)
(* has been discarded already, so the new service's empty finger and the   *)
(* reset of held owe nothing to ContactAccounted.                          *)
(***************************************************************************)
RecoveryIsLoss ==
    Alive /\ worker \in {"discarded", "rebuild", "rebuilt"} => loss = "failed"

ContactInv == TypeInv /\ RecoveryIsLoss /\ ContactAccounted

LEMMA PendingType == TypeInv => Pending \in Seq(Op)
  BY DEF TypeInv, TypeOK, Pending

\* The ways in which handle() may ask for operations and end with contact h:
\* nothing changes, the contact is dropped without a lift, or the operations
\* suit the finger one after the other.
Consistent(asked, h) ==
    \/ asked = <<>> /\ (h = held \/ ~h)
    \/ \E o \in Op : asked = <<o>> /\ Suits(o, held) /\ h = After(o, held)
    \/ \E o, p \in Op : /\ asked = <<o>> \o <<p>>
                        /\ Suits(o, held) /\ Suits(p, After(o, held))
                        /\ h = After(p, After(o, held))

\* Queueing consistent operations keeps the contact accounted for.
LEMMA EnqueueFits ==
    ASSUME TypeInv, ContactAccounted, Alive, loss = "none",
           NEW asked \in Seq(Op), NEW h \in BOOLEAN,
           Consistent(asked, h), ~Loses(asked, h),
           ops' = Enqueue(ops, asked), worker' = worker, cur' = cur,
           contact' = contact, held' = h
    PROVE  Fits(Pending', contact', held')
<1>1. Fits(Pending, contact, held) /\ Pending \in Seq(Op)
  BY PendingType DEF ContactAccounted, Fits
<1>2. Len(ops) + Len(asked) <= OpQueue
  BY OpQueueAssumption DEF Loses, TypeInv, TypeOK
<1>3. ops' = ops \o asked
  BY <1>2 DEF Enqueue
<1>4. Pending' = Pending \o asked
  BY <1>3 DEF Pending, TypeInv, TypeOK
<1>5. contact \in BOOLEAN /\ held \in BOOLEAN
  BY DEF TypeInv, TypeOK
<1>6. CASE asked = <<>> /\ (h = held \/ ~h)
  <2>1. h = held
    BY <1>5, <1>6 DEF Loses
  <2>2. Pending' = Pending
    BY <1>1, <1>4, <1>6
  <2> QED
    BY <1>1, <2>1, <2>2
<1>7. ASSUME NEW o \in Op, asked = <<o>>, Suits(o, held), h = After(o, held)
      PROVE  Fits(Pending', contact', held')
  <2>1. Pending' = Append(Pending, o)
    BY <1>1, <1>4, <1>7
  <2>2. Fits(Append(Pending, o), contact, After(o, held))
    BY <1>1, <1>5, <1>7, FitsAppend
  <2> QED
    BY <1>7, <2>1, <2>2
<1>8. ASSUME NEW o \in Op, NEW p \in Op, asked = <<o>> \o <<p>>, Suits(o, held),
             Suits(p, After(o, held)), h = After(p, After(o, held))
      PROVE  Fits(Pending', contact', held')
  <2> DEFINE q == Append(Pending, o)
  <2>1. Pending' = Append(q, p)
    <3>1. Pending \o (<<o>> \o <<p>>) = (Pending \o <<o>>) \o <<p>>
      <4>1. <<o>> \in Seq(Op) /\ <<p>> \in Seq(Op)
        BY <1>8
      <4> QED
        BY <1>1, <4>1, ConcatAssociative
    <3>2. Pending \o <<o>> = q /\ q \o <<p>> = Append(q, p)
      BY <1>1, <1>8
    <3> QED
      BY <1>4, <1>8, <3>1, <3>2
  <2>2. Fits(q, contact, After(o, held)) /\ q \in Seq(Op)
    BY <1>1, <1>5, <1>8, FitsAppend
  <2>3. After(o, held) \in BOOLEAN
    BY <1>5, AfterType
  <2> HIDE DEF q
  <2>4. Fits(Append(q, p), contact, After(p, After(o, held)))
    BY <1>5, <1>8, <2>2, <2>3, FitsAppend
  <2> QED
    BY <1>8, <2>1, <2>4
<1> QED
  BY <1>6, <1>7, <1>8 DEF Consistent

\* Leaving handle() with consistent operations preserves the invariant.
LEMMA AnswerContact ==
    ASSUME ContactInv, NEW r \in Records, NEW asked \in Seq(Op), NEW h \in BOOLEAN,
           Answer(r, asked, h), Consistent(asked, h)
    PROVE  RecoveryIsLoss' /\ ContactAccounted'
<1> USE DEF ContactInv
<1>1. RecoveryIsLoss'
  BY DEF RecoveryIsLoss, Alive, Answer, workerVars
<1>2. ASSUME Alive', loss' = "none" PROVE Fits(Pending', contact', held')
  <2>1. Alive /\ loss = "none" /\ ~Loses(asked, h)
    BY <1>2 DEF Alive, Answer
  <2>2. /\ ops' = Enqueue(ops, asked) /\ worker' = worker /\ cur' = cur
        /\ contact' = contact /\ held' = h
    BY DEF Answer, workerVars
  <2> QED
    BY <2>1, <2>2, EnqueueFits
<1> QED
  BY <1>1, <1>2 DEF ContactAccounted, Fits

\* What each kind of record asks for is consistent with the contact held.
LEMMA HandleContact ==
    ASSUME ContactInv, NEW r \in Records, Handle(r)
    PROVE  RecoveryIsLoss' /\ ContactAccounted'
<1> USE OpTypes, ReleaseType, EpilogueType
<1>0. StillHeld(r) \in BOOLEAN /\ r.down \in BOOLEAN /\ held \in BOOLEAN
  BY DEF StillHeld, NewEpoch, Records, ContactInv, TypeInv, TypeOK
<1>a. ASSUME NEW asked \in Seq(Op), NEW h \in BOOLEAN,
             Answer(r, asked, h), Consistent(asked, h)
      PROVE  RecoveryIsLoss' /\ ContactAccounted'
  BY <1>a, AnswerContact
<1>b. After(UpOp, held) = FALSE /\ Suits(UpOp, held)
  BY DEF After, UpOp, Suits, DownOp, WheelOp, MoveOp
<1>c. \A d \in BOOLEAN, c \in BOOLEAN : After(ButtonOp(d), c) = c /\ Suits(ButtonOp(d), c)
  BY DEF After, ButtonOp, Suits, DownOp, WheelOp, MoveOp
<1>d. Suits(WheelOp, FALSE) /\ \A c \in BOOLEAN : After(WheelOp, c) = FALSE
  BY DEF After, Suits, DownOp, WheelOp, MoveOp
<1>e. Suits(DownOp, FALSE) /\ \A c \in BOOLEAN : After(DownOp, c) = TRUE
  BY DEF After, Suits, DownOp, WheelOp, MoveOp
<1>f. Suits(MoveOp, TRUE) /\ \A c \in BOOLEAN : After(MoveOp, c) = TRUE
  BY DEF After, Suits, DownOp, WheelOp, MoveOp
<1>g. \/ Epilogue(r) = <<UpOp>> /\ held /\ ~StillHeld(r)
      \/ Epilogue(r) = <<>> /\ (StillHeld(r) = held \/ ~StillHeld(r))
  BY <1>0 DEF Epilogue, Release, StillHeld
<1>h. Consistent(Epilogue(r), StillHeld(r)) /\ Consistent(Epilogue(r), FALSE)
  BY <1>0, <1>b, <1>g DEF Consistent
<1>1. CASE HandlePing(r)
  BY <1>0, <1>1, <1>a, <1>h DEF HandlePing
<1>2. ASSUME NEW s \in {state, "L"},
             \/ HandleCancel(r, s) \/ HandleButton(r, s) \/ HandleWheel(r, s)
             \/ HandleTouchNotReady(r, s) \/ HandleDown(r, s)
             \/ HandleMove(r, s) \/ HandleUp(r, s)
      PROVE  RecoveryIsLoss' /\ ContactAccounted'
  <2>1. s = "R" => \/ Epilogue(r) = <<UpOp>> /\ held /\ ~StillHeld(r)
                   \/ Epilogue(r) = <<>> /\ StillHeld(r) = held
    BY <1>0 DEF Epilogue, Release, StillHeld
  \* One more operation after the epilogue of a ready helper.
  <2>2. ASSUME s = "R", NEW p \in Op, Suits(p, StillHeld(r))
        PROVE  /\ Epilogue(r) \o <<p>> \in Seq(Op)
               /\ Consistent(Epilogue(r) \o <<p>>, After(p, StillHeld(r)))
    <3>1. CASE Epilogue(r) = <<UpOp>> /\ held /\ ~StillHeld(r)
      <4>1. StillHeld(r) = After(UpOp, held)
        BY <1>0, <1>b, <3>1
      <4>2. Epilogue(r) \o <<p>> = <<UpOp>> \o <<p>>
        BY <3>1
      <4>3. Epilogue(r) \o <<p>> \in Seq(Op)
        BY <4>2
      <4>4. Suits(UpOp, held) /\ Suits(p, After(UpOp, held))
        BY <1>b, <2>2, <4>1
      <4> QED
        BY <4>1, <4>2, <4>3, <4>4 DEF Consistent
    <3>2. CASE Epilogue(r) = <<>> /\ StillHeld(r) = held
      <4>1. Epilogue(r) \o <<p>> = <<p>>
        BY <3>2
      <4> QED
        BY <2>2, <3>2, <4>1 DEF Consistent
    <3> QED
      BY <2>1, <2>2, <3>1, <3>2
  \* No further operation.
  <2>3. Epilogue(r) \o <<>> = Epilogue(r)
    OBVIOUS
  <2>4. CASE HandleCancel(r, s)
    <3>1. CASE s = "R" /\ StillHeld(r)
      BY <1>0, <1>a, <1>b, <2>1, <2>2, <2>4, <3>1 DEF HandleCancel, Release
    <3>2. CASE ~(s = "R" /\ StillHeld(r))
      BY <1>a, <1>h, <2>3, <2>4, <3>2 DEF HandleCancel, Release
    <3> QED
      BY <3>1, <3>2
  <2>5. CASE HandleButton(r, s)
    <3>1. CASE s = "R"
      BY <1>0, <1>a, <1>c, <2>2, <2>5, <3>1 DEF HandleButton
    <3>2. CASE s # "R"
      BY <1>0, <1>a, <1>h, <2>3, <2>5, <3>2 DEF HandleButton
    <3> QED
      BY <3>1, <3>2
  <2>6. CASE HandleWheel(r, s)
    <3>1. CASE s = "R" /\ ~StillHeld(r)
      BY <1>0, <1>a, <1>d, <2>2, <2>6, <3>1 DEF HandleWheel
    <3>2. CASE ~(s = "R" /\ ~StillHeld(r))
      BY <1>0, <1>a, <1>h, <2>3, <2>6, <3>2 DEF HandleWheel
    <3> QED
      BY <3>1, <3>2
  <2>7. CASE HandleTouchNotReady(r, s)
    BY <1>a, <1>h, <2>7 DEF HandleTouchNotReady
  <2>8. CASE HandleDown(r, s)
    <3> DEFINE asked == Epilogue(r) \o Release(StillHeld(r)) \o <<DownOp>>
    <3>1. s = "R" /\ Answer(r, asked, TRUE)
      BY <2>8 DEF HandleDown
    <3>2. CASE StillHeld(r)
      <4>0. Epilogue(r) = <<>> /\ Release(StillHeld(r)) = <<UpOp>> /\ held
        BY <1>0, <2>1, <3>1, <3>2 DEF Release
      <4>1. asked = <<UpOp>> \o <<DownOp>> /\ held
        BY <4>0
      <4>3. asked \in Seq(Op)
        BY <4>1
      <4>2. Consistent(asked, TRUE)
        BY <1>b, <1>e, <4>1 DEF Consistent
      <4> QED
        BY <1>a, <3>1, <4>2, <4>3
    <3>3. CASE ~StillHeld(r)
      <4>1. asked = Epilogue(r) \o <<DownOp>>
        BY <3>3 DEF Release
      <4> QED
        BY <1>0, <1>a, <1>e, <2>2, <3>1, <3>3, <4>1
    <3> QED
      BY <3>2, <3>3
  <2>9. CASE HandleMove(r, s)
    <3>1. CASE StillHeld(r)
      BY <1>0, <1>a, <1>f, <2>2, <2>9, <3>1 DEF HandleMove
    <3>2. CASE ~StillHeld(r)
      BY <1>0, <1>a, <1>h, <2>3, <2>9, <3>2 DEF HandleMove
    <3> QED
      BY <3>1, <3>2
  <2>10. CASE HandleUp(r, s)
    <3>1. CASE StillHeld(r)
      BY <1>0, <1>a, <1>b, <2>1, <2>2, <2>10, <3>1 DEF HandleUp, Release
    <3>2. CASE ~StillHeld(r)
      BY <1>a, <1>h, <2>3, <2>10, <3>2 DEF HandleUp, Release
    <3> QED
      BY <3>1, <3>2
  <2> QED
    BY <1>2, <2>4, <2>5, <2>6, <2>7, <2>8, <2>9, <2>10
<1> QED
  BY <1>1, <1>2 DEF Handle

\* A step that leaves the contact, its holder and the pending operations
\* alone and forgives no loss preserves the invariant.
LEMMA QuietStep ==
    ASSUME ContactInv, Alive' => Alive, loss' = loss \/ loss' = "failed",
           UNCHANGED <<held, ops, worker, cur, contact>>
    PROVE  RecoveryIsLoss' /\ ContactAccounted'
<1>1. RecoveryIsLoss'
  BY DEF ContactInv, RecoveryIsLoss
<1>2. Pending' = Pending
  BY DEF Pending
<1>3. Alive' /\ loss' = "none" => Alive /\ loss = "none"
  OBVIOUS
<1> QED
  BY <1>1, <1>2, <1>3 DEF ContactInv, ContactAccounted, Gesture

LEMMA StepContact == ContactInv /\ [Next]_vars => ContactInv'
<1> SUFFICES ASSUME ContactInv, [Next]_vars PROVE ContactInv'
  OBVIOUS
<1>0. TypeInv /\ TypeInv'
  BY StepType DEF ContactInv
<1> SUFFICES RecoveryIsLoss' /\ ContactAccounted'
  BY <1>0 DEF ContactInv
<1>f. ASSUME loss' = "failed" PROVE RecoveryIsLoss' /\ ContactAccounted'
  BY <1>f DEF RecoveryIsLoss, ContactAccounted
<1>1. CASE \E r \in Records : Handle(r)
  BY <1>1, HandleContact
<1>2. CASE ReaderEof
  <2> DEFINE asked == IF state = "R" THEN Release(held) ELSE <<>>
             h == held /\ state # "R"
  <2>1. asked \in Seq(Op) /\ h \in BOOLEAN
    BY ReleaseType
  <2>2. Consistent(asked, h)
    <3>1. After(UpOp, held) = FALSE /\ Suits(UpOp, held)
      BY DEF After, UpOp, Suits, DownOp, WheelOp, MoveOp
    <3>2. CASE held /\ state = "R"
      BY <3>1, <3>2, OpTypes DEF Consistent, Release
    <3>3. CASE ~(held /\ state = "R")
      BY <1>0, <3>3 DEF Consistent, Release, TypeInv, TypeOK
    <3> QED
      BY <3>2, <3>3
  <2>3. RecoveryIsLoss'
    BY <1>2 DEF ContactInv, RecoveryIsLoss, Alive, ReaderEof, workerVars
  <2>4. ASSUME Alive', loss' = "none" PROVE Fits(Pending', contact', held')
    <3>1. Alive /\ loss = "none" /\ ~Loses(asked, h)
      BY <1>2, <2>4 DEF Alive, ReaderEof
    <3>2. /\ ops' = Enqueue(ops, asked) /\ worker' = worker /\ cur' = cur
          /\ contact' = contact /\ held' = h
      BY <1>2 DEF ReaderEof, workerVars
    <3> HIDE DEF asked, h
    <3> QED
      BY <1>0, <2>1, <2>2, <3>1, <3>2, EnqueueFits DEF ContactInv
  <2> QED
    BY <2>3, <2>4 DEF ContactAccounted, Fits
<1>3. CASE InitTouch \/ InitButtons
  <2>1. CASE loss' = "failed"
    BY <1>f, <2>1
  <2>2. CASE loss' # "failed"
    <3>1. Alive' = Alive /\ UNCHANGED <<held, ops, worker, cur, loss>>
      BY <1>3, <2>2 DEF InitTouch, InitButtons, InitCreates, InitCreateFails,
                        Alive, workerVars
    <3>2. contact' = contact
      BY <1>0, <1>3, <2>2 DEF InitTouch, InitButtons, InitCreates,
                              InitCreateFails, TypeInv, TypeOK
    <3> QED
      BY <3>1, <3>2, QuietStep
  <2> QED
    BY <2>1, <2>2
<1>4. CASE \/ InitOpens \/ InitLibrariesFail \/ InitPublishes \/ NotifyStarts \/ NotifyLocks
  <2>1. Alive' = Alive /\ UNCHANGED <<held, ops, worker, cur, contact, loss>>
    BY <1>4 DEF InitOpens, InitLibrariesFail, InitPublishes, NotifyStarts, NotifyLocks,
                Alive, workerVars
  <2> QED
    BY <2>1, QuietStep
<1>5. CASE WorkerTakes
  <2>1. /\ worker = "idle" /\ worker' = "dispatch" /\ Alive /\ reader' = reader
        /\ cur' = Head(ops) /\ ops' = Tail(ops) /\ ops # <<>>
        /\ UNCHANGED <<held, contact, loss>>
    BY <1>5 DEF WorkerTakes
  <2>2. Pending' = Pending
    BY <1>0, <2>1 DEF Pending, TypeInv, TypeOK
  <2> QED
    BY <2>1, <2>2 DEF ContactInv, RecoveryIsLoss, ContactAccounted, Gesture, Alive
<1>6. CASE WorkerPosts
  <2>1. /\ worker = "dispatch" /\ worker' = "idle" /\ Alive /\ Alive' = Alive
        /\ contact' = After(cur, contact) /\ UNCHANGED <<held, ops, loss>>
    BY <1>6 DEF WorkerPosts, Alive
  <2>2. RecoveryIsLoss'
    BY <2>1 DEF RecoveryIsLoss
  <2>3. ASSUME loss' = "none" PROVE Fits(Pending', contact', held')
    <3>1. Fits(<<cur>> \o ops, contact, held)
      BY <2>1, <2>3 DEF ContactInv, ContactAccounted, Fits, Pending
    <3>2. Fits(ops, After(cur, contact), held)
      BY <1>0, <3>1, FitsTail DEF TypeInv, TypeOK
    <3>3. Pending' = ops
      BY <2>1 DEF Pending
    <3> QED
      BY <2>1, <3>2, <3>3
  <2> QED
    BY <2>2, <2>3 DEF ContactAccounted, Fits
<1>7. CASE WorkerDiscards \/ WorkerPostFails \/ \E s \in Services : ServiceDropped(s)
  BY <1>7, <1>f DEF WorkerDiscards, WorkerPostFails, ServiceDropped
<1>8. CASE RecoverBegins \/ RebuildFails \/ RebuildSucceeds \/ RecoverEnds
  <2>1. loss' = "failed"
    BY <1>8 DEF ContactInv, RecoveryIsLoss, RecoverBegins, RebuildFails,
                RebuildSucceeds, RecoverEnds
  <2> QED
    BY <2>1, <1>f
<1>9. CASE Exit
  BY <1>9 DEF Exit, Alive, RecoveryIsLoss, ContactAccounted
<1>10. CASE Restart
  <2>1. /\ worker' = "idle" /\ ops' = <<>> /\ contact' = FALSE /\ held' = FALSE
    BY <1>10 DEF Restart, Fresh
  <2>2. Pending' = <<>>
    BY <2>1 DEF Pending
  <2>3. Gesture(<<>>, FALSE, FALSE, [i \in 0..0 |-> FALSE])
    BY DEF Gesture
  <2> QED
    BY <2>1, <2>2, <2>3 DEF RecoveryIsLoss, ContactAccounted
<1>11. CASE UNCHANGED vars
  <2>1. Alive' = Alive /\ UNCHANGED <<held, ops, worker, cur, contact, loss>>
    BY <1>11 DEF vars, Alive
  <2> QED
    BY <2>1, QuietStep
<1> QED
  BY <1>1, <1>2, <1>3, <1>4, <1>5, <1>6, <1>7, <1>8, <1>9, <1>10, <1>11 DEF Next

LEMMA InitContact == Init => ContactInv
<1> SUFFICES ASSUME Init PROVE ContactInv
  OBVIOUS
<1>1. TypeInv
  BY InitType
<1>2. Pending = <<>> /\ contact = FALSE /\ held = FALSE /\ worker = "idle"
  BY DEF Init, Pending
<1>3. Gesture(<<>>, FALSE, FALSE, [i \in 0..0 |-> FALSE])
  BY DEF Gesture
<1> QED
  BY <1>1, <1>2, <1>3 DEF ContactInv, RecoveryIsLoss, ContactAccounted

\* As long as no operation was refused, failed or discarded and no service
\* was lost, posting what is pending takes the event system's finger to the
\* contact the reader holds, and no down edge or wheel gesture is posted on
\* top of a contact: for every queue capacity and interleaving.
THEOREM ContactIsAccounted == Spec => []ContactAccounted
<1>1. ContactInv => ContactAccounted
  BY DEF ContactInv
<1> QED
  BY <1>1, InitContact, StepContact, PTL DEF Spec
-----------------------------------------------------------------------------
(***************************************************************************)
(* Ready.  Until the init thread has tried to create the touch service      *)
(* nothing else of the helper can have begun; later the pointer is NULL    *)
(* only during a rebuild, or for good after a failed initialisation.       *)
(***************************************************************************)
NotBegun ==
    hid = "touch" =>
        /\ state = "I" /\ worker = "idle" /\ ops = <<>>
        /\ ~needRecovery /\ notifying = 0
        /\ \A s \in Services : service[s] = "null"

NullTouch ==
    service["touch"] = "null" =>
        \/ worker = "rebuild"
        \/ state # "R" /\ hid \notin {"buttons", "ok"} /\ worker # "rebuilt"

ReadyInv == TypeOK /\ NotBegun /\ NullTouch

\* What handle() writes while nothing has begun: no operation is queued.
LEMMA HandleBegun ==
    ASSUME ReadyInv, NEW r \in Records, Handle(r)
    PROVE  /\ UNCHANGED <<hid, service, worker, needRecovery>>
           /\ state' \in {state, "L"}
           /\ hid = "touch" => UNCHANGED <<state, notifying, ops>>
<1>1. ASSUME NEW asked, NEW h, Answer(r, asked, h)
      PROVE  /\ UNCHANGED <<hid, service, worker, needRecovery>>
             /\ hid = "touch" /\ asked = <<>> => ops' = ops
  <2>1. hid = "touch" /\ asked = <<>> => Enqueue(ops, asked) = ops
    BY OpQueueAssumption DEF ReadyInv, NotBegun, Enqueue
  <2> QED
    BY <1>1, <2>1 DEF Answer, workerVars
<1>2. hid = "touch" => Epilogue(r) = <<>> /\ ~NotifyWrites
  BY DEF ReadyInv, NotBegun, Epilogue, NotifyWrites
<1>3. \A s : SecondRead(s) =>
          /\ state' \in {state, "L"}
          /\ hid = "touch" => s # "R" /\ UNCHANGED <<state, notifying>>
  BY <1>2 DEF SecondRead, NotifyWrites, ReadyInv, NotBegun
<1>4. <<>> \o <<>> = <<>>
  OBVIOUS
<1>5. CASE HandlePing(r)
  BY <1>1, <1>2, <1>5 DEF HandlePing
<1>6. ASSUME NEW s,
             \/ HandleCancel(r, s) \/ HandleButton(r, s) \/ HandleWheel(r, s)
             \/ HandleTouchNotReady(r, s) \/ HandleDown(r, s)
             \/ HandleMove(r, s) \/ HandleUp(r, s)
      PROVE  /\ SecondRead(s)
             /\ \E asked, h : /\ Answer(r, asked, h)
                              /\ hid = "touch" => asked = <<>>
  <2>1. SecondRead(s)
    BY <1>6 DEF HandleCancel, HandleButton, HandleWheel, HandleTouchNotReady,
                HandleDown, HandleMove, HandleUp
  <2>2. hid = "touch" => s # "R"
    BY <2>1, <1>3
  <2>3. CASE HandleDown(r, s) \/ HandleMove(r, s) \/ HandleUp(r, s)
    <3>1. s = "R"
      BY <2>3 DEF HandleDown, HandleMove, HandleUp
    <3> QED
      BY <2>1, <2>2, <2>3, <3>1 DEF HandleDown, HandleMove, HandleUp
  <2>4. CASE HandleCancel(r, s)
    BY <2>1, <2>2, <2>4, <1>2, <1>4 DEF HandleCancel
  <2>5. CASE HandleButton(r, s)
    BY <2>1, <2>2, <2>5, <1>2, <1>4 DEF HandleButton
  <2>6. CASE HandleWheel(r, s)
    BY <2>1, <2>2, <2>6, <1>2, <1>4 DEF HandleWheel
  <2>7. CASE HandleTouchNotReady(r, s)
    BY <2>1, <2>7, <1>2 DEF HandleTouchNotReady
  <2> QED
    BY <1>6, <2>3, <2>4, <2>5, <2>6, <2>7
<1> QED
  BY <1>1, <1>3, <1>5, <1>6, <1>2 DEF Handle, HandlePing

LEMMA FreshReady == Fresh => NotBegun' /\ NullTouch'
  BY DEF Fresh, NotBegun, NullTouch, Services

LEMMA StepReady == ReadyInv /\ [Next]_vars => NotBegun' /\ NullTouch'
<1> SUFFICES ASSUME ReadyInv, [Next]_vars PROVE NotBegun' /\ NullTouch'
  OBVIOUS
<1> USE DEF NotBegun, NullTouch
<1>0. NotBegun /\ NullTouch /\ "touch" \in Services /\ "buttons" \in Services
      /\ service \in [Services -> {"null", "live", "dead"}]
  BY DEF ReadyInv, TypeOK, Services
<1>1. CASE \E r \in Records : Handle(r)
  BY <1>0, <1>1, HandleBegun
<1>2. CASE ReaderEof
  <2>1. hid = "touch" => Enqueue(ops, <<>>) = ops
    BY <1>0, OpQueueAssumption DEF Enqueue
  <2> QED
    BY <1>0, <1>2, <2>1 DEF ReaderEof, workerVars
<1>3. CASE InitTouch \/ InitButtons
  <2>1. CASE InitCreates("touch", "opened", "buttons") \/ InitCreates("buttons", "buttons", "ok")
    BY <1>0, <2>1 DEF InitCreates, workerVars
  <2>2. CASE InitCreateFails("touch") \/ InitCreateFails("buttons")
    BY <1>0, <2>2 DEF InitCreateFails, workerVars
  <2> QED
    BY <1>3, <2>1, <2>2 DEF InitTouch, InitButtons
<1>4. CASE InitOpens \/ InitLibrariesFail \/ InitPublishes
  BY <1>0, <1>4 DEF InitOpens, InitLibrariesFail, InitPublishes, workerVars
<1>5. CASE WorkerTakes \/ WorkerDiscards \/ RecoverBegins \/ RecoverEnds
  BY <1>0, <1>5 DEF WorkerTakes, WorkerDiscards, RecoverBegins, RecoverEnds
<1>6. CASE WorkerPosts \/ WorkerPostFails
  BY <1>0, <1>6 DEF WorkerPosts, WorkerPostFails
<1>7. CASE RebuildFails \/ RebuildSucceeds
  BY <1>0, <1>7 DEF RebuildFails, RebuildSucceeds, workerVars
<1>8. CASE NotifyStarts \/ NotifyLocks
  BY <1>0, <1>8 DEF NotifyStarts, NotifyWrites, NotifyLocks, workerVars
<1>9. CASE \E s \in Services : ServiceDropped(s)
  BY <1>0, <1>9 DEF ServiceDropped, workerVars
<1>10. CASE Exit \/ Restart
  BY <1>10, FreshReady DEF Exit, Restart
<1>11. CASE UNCHANGED vars
  BY <1>0, <1>11 DEF vars
<1> QED
  BY <1>1, <1>2, <1>3, <1>4, <1>5, <1>6, <1>7, <1>8, <1>9, <1>10, <1>11 DEF Next

\* R stands for a touch service the worker can post to, whatever the init
\* thread, a recovery and the callbacks of replaced services do meanwhile.
THEOREM ReadyAlwaysHasTouch == Spec => []ReadyHasTouch
<1>1. Init => NotBegun /\ NullTouch
  BY DEF Init, NotBegun, NullTouch, Services
<1>2. TypeOK /\ NotBegun /\ NullTouch /\ [Next]_vars => (NotBegun /\ NullTouch)'
  BY StepReady DEF ReadyInv
<1>3. NotBegun /\ NullTouch => ReadyHasTouch
  BY DEF NullTouch, ReadyHasTouch
<1> QED
  BY <1>1, <1>2, <1>3, TypeCorrect, PTL DEF Spec
=============================================================================
