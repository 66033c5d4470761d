------------------------------- MODULE DvmHid -------------------------------
(***************************************************************************)
(* The guest input helper dvm-hid (tools/input/dvm_hid.c).  Four threads   *)
(* share the state below: the console READER (main thread) answers records *)
(* and queues HID operations, the WORKER posts them and rebuilds the       *)
(* virtual services, the INIT thread creates the services the first time,  *)
(* and GCD callbacks report that the event system closed a service.        *)
(*                                                                         *)
(* A step is what one thread does between two points at which another can  *)
(* interfere: a critical section of `lock', or one unlocked write that     *)
(* another thread reads.  Coordinates, timestamps and the text on the      *)
(* console are abstracted; an operation keeps what decides whether the     *)
(* event system sees a finger down.                                        *)
(***************************************************************************)
EXTENDS Naturals, Sequences

CONSTANTS OpQueue,    \* capacity of the operation queue (OP_QUEUE, 32)
          Epochs,     \* epochs the host can stamp on a record
          BootEpoch,  \* the epoch of a helper that has heard no record (0)
          MaxNotify   \* service callbacks that may be in flight at once

ASSUME OpQueueAssumption == OpQueue \in Nat \ {0}
ASSUME EpochAssumption == BootEpoch \notin Epochs
ASSUME MaxNotifyAssumption == MaxNotify \in Nat

VARIABLES state,        \* I initialising, R ready, L lost
          needRecovery, \* services must be created again
          epoch,        \* epoch of the last record
          held,         \* the reader's idea of the contact
          ops,          \* operations queued for the worker
          worker,       \* where the worker is
          cur,          \* the operation the worker took from the queue
          failures,     \* consecutive failed dispatches (worker local)
          hid,          \* where the init thread is
          service,      \* the two virtual services
          contact,      \* the event system has a finger down on the service
          notifying,    \* callbacks that wrote state and still want the lock
          reader,       \* where the reader is; closed and crashed: no process
          loss          \* history: was an operation refused, or did one fail

vars == <<state, needRecovery, epoch, held, ops, worker, cur, failures, hid,
          service, contact, notifying, reader, loss>>

workerVars == <<worker, cur, failures>>

Kinds == {"D", "M", "U", "C", "P", "B", "W"}
\* A record; only a button record says whether it is a press or a release.
Records == [epoch : Epochs, kind : Kinds \ {"B"}, down : {FALSE}]
           \cup [epoch : Epochs, kind : {"B"}, down : BOOLEAN]

\* struct op without coordinates: T touch, B button, W wheel gesture.
Op == [kind : {"T", "B", "W"}, down : BOOLEAN, edge : BOOLEAN]

UpOp     == [kind |-> "T", down |-> FALSE, edge |-> TRUE]
DownOp   == [kind |-> "T", down |-> TRUE,  edge |-> TRUE]
MoveOp   == [kind |-> "T", down |-> TRUE,  edge |-> FALSE]
WheelOp  == [kind |-> "W", down |-> FALSE, edge |-> FALSE]
ButtonOp(d) == [kind |-> "B", down |-> d,  edge |-> TRUE]

Services == {"touch", "buttons"}
Alive == reader \in {"reading", "eof"}

TypeOK ==
    /\ state \in {"I", "R", "L"}
    /\ needRecovery \in BOOLEAN
    /\ epoch \in Epochs \cup {BootEpoch}
    /\ held \in BOOLEAN
    /\ ops \in Seq(Op)
    /\ Len(ops) <= OpQueue
    /\ worker \in {"idle", "dispatch", "discarded", "rebuild", "rebuilt"}
    /\ cur \in Op
    /\ failures \in 0..2
    /\ hid \in {"touch", "opened", "buttons", "ok", "failed", "done"}
    /\ service \in [Services -> {"null", "live", "dead"}]
    /\ contact \in BOOLEAN
    /\ notifying \in 0..MaxNotify
    /\ reader \in {"reading", "eof", "closed", "crashed"}
    /\ loss \in {"none", "refused", "failed"}

\* main(): the threads are started once the singleton lock and the console
\* are held; every variable has its static initial value.
Init ==
    /\ state = "I"
    /\ needRecovery = FALSE
    /\ epoch = BootEpoch
    /\ held = FALSE
    /\ ops = <<>>
    /\ worker = "idle"
    /\ cur = UpOp
    /\ failures = 0
    /\ hid = "touch"
    /\ service = [s \in Services |-> "null"]
    /\ contact = FALSE
    /\ notifying = 0
    /\ reader = "reading"
    /\ loss = "none"
-----------------------------------------------------------------------------
(***************************************************************************)
(* The reader: handle(), under `lock'.  state is also written outside the  *)
(* lock by cb_notify, so the second read of state in one handle() may see  *)
(* the L of a callback that starts in between.                             *)
(***************************************************************************)

\* Mutant of Enqueue: queue_op without its capacity test.
EnqueueUnbounded(q, asked) == q \o asked

\* queue_op, once per operation: the ones that do not fit are refused.
Enqueue(q, asked) ==
    IF Len(q) + Len(asked) <= OpQueue THEN q \o asked
                                      ELSE SubSeq(q \o asked, 1, OpQueue)

\* release_contact: at most one lift, and only for a held contact.
Release(h) == IF h THEN <<UpOp>> ELSE <<>>

\* The prologue of handle(): a record of another epoch ends the old gesture,
\* with a lift if the helper is ready.
NewEpoch(r)  == r.epoch # epoch
Epilogue(r)  == IF NewEpoch(r) /\ state = "R" THEN Release(held) ELSE <<>>
StillHeld(r) == held /\ ~NewEpoch(r)

\* cb_notify up to the lock: the unlocked write of state.  A service calls back
\* before vsc_create has returned its pointer, and one that was replaced is never
\* released, so it can still report during recovery.
NotifyWrites ==
    /\ notifying < MaxNotify
    /\ \/ \E s \in Services : service[s] # "null"
       \/ hid = "opened"
       \/ worker \in {"rebuild", "rebuilt"}
    /\ state' = "L"
    /\ notifying' = notifying + 1

\* The second read of state in handle() yields s.
SecondRead(s) == \/ s = state /\ UNCHANGED <<state, notifying>>
                 \/ s = "L" /\ state # "L" /\ NotifyWrites

\* The queue refuses an operation, or a contact is forgotten with no lift.
Loses(asked, h) == \/ Len(ops) + Len(asked) > OpQueue
                   \/ held /\ ~h /\ asked = <<>>

\* Leave handle() having asked for these operations, with this contact.
Answer(r, asked, h) ==
    /\ reader = "reading"
    /\ epoch' = r.epoch
    /\ ops' = Enqueue(ops, asked)
    /\ held' = h
    /\ loss' = IF Loses(asked, h) /\ loss = "none" THEN "refused" ELSE loss
    /\ UNCHANGED <<needRecovery, hid, service, contact, reader, workerVars>>

HandlePing(r) ==
    /\ r.kind = "P"
    /\ Answer(r, Epilogue(r), StillHeld(r))
    /\ UNCHANGED <<state, notifying>>

HandleCancel(r, s) ==
    /\ r.kind = "C"
    /\ SecondRead(s)
    /\ Answer(r, Epilogue(r) \o (IF s = "R" THEN Release(StillHeld(r)) ELSE <<>>),
              FALSE)

HandleButton(r, s) ==
    /\ r.kind = "B"
    /\ SecondRead(s)
    /\ Answer(r, Epilogue(r) \o (IF s = "R" THEN <<ButtonOp(r.down)>> ELSE <<>>),
              StillHeld(r))

HandleWheel(r, s) ==
    /\ r.kind = "W"
    /\ SecondRead(s)
    /\ Answer(r, Epilogue(r) \o (IF s = "R" /\ ~StillHeld(r) THEN <<WheelOp>>
                                                            ELSE <<>>),
              StillHeld(r))

\* The common exit of D, M and U when the helper is not ready (code N).
HandleTouchNotReady(r, s) ==
    /\ r.kind \in {"D", "M", "U"}
    /\ SecondRead(s)
    /\ s # "R"
    /\ Answer(r, Epilogue(r), FALSE)

\* Mutant of HandleDown: a down that does not lift the contact held before.
HandleDownStacks(r, s) ==
    /\ r.kind = "D"
    /\ SecondRead(s)
    /\ s = "R"
    /\ Answer(r, Epilogue(r) \o <<DownOp>>, TRUE)

HandleDown(r, s) ==
    /\ r.kind = "D"
    /\ SecondRead(s)
    /\ s = "R"
    /\ Answer(r, Epilogue(r) \o Release(StillHeld(r)) \o <<DownOp>>, TRUE)

HandleMove(r, s) ==
    /\ r.kind = "M"
    /\ SecondRead(s)
    /\ s = "R"
    /\ Answer(r, Epilogue(r) \o (IF StillHeld(r) THEN <<MoveOp>> ELSE <<>>),
              StillHeld(r))

HandleUp(r, s) ==
    /\ r.kind = "U"
    /\ SecondRead(s)
    /\ s = "R"
    /\ Answer(r, Epilogue(r) \o Release(StillHeld(r)), FALSE)

Handle(r) ==
    \/ HandlePing(r)
    \/ \E s \in {state, "L"} :
          \/ HandleCancel(r, s)
          \/ HandleButton(r, s)
          \/ HandleWheel(r, s)
          \/ HandleTouchNotReady(r, s)
          \/ HandleDown(r, s)
          \/ HandleMove(r, s)
          \/ HandleUp(r, s)

\* The end of reader(): console EOF queues a lift; main then returns.
ReaderEof ==
    /\ reader = "reading"
    /\ reader' = "eof"
    /\ LET asked == IF state = "R" THEN Release(held) ELSE <<>>
           h == held /\ state # "R"
       IN  /\ ops' = Enqueue(ops, asked)
           /\ held' = h
           /\ loss' = IF Loses(asked, h) /\ loss = "none" THEN "refused" ELSE loss
    /\ UNCHANGED <<state, needRecovery, epoch, hid, service, contact,
                   notifying, workerVars>>
-----------------------------------------------------------------------------
(* The init thread: hid_thread and initialize_hid.                         *)

\* Inside vsc_create: the touch service exists and its pointer is not stored.
InitOpens ==
    /\ Alive
    /\ hid = "touch"
    /\ hid' = "opened"
    /\ UNCHANGED <<state, needRecovery, epoch, held, ops, service, contact,
                   notifying, reader, loss, workerVars>>

\* create_service succeeds: the pointer is that of a new open service.  The
\* contact belongs to the touch service, so a new one has no finger down.
InitCreates(s, now, next) ==
    /\ Alive
    /\ hid = now
    /\ hid' = next
    /\ service' = [service EXCEPT ![s] = "live"]
    /\ contact' = (contact /\ s # "touch")
    /\ loss' = IF contact /\ s = "touch" THEN "failed" ELSE loss
    /\ UNCHANGED <<state, needRecovery, epoch, held, ops, notifying, reader,
                   workerVars>>

\* create_service fails: the client was refused and the pointer is what it
\* was, or the virtual service was refused and the pointer is NULL.
InitCreateFails(s) ==
    /\ Alive
    /\ hid = s
    /\ hid' = "failed"
    /\ service' \in {service, [service EXCEPT ![s] = "null"]}
    /\ UNCHANGED <<state, needRecovery, epoch, held, ops, contact, notifying,
                   reader, loss, workerVars>>

InitTouch   == InitCreates("touch", "opened", "buttons") \/ InitCreateFails("touch")
InitButtons == InitCreates("buttons", "buttons", "ok") \/ InitCreateFails("buttons")

\* dlopen or dlsym fails before any service is created.
InitLibrariesFail ==
    /\ Alive
    /\ hid = "touch"
    /\ hid' = "failed"
    /\ UNCHANGED <<state, needRecovery, epoch, held, ops, service, contact,
                   notifying, reader, loss, workerVars>>

\* Mutant of InitPublishes: R whatever initialize_hid returned.
InitPublishesReady ==
    /\ Alive
    /\ hid \in {"ok", "failed"}
    /\ state' = "R"
    /\ hid' = "done"
    /\ UNCHANGED <<needRecovery, epoch, held, ops, service, contact, notifying,
                   reader, loss, workerVars>>

InitPublishes ==
    /\ Alive
    /\ hid \in {"ok", "failed"}
    /\ state' = IF hid = "ok" THEN "R" ELSE "L"
    /\ hid' = "done"
    /\ UNCHANGED <<needRecovery, epoch, held, ops, service, contact, notifying,
                   reader, loss, workerVars>>
-----------------------------------------------------------------------------
(* The worker: dispatch_thread and recover_services.                       *)

WorkerTakes ==
    /\ Alive
    /\ worker = "idle" /\ ~needRecovery /\ ops # <<>>
    /\ worker' = "dispatch"
    /\ cur' = Head(ops)
    /\ ops' = Tail(ops)
    /\ UNCHANGED <<state, needRecovery, epoch, held, failures, hid, service,
                   contact, notifying, reader, loss>>

\* The queue is emptied; the lock is released before recover_services.
WorkerDiscards ==
    /\ Alive
    /\ worker = "idle" /\ needRecovery
    /\ worker' = "discarded"
    /\ ops' = <<>>
    /\ loss' = "failed"
    /\ UNCHANGED <<state, needRecovery, epoch, held, cur, failures, hid,
                   service, contact, notifying, reader>>

\* The service an operation is posted to.
Target(o) == IF o.kind = "B" THEN "buttons" ELSE "touch"

\* What a successful post leaves in the event system (scroll_gesture ends up).
After(o, c) == IF o.kind = "B" THEN c ELSE o.down

\* A failed post: the event did not arrive, or part of a wheel gesture did.
FailedContacts(o) == IF o.kind = "W" THEN {contact, TRUE, FALSE} ELSE {contact}

\* Mutant of CountDispatch: need_recovery is assigned instead of set.
CountDispatchAssigns(ok) ==
    /\ failures' = IF ok THEN 0 ELSE failures + 1
    /\ needRecovery' = (~ok /\ failures + 1 >= 2)

\* Account for one dispatch: two failures in a row ask for recovery.
CountDispatch(ok) ==
    /\ failures' = IF ok THEN 0 ELSE failures + 1
    /\ needRecovery' = (needRecovery \/ (~ok /\ failures + 1 >= 2))

WorkerPosts ==
    /\ Alive
    /\ worker = "dispatch"
    /\ service[Target(cur)] = "live"
    /\ contact' = After(cur, contact)
    /\ CountDispatch(TRUE)
    /\ worker' = "idle" /\ cur' = UpOp
    /\ UNCHANGED <<state, epoch, held, ops, hid, service, notifying,
                   reader, loss>>

WorkerPostFails ==
    /\ Alive
    /\ worker = "dispatch"
    /\ contact' \in (IF service[Target(cur)] = "live" THEN FailedContacts(cur)
                                                      ELSE {contact})
    /\ CountDispatch(FALSE)
    /\ worker' = "idle" /\ cur' = UpOp
    /\ loss' = "failed"
    /\ UNCHANGED <<state, epoch, held, ops, hid, service, notifying, reader>>

RecoverBegins ==
    /\ Alive
    /\ worker = "discarded"
    /\ worker' = "rebuild"
    /\ state' = "I"
    /\ UNCHANGED <<needRecovery, epoch, held, ops, cur, failures, hid, service,
                   contact, notifying, reader, loss>>

\* One attempt of the loop that fails: both pointers were cleared first.
RebuildFails ==
    /\ Alive
    /\ worker = "rebuild"
    /\ service' \in {[s \in Services |-> "null"],
                     [s \in Services |-> IF s = "touch" THEN "live" ELSE "null"]}
    /\ contact' = FALSE
    /\ UNCHANGED <<state, needRecovery, epoch, held, ops, hid, notifying,
                   reader, loss, workerVars>>

RebuildSucceeds ==
    /\ Alive
    /\ worker = "rebuild"
    /\ worker' = "rebuilt"
    /\ service' = [s \in Services |-> "live"]
    /\ contact' = FALSE
    /\ UNCHANGED <<state, needRecovery, epoch, held, ops, cur, failures, hid,
                   notifying, reader, loss>>

\* Mutant of RecoverEnds: the services are back and R is never published.
RecoverEndsSilently ==
    /\ Alive
    /\ worker = "rebuilt"
    /\ worker' = "idle"
    /\ needRecovery' = FALSE
    /\ held' = FALSE
    /\ failures' = 0
    /\ UNCHANGED <<state, epoch, ops, cur, hid, service, contact, notifying,
                   reader, loss>>

RecoverEnds ==
    /\ Alive
    /\ worker = "rebuilt"
    /\ worker' = "idle"
    /\ needRecovery' = FALSE
    /\ held' = FALSE
    /\ state' = "R"
    /\ failures' = 0
    /\ UNCHANGED <<epoch, ops, cur, hid, service, contact, notifying, reader,
                   loss>>
-----------------------------------------------------------------------------
(* Service callbacks, the event system and the process itself.             *)

NotifyStarts ==
    /\ Alive
    /\ NotifyWrites
    /\ UNCHANGED <<needRecovery, epoch, held, ops, hid, service, contact,
                   reader, loss, workerVars>>

NotifyLocks ==
    /\ Alive
    /\ notifying > 0
    /\ notifying' = notifying - 1
    /\ needRecovery' = TRUE
    /\ UNCHANGED <<state, epoch, held, ops, hid, service, contact, reader,
                   loss, workerVars>>

\* External: the event system drops a service, and with it a contact on it.
ServiceDropped(s) ==
    /\ Alive
    /\ service[s] = "live"
    /\ service' = [service EXCEPT ![s] = "dead"]
    /\ contact' = (contact /\ s # "touch")
    /\ loss' = "failed"
    /\ UNCHANGED <<state, needRecovery, epoch, held, ops, hid, notifying,
                   reader, workerVars>>

\* The memory of a helper that was just started.
Fresh ==
    /\ state' = "I" /\ needRecovery' = FALSE /\ epoch' = BootEpoch
    /\ held' = FALSE /\ ops' = <<>> /\ worker' = "idle" /\ cur' = UpOp
    /\ failures' = 0 /\ hid' = "touch" /\ service' = [s \in Services |-> "null"]
    /\ notifying' = 0

\* main returns after EOF, or a signal ends the process (on_signal re-raises):
\* the process memory goes, what the event system last saw stays.
Exit ==
    /\ Alive
    /\ Fresh
    /\ reader' = IF reader = "eof" THEN "closed" ELSE "crashed"
    /\ UNCHANGED <<contact, loss>>

\* External: launchd's KeepAlive starts a new process; its services are new.
Restart ==
    /\ ~Alive
    /\ Fresh
    /\ reader' = "reading"
    /\ contact' = FALSE
    /\ loss' = "none"

Next ==
    \/ \E r \in Records : Handle(r)
    \/ ReaderEof
    \/ InitOpens \/ InitTouch \/ InitButtons \/ InitLibrariesFail \/ InitPublishes
    \/ WorkerTakes \/ WorkerDiscards \/ WorkerPosts \/ WorkerPostFails
    \/ RecoverBegins \/ RebuildFails \/ RebuildSucceeds \/ RecoverEnds
    \/ NotifyStarts \/ NotifyLocks
    \/ \E s \in Services : ServiceDropped(s)
    \/ Exit \/ Restart

Spec == Init /\ [][Next]_vars

(***************************************************************************)
(* Fairness: the worker is a runnable thread that never blocks for ever,   *)
(* a callback gets the lock, launchd keeps the helper alive, and           *)
(* create_service succeeds if recover_services keeps trying.               *)
(***************************************************************************)
WorkerProgress == \/ WorkerTakes \/ WorkerDiscards \/ WorkerPosts
                  \/ WorkerPostFails \/ RecoverBegins \/ RecoverEnds

FairSpec == /\ Spec
            /\ WF_vars(WorkerProgress)
            /\ WF_vars(RebuildSucceeds)
            /\ WF_vars(NotifyLocks)
            /\ WF_vars(Restart)
-----------------------------------------------------------------------------
(***************************************************************************)
(* Properties                                                              *)
(***************************************************************************)

\* The operations still to be posted, the one in the worker's hands first.
Pending == IF worker = "dispatch" THEN <<cur>> \o ops ELSE ops

\* f is the finger before each operation of q and after the last: it starts
\* as c and ends as h; a down edge and a wheel gesture find the finger up and
\* a move finds it down.
Gesture(q, c, h, f) ==
    /\ f[0] = c
    /\ f[Len(q)] = h
    /\ \A i \in 1..Len(q) :
          /\ f[i] = After(q[i], f[i-1])
          /\ q[i] \in {DownOp, WheelOp} => ~f[i-1]
          /\ q[i] = MoveOp => f[i-1]

\* The contact is accounted for: posting what is pending takes the event
\* system's finger to the one the reader believes in (held), and never stacks
\* one contact on another on the way ("never stack two contacts",
\* dvm_hid.c:507).  Only an operation that was refused, failed or discarded,
\* or the loss of the service, may break this.
ContactAccounted ==
    Alive /\ loss = "none" => \E f \in [0..Len(Pending) -> BOOLEAN] :
                                  Gesture(Pending, contact, held, f)

\* Ready means that the worker has a touch service to post to: the pointer is
\* set whenever R is published and the worker is not busy rebuilding.  (The
\* buttons pointer has no such guarantee: the init thread may still fail to
\* create that service, and clear it, while a recovery publishes R.)
ReadyHasTouch ==
    state = "R" /\ worker \in {"idle", "dispatch"} => service["touch"] # "null"

\* A loss that is registered before recover_services begins to create, by a
\* callback or by two failed dispatches, leads to new services, whatever the init
\* thread, the reader and other callbacks do.  A callback that gets the lock
\* later than that is forgotten (ClosedIsReplaced).
LossRebuilt ==
    needRecovery /\ worker \in {"idle", "dispatch", "discarded"}
        ~> (worker = "rebuilt" \/ ~Alive)

\* A service reported as closed leads to R being announced again: the host
\* does not drop input for ever (the init thread may still publish L over it).
LossAnnounced == notifying > 0 ~> (state = "R" \/ ~Alive)

-----------------------------------------------------------------------------
(* Statements of the source that the code does not keep.                   *)

\* dvm_hid.c:507 "never stack two contacts": no down edge is posted while the
\* event system has a finger down, when every post succeeds.
NoStackedContact ==
    worker = "dispatch" /\ cur = DownOp /\ contact => loss = "failed"

\* dvm_hid.c:396 "Rebuild them with fresh clients instead of staying dead": a
\* callback that is at work while a service is closed leads to a new service,
\* since every recovery replaces both.
ClosedIsReplaced ==
    \A s \in Services :
        notifying > 0 /\ service[s] = "dead" ~> (service[s] # "dead" \/ ~Alive)

\* dvm_hid.c:439 "stale gestures die with the service": nothing queued for the
\* services of before the recovery is left to be posted to the new ones.
StaleOpsDie == worker = "rebuilt" => ops = <<>>

=============================================================================
