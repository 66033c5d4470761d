--------------------------- MODULE PowerPublisher ---------------------------
(***************************************************************************)
(* The guest power-source publisher (tools/re/power_pv_service.c).  All of *)
(* its handlers run on one serial dispatch queue: the initial publication, *)
(* the powerd resync notification, delayed retries and the signal handler. *)
(* powerd and notifyd are other processes, so between two calls of one     *)
(* handler powerd may restart or another power source may appear: a        *)
(* publication is a step per call.  Texts, dictionaries and the clock are  *)
(* abstracted; a timer is the retry generation its block captured.         *)
(***************************************************************************)
EXTENDS Naturals

CONSTANTS MaxFaults,      \* calls into powerd and notifyd that may fail
          MaxRestarts,    \* restarts of powerd
          MaxGeneration,  \* horizon: later retry timers have not fired yet
          None            \* no power source

ASSUME MaxFaultsAssumption == MaxFaults \in Nat
ASSUME MaxRestartsAssumption == MaxRestarts \in Nat
ASSUME MaxGenerationAssumption == MaxGeneration \in Nat
ASSUME NoneAssumption == None \notin Nat

VARIABLES
    source, ready, stopping, percentOwned, \* fields of struct Publisher
    complete, resyncPending,
    retrySeconds, retryGeneration,
    timers,      \* generations of the retry blocks that have not run
    step,        \* the call the running handler makes next, or idle
    why,         \* on whose behalf publish_source runs
    fresh,       \* the source that publish_source just created
    main,        \* where main() is
    exitStatus,  \* None while the process runs
    created,     \* external: our sources that powerd knows
    listed,      \* external: those that have details
    foreign,     \* external: another power source is listed
    resync,      \* external: a resync notification waits for the queue
    percent,     \* external: who wrote the system percentage
    next,        \* identity of the next source
    powerdFaults, notifyFaults, restarts  \* calls that failed, restarts

publisherVars == <<source, ready, stopping, percentOwned, complete,
                   resyncPending, retrySeconds, retryGeneration>>
queueVars     == <<step, why, fresh, main, exitStatus>>
powerdVars    == <<created, listed, foreign, resync, next, restarts>>
faultVars     == <<powerdFaults, notifyFaults>>
vars == <<publisherVars, timers, queueVars, powerdVars, percent, faultVars>>

Running == exitStatus = None
Idle == Running /\ step = "idle"

PublisherType ==
    /\ source \in Nat \cup {None}
    /\ ready \in BOOLEAN /\ stopping \in BOOLEAN /\ percentOwned \in BOOLEAN
    /\ complete \in BOOLEAN /\ resyncPending \in BOOLEAN
    /\ retrySeconds \in {0, 1, 2, 4, 8, 16, 30, 32}
    /\ retryGeneration \in Nat
    /\ timers \subseteq Nat
QueueType ==
    /\ step \in {"idle", "resync", "create", "set", "verify", "percent", "undo",
                 "failed"}
    /\ why \in {"initial", "startup", "resync", "retry"}
    /\ fresh \in Nat \cup {None}
    /\ main \in {"start", "initial", "failed", "drain", "running"}
    /\ exitStatus \in {None, 0, 1}
PowerdType ==
    /\ created \subseteq Nat /\ listed \subseteq created
    /\ foreign \in BOOLEAN /\ resync \in BOOLEAN
    /\ percent \in {"none", "ours", "other"}
    /\ next \in Nat
BudgetType ==
    /\ powerdFaults \in Nat /\ notifyFaults \in Nat
    /\ powerdFaults + notifyFaults <= MaxFaults
    /\ restarts \in 0..MaxRestarts

\* The types of the variables; only a source that powerd knows is listed.
TypeOK == PublisherType /\ QueueType /\ PowerdType /\ BudgetType

\* main() has registered for the notifications and starts the initial
\* publication; powerd may already hold another source and a percentage.
Init ==
    /\ source = None /\ ready = FALSE /\ stopping = FALSE /\ percentOwned = FALSE
    /\ complete = FALSE /\ resyncPending = FALSE
    /\ retrySeconds = 0 /\ retryGeneration = 0
    /\ timers = {} /\ step = "idle" /\ why = "initial" /\ fresh = None
    /\ main = "start" /\ exitStatus = None
    /\ created = {} /\ listed = {} /\ foreign \in BOOLEAN /\ resync = FALSE
    /\ percent \in {"none", "other"}
    /\ next = 0 /\ powerdFaults = 0 /\ notifyFaults = 0 /\ restarts = 0
-----------------------------------------------------------------------------
(* Calls that the handlers share.                                          *)

\* A handler whose calls into powerd and into notifyd failed or not.
Faults(badPowerd, badNotify) ==
    /\ powerdFaults' = powerdFaults + (IF badPowerd THEN 1 ELSE 0)
    /\ notifyFaults' = notifyFaults + (IF badNotify THEN 1 ELSE 0)
    /\ powerdFaults' + notifyFaults' <= MaxFaults

\* release_source(h): a source of an earlier powerd is unknown to this one.
ReleaseSource(h, bad) ==
    /\ bad => h \in created
    /\ created' = IF bad THEN created ELSE created \ {h}
    /\ listed' = IF bad THEN listed ELSE listed \ {h}

Accepted(h, bad) == h \in created /\ ~bad

\* withdraw_percent: only an owned percentage, and only if it is still ours;
\* the ownership ends whether or not notifyd obeyed.
WithdrawPercent(bad) ==
    /\ bad => percentOwned
    /\ percentOwned' = FALSE
    /\ percent' = IF percentOwned /\ percent = "ours" /\ ~bad THEN "none"
                                                              ELSE percent

\* release_current_source: the handle is forgotten even if powerd refused.
ReleaseCurrent(badNotify, badRelease) ==
    /\ WithdrawPercent(badNotify)
    /\ IF source = None
         THEN ~badRelease /\ UNCHANGED <<source, ready, created, listed>>
         ELSE /\ ReleaseSource(source, badRelease)
              /\ source' = None
              /\ ready' = FALSE

\* schedule_retry: a new generation, twice the delay up to 30 seconds.
Delay == IF retrySeconds = 0 THEN 1 ELSE IF retrySeconds > 30 THEN 30 ELSE retrySeconds

\* Mutant of ScheduleRetry: the block captures the generation of before the
\* increment.
ScheduleRetryStale ==
    /\ retrySeconds' = IF Delay < 30 THEN Delay * 2 ELSE 30
    /\ retryGeneration' = retryGeneration + 1
    /\ timers' = timers \cup {retryGeneration}

ScheduleRetry ==
    /\ retrySeconds' = IF Delay < 30 THEN Delay * 2 ELSE 30
    /\ retryGeneration' = retryGeneration + 1
    /\ timers' = timers \cup {retryGeneration + 1}
-----------------------------------------------------------------------------
(* publish_source, one call into powerd or notifyd at a time.              *)

\* Its entry: a source that is still set is released first ("superseded").
Enter(who) ==
    /\ step' = "create" /\ why' = who
    /\ IF source = None
         THEN UNCHANGED <<source, ready, percentOwned, percent, created, listed>>
         ELSE ReleaseCurrent(FALSE, FALSE)

\* The first block of main().
Begin ==
    /\ Idle /\ main = "start" /\ ~stopping
    /\ main' = "initial"
    /\ Enter("initial")
    /\ UNCHANGED <<stopping, complete, resyncPending, retrySeconds,
                   retryGeneration, timers, fresh, exitStatus, foreign, resync,
                   next, faultVars, restarts>>

\* IOPSCreatePowerSource; a source returned with an error is released again.
Create(bad) ==
    /\ Running /\ step = "create"
    /\ Faults(bad, FALSE)
    /\ IF bad THEN step' = "failed" /\ UNCHANGED <<fresh, created, next>>
              ELSE /\ step' = "set"
                   /\ fresh' = next
                   /\ created' = created \cup {next}
                   /\ next' = next + 1
    /\ UNCHANGED <<publisherVars, timers, why, main, exitStatus, listed, foreign,
                   resync, restarts, percent>>

\* IOPSSetPowerSourceDetails: a restarted powerd does not know the source.
SetDetails(bad) ==
    /\ Running /\ step = "set"
    /\ bad => fresh \in created
    /\ Faults(bad, FALSE)
    /\ IF Accepted(fresh, bad) THEN step' = "verify" /\ listed' = listed \cup {fresh}
                               ELSE step' = "undo" /\ UNCHANGED listed
    /\ UNCHANGED <<publisherVars, timers, why, fresh, main, exitStatus, created,
                   foreign, resync, next, restarts, percent>>

\* verify_publication: our source is listed and it is the only one.
VerifyPublication(bad) ==
    /\ Running /\ step = "verify"
    /\ Faults(bad, FALSE)
    /\ step' = IF ~bad /\ listed = {fresh} /\ ~foreign THEN "percent" ELSE "undo"
    /\ UNCHANGED <<publisherVars, timers, why, fresh, main, exitStatus,
                   powerdVars, percent>>

\* The publication is over: back to the queue, or to what main's first block
\* still does (the resync deferred during startup, or the end of the block).
Return(ok) ==
    /\ step' = IF why = "initial" /\ ok /\ resyncPending THEN "resync" ELSE "idle"
    /\ complete' = TRUE
    /\ main' = IF main # "initial" \/ (why = "initial" /\ ok /\ resyncPending)
                 THEN main ELSE IF ok THEN "running" ELSE "failed"
    /\ fresh' = None

\* publish_percent and, if everything was read back, the end of
\* publish_source.  The percentage is owned only if it was read back.
PublishPercent(badSet, badPost, badGet, badRead) ==
    /\ Running /\ step = "percent"
    /\ Faults(badRead, badSet \/ badPost \/ badGet)
    /\ badSet => badPost
    /\ percent' = IF badSet THEN percent ELSE "ours"
    /\ percentOwned' = (~badSet /\ ~badGet)
    /\ IF ~badSet /\ ~badPost /\ ~badGet /\ ~badRead
         THEN /\ source' = fresh
              /\ ready' = TRUE
              /\ retrySeconds' = 1
              /\ retryGeneration' = retryGeneration + 1
              /\ Return(TRUE)
         ELSE /\ step' = "undo"
              /\ UNCHANGED <<source, ready, retrySeconds, retryGeneration,
                             complete, main, fresh>>
    /\ UNCHANGED <<stopping, resyncPending, timers, why, exitStatus, powerdVars>>

\* Mutants of Undo: only one of the two publications is taken back.
UndoSourceOnly(badNotify, badRelease) ==
    /\ Running /\ step = "undo"
    /\ Faults(badRelease, badNotify)
    /\ ReleaseSource(fresh, badRelease)
    /\ step' = "failed"
    /\ UNCHANGED <<source, ready, stopping, percentOwned, complete, resyncPending,
                   retrySeconds, retryGeneration, timers, why, fresh, main,
                   exitStatus, foreign, resync, next, restarts, percent>>

UndoPercentOnly(badNotify, badRelease) ==
    /\ Running /\ step = "undo"
    /\ Faults(badRelease, badNotify)
    /\ WithdrawPercent(badNotify)
    /\ step' = "failed"
    /\ UNCHANGED <<source, ready, stopping, complete, resyncPending, retrySeconds,
                   retryGeneration, timers, why, fresh, main, exitStatus,
                   powerdVars>>

\* Validation failed: withdraw the percentage and release the new source.
Undo(badNotify, badRelease) ==
    /\ Running /\ step = "undo"
    /\ Faults(badRelease, badNotify)
    /\ WithdrawPercent(badNotify)
    /\ ReleaseSource(fresh, badRelease)
    /\ step' = "failed"
    /\ UNCHANGED <<source, ready, stopping, complete, resyncPending, retrySeconds,
                   retryGeneration, timers, why, fresh, main, exitStatus, foreign,
                   resync, next, restarts>>

\* Mutant of Fail: only a retry schedules the next retry.
FailOnce ==
    /\ Running /\ step = "failed"
    /\ source' = None /\ ready' = FALSE
    /\ IF why = "retry" /\ ~stopping THEN ScheduleRetry
         ELSE UNCHANGED <<retrySeconds, retryGeneration, timers>>
    /\ Return(FALSE)
    /\ UNCHANGED <<stopping, percentOwned, resyncPending, why, exitStatus,
                   powerdVars, percent, faultVars>>

\* The label failed: a retry is scheduled except by the initial publication.
Fail ==
    /\ Running /\ step = "failed"
    /\ source' = None /\ ready' = FALSE
    /\ IF why # "initial" /\ ~stopping THEN ScheduleRetry
         ELSE UNCHANGED <<retrySeconds, retryGeneration, timers>>
    /\ Return(FALSE)
    /\ UNCHANGED <<stopping, percentOwned, resyncPending, why, exitStatus,
                   powerdVars, percent, faultVars>>
-----------------------------------------------------------------------------
(* The blocks on the queue.                                                *)

\* retry_publish: a superseded block does nothing.
Retry(g) ==
    /\ Idle /\ g \in timers /\ g < MaxGeneration
    /\ timers' = timers \ {g}
    /\ IF stopping \/ ready \/ g # retryGeneration
         THEN UNCHANGED <<step, why, source, ready, percentOwned, percent, created,
                          listed>>
         ELSE Enter("retry")
    /\ UNCHANGED <<stopping, complete, resyncPending, retrySeconds,
                   retryGeneration, fresh, main, exitStatus, foreign, resync,
                   next, faultVars, restarts>>

\* powerd_resync before the initial publication is complete, or after stop.
ResyncDeferred ==
    /\ Idle /\ resync /\ (stopping \/ ~complete)
    /\ resync' = FALSE
    /\ resyncPending' = (resyncPending \/ ~stopping)
    /\ UNCHANGED <<source, ready, stopping, percentOwned, complete, retrySeconds,
                   retryGeneration, timers, queueVars, created, listed, foreign,
                   next, restarts, percent, faultVars>>

\* Mutant of Republish: a pending retry is not superseded.
RepublishKeepsRetry(who, badNotify, badRelease) ==
    /\ Faults(badRelease, badNotify)
    /\ ReleaseCurrent(badNotify, badRelease)
    /\ step' = "create" /\ why' = who
    /\ UNCHANGED <<stopping, complete, retrySeconds, retryGeneration, timers, fresh,
                   main, exitStatus, foreign, next, restarts>>

\* The body of powerd_resync up to the creation of the new source.
Republish(who, badNotify, badRelease) ==
    /\ Faults(badRelease, badNotify)
    /\ retryGeneration' = retryGeneration + 1
    /\ ReleaseCurrent(badNotify, badRelease)
    /\ step' = "create" /\ why' = who
    /\ UNCHANGED <<stopping, complete, retrySeconds, timers, fresh, main,
                   exitStatus, foreign, next, restarts>>

\* Mutant of Resync: the source that powerd forgot is kept if it was ready.
ResyncKeepsReady(badNotify, badRelease) ==
    /\ Idle /\ resync /\ complete /\ ~stopping
    /\ resync' = FALSE
    /\ IF ready THEN UNCHANGED <<source, ready, stopping, percentOwned, complete,
                                 retrySeconds, retryGeneration, timers, queueVars,
                                 created, listed, foreign, next, restarts, percent,
                                 faultVars>>
               ELSE Republish("resync", badNotify, badRelease)
    /\ UNCHANGED resyncPending

Resync(badNotify, badRelease) ==
    /\ Idle /\ resync /\ complete /\ ~stopping
    /\ resync' = FALSE
    /\ Republish("resync", badNotify, badRelease)
    /\ UNCHANGED resyncPending

\* main's first block runs the deferred resync itself.
ResyncAtStartup(badNotify, badRelease) ==
    /\ Running /\ step = "resync"
    /\ resyncPending' = FALSE
    /\ Republish("startup", badNotify, badRelease)
    /\ UNCHANGED resync

\* main's second block, when the initial publication did not end ready.
StopAfterFailure(badNotify, badRelease) ==
    /\ Idle /\ main = "failed" /\ ~stopping
    /\ Faults(badRelease, badNotify)
    /\ stopping' = TRUE
    /\ retryGeneration' = retryGeneration + 1
    /\ ReleaseCurrent(badNotify, badRelease)
    /\ main' = "drain"
    /\ UNCHANGED <<complete, resyncPending, retrySeconds, timers, step, why, fresh,
                   exitStatus, foreign, resync, next, restarts>>

\* notify_cancel, an empty block to drain the queue, return 1.
MainReturns ==
    /\ Idle /\ main = "drain"
    /\ exitStatus' = 1
    /\ timers' = {} /\ resync' = FALSE
    /\ UNCHANGED <<publisherVars, step, why, fresh, main, created, listed, foreign,
                   next, restarts, percent, faultVars>>

\* shutdown_on_queue: release and exit, with 0 if powerd took the source back.
Shutdown(badNotify, badRelease) ==
    /\ Idle /\ ~stopping
    /\ Faults(badRelease, badNotify)
    /\ stopping' = TRUE
    /\ retryGeneration' = retryGeneration + 1
    /\ ReleaseCurrent(badNotify, badRelease)
    /\ exitStatus' = IF source = None \/ Accepted(source, badRelease) THEN 0 ELSE 1
    /\ timers' = {} /\ resync' = FALSE
    /\ UNCHANGED <<complete, resyncPending, retrySeconds, step, why, fresh, main,
                   foreign, next, restarts>>
-----------------------------------------------------------------------------
(* External: powerd and other power sources.                               *)

\* powerd restarts: it knows no source and asks its clients to resync.
PowerdRestarts ==
    /\ Running /\ restarts < MaxRestarts
    /\ restarts' = restarts + 1
    /\ created' = {} /\ listed' = {}
    /\ resync' = TRUE
    /\ UNCHANGED <<publisherVars, timers, queueVars, foreign, next, percent, faultVars>>

\* Another source comes and writes the percentage, or goes.
ForeignSource ==
    /\ Running
    /\ foreign' = ~foreign
    /\ percent' = IF foreign THEN percent ELSE "other"
    /\ UNCHANGED <<publisherVars, timers, queueVars, created, listed, resync, next,
                   restarts, faultVars>>

\* The queue and its handlers; a signal and the outside world are not among
\* what must happen.
Work ==
    \/ Begin \/ Fail \/ ResyncDeferred \/ MainReturns
    \/ \E g \in timers : Retry(g)
    \/ \E bad \in BOOLEAN : Create(bad) \/ SetDetails(bad) \/ VerifyPublication(bad)
    \/ \E a, b, c, d \in BOOLEAN : PublishPercent(a, b, c, d)
    \/ \E n, r \in BOOLEAN : \/ Undo(n, r) \/ Resync(n, r) \/ ResyncAtStartup(n, r)
                             \/ StopAfterFailure(n, r)

Next ==
    \/ Work
    \/ \E n, r \in BOOLEAN : Shutdown(n, r)
    \/ PowerdRestarts \/ ForeignSource

Spec == Init /\ [][Next]_vars

\* libdispatch runs what is queued, and a timer fires.
FairSpec == Spec /\ WF_vars(Work)
-----------------------------------------------------------------------------
(***************************************************************************)
(* Properties                                                              *)
(***************************************************************************)

\* A publisher that is not ready always has a retry coming: whatever fails,
\* restarts or is superseded, the block with the current generation is
\* pending whenever the queue is free.
RetryArmed ==
    Idle /\ main = "running" /\ ~stopping /\ ~ready => retryGeneration \in timers

\* "supersede a pending delayed retry": no retry block that would still act
\* survives success or stopping, or overlaps another publication.
RetrySuperseded ==
    ready \/ stopping \/ step # "idle" => retryGeneration \notin timers

\* Ready is never silently stale: powerd lists our source, or it has been
\* restarted and its resync still waits for the queue.
ReadyIsListed == ready => source \in listed \/ resync

\* The system percentage is ours only while our source is published: every
\* failed, superseded or stopped publication withdrew it, unless notifyd
\* refused a call.
PercentBacked ==
    percent = "ours" /\ step = "idle" /\ notifyFaults = 0 => ready

\* No source is left behind in powerd, not even after exit, unless a call into
\* powerd failed: it is the published one or the one in hand.
NoLeakedSource == powerdFaults = 0 => created \subseteq {source, fresh}

Leaked == ~(listed \subseteq {source, fresh})

\* A publisher that started and lost its source becomes ready again, unless
\* it is stopped, another source is listed, or a source it could not release
\* still is (verify_publication then refuses every new one).
Recovers ==
    main = "running" /\ ~ready ~>
        ready \/ ~Running \/ foreign \/ Leaked \/ retryGeneration >= MaxGeneration
=============================================================================
