------------------------ MODULE PowerPublisherProofs ------------------------
(***************************************************************************)
(* Proofs about PowerPublisher: the safety properties of the publisher for *)
(* any number of failing calls, restarts of powerd and retries.            *)
(***************************************************************************)
EXTENDS PowerPublisher, TLAPS

(***************************************************************************)
(* The inductive invariant.  Each part says what a handler finds when it   *)
(* starts and what it holds on the way.                                    *)
(***************************************************************************)
\* ready is another name for a published source.
ReadyIsSource == ready <=> source # None

\* A handler that publishes starts with nothing published, and never after
\* stopping; publish_source leaves nothing in hand.
Publishing == step \in {"create", "set", "verify", "percent", "undo", "failed"}
PublishingClean ==
    /\ Publishing => source = None
    /\ step # "idle" => ~stopping
    /\ step \in {"idle", "resync", "create"} => fresh = None
    /\ step \in {"set", "verify", "percent", "undo"} => fresh # None

\* Who publishes: main's first block, or a handler after it.
Startup ==
    /\ step # "idle" => (main = "initial" <=> why \in {"initial", "startup"})
    /\ main = "initial" => step # "idle"
    /\ step = "resync" => main = "initial"
    /\ main = "start" => ~complete /\ step = "idle"
    /\ main \in {"running", "failed", "drain"} => complete
    /\ ~complete => ~ready /\ timers = {}
    /\ main = "drain" => stopping
    /\ stopping => ~ready

\* A timer never has a generation of the future.
TimersPast == \A g \in timers : g <= retryGeneration

\* The source in hand was listed, unless powerd has restarted since.
HandListed == step \in {"verify", "percent"} => fresh \in listed \/ resync

\* The percentage is owned only by a published source or one about to be
\* withdrawn, and is ours only if owned, while notifyd obeys.
PercentHeld ==
    /\ percentOwned => ready \/ step = "undo"
    /\ percent = "ours" /\ notifyFaults = 0 => percentOwned

\* What the label failed forgets, powerd has forgotten too.
FailedReleased == step = "failed" /\ powerdFaults = 0 => created = {}

Handler == ReadyIsSource /\ PublishingClean /\ Startup
Timers  == TimersPast /\ RetryArmed /\ RetrySuperseded
Powerd  == HandListed /\ ReadyIsListed /\ FailedReleased /\ NoLeakedSource
Inv     == TypeOK /\ Handler /\ Timers /\ Powerd /\ PercentHeld

LEMMA InvGivesPercent == Inv => PercentBacked
  BY DEF Inv, PercentHeld, PercentBacked

\* What a failed call leaves in the counters.
LEMMA FaultsFacts ==
    ASSUME TypeOK, NEW p \in BOOLEAN, NEW n \in BOOLEAN, Faults(p, n)
    PROVE  /\ powerdFaults' \in Nat /\ notifyFaults' \in Nat
           /\ powerdFaults' + notifyFaults' <= MaxFaults
           /\ powerdFaults' = 0 => powerdFaults = 0 /\ ~p
           /\ notifyFaults' = 0 => notifyFaults = 0 /\ ~n
  BY DEF TypeOK, BudgetType, Faults

\* What release_current_source leaves, whether or not its calls failed.
LEMMA ReleaseFacts ==
    ASSUME TypeOK, Handler, NEW n \in BOOLEAN, NEW r \in BOOLEAN, ReleaseCurrent(n, r)
    PROVE  /\ source' = None /\ ready' = FALSE /\ percentOwned' = FALSE
           /\ percent' \in {"none", "ours", "other"}
           /\ percent' = "ours" => percent = "ours" /\ (percentOwned => n)
           /\ created' \subseteq created /\ listed' \subseteq created'
           /\ ~r => created' \subseteq created \ {source}
<1>1. source' = None /\ ready' = FALSE /\ percentOwned' = FALSE
  BY DEF ReleaseCurrent, WithdrawPercent, Handler, ReadyIsSource, TypeOK,
         PublisherType
<1>2. percent' \in {"none", "ours", "other"}
  BY DEF ReleaseCurrent, WithdrawPercent, TypeOK, PublisherType, PowerdType
<1>3. percent' = "ours" => percent = "ours" /\ (percentOwned => n)
  BY DEF ReleaseCurrent, WithdrawPercent, TypeOK, PublisherType, PowerdType
<1>4. CASE source = None
  <2>1. UNCHANGED <<created, listed>>
    BY <1>4 DEF ReleaseCurrent
  <2> QED
    BY <1>1, <1>2, <1>3, <1>4, <2>1, NoneAssumption DEF TypeOK, PowerdType
<1>5. CASE source # None
  <2>1. ReleaseSource(source, r)
    BY <1>5 DEF ReleaseCurrent
  <2> QED
    BY <1>1, <1>2, <1>3, <2>1 DEF ReleaseSource, TypeOK, PowerdType
<1> QED
  BY <1>4, <1>5

(***************************************************************************)
(* One lemma per action.  The parts of the invariant are expanded in all   *)
(* of them.                                                                *)
(***************************************************************************)
USE NoneAssumption
    DEF publisherVars, queueVars, powerdVars, faultVars, Idle, Running,
        TypeOK, PublisherType, QueueType, PowerdType, BudgetType,
        Inv, Handler, ReadyIsSource, PublishingClean, Publishing, Startup,
        Timers, TimersPast, RetryArmed, RetrySuperseded,
        Powerd, HandListed, ReadyIsListed, FailedReleased, NoLeakedSource,
        PercentHeld

\* main's first block.
LEMMA BeginKeeps ==
    ASSUME Inv, Begin
    PROVE  Inv'
<1>c. UNCHANGED <<source, ready, percentOwned, percent, created, listed>>
  BY DEF Begin, Enter
<1>1. TypeOK'
  BY <1>c DEF Begin, Enter
<1>2. Handler'
  BY <1>c DEF Begin, Enter
<1>3. Timers'
  BY <1>c DEF Begin, Enter
<1>4. Powerd'
  BY <1>c DEF Begin, Enter
<1>5. PercentHeld'
  BY <1>c DEF Begin, Enter
<1> QED
  BY <1>1, <1>2, <1>3, <1>4, <1>5

\* One call of publish_source: create,
LEMMA CreateKeeps ==
    ASSUME Inv, NEW bad \in BOOLEAN, Create(bad)
    PROVE  Inv'
<1>a. Faults(bad, FALSE)
  BY DEF Create
<1>b. /\ powerdFaults' \in Nat /\ notifyFaults' \in Nat
      /\ powerdFaults' + notifyFaults' <= MaxFaults
      /\ powerdFaults' = 0 => powerdFaults = 0 /\ ~bad
      /\ notifyFaults' = 0 => notifyFaults = 0
  BY <1>a, FaultsFacts
<1>d. next \in Nat /\ next + 1 \in Nat
  OBVIOUS
<1>1. TypeOK'
  <2>1. PublisherType'
    BY <1>b, <1>d DEF Create
  <2>2. QueueType'
    BY <1>b, <1>d DEF Create
  <2>3. PowerdType'
    BY <1>b, <1>d DEF Create
  <2>4. BudgetType'
    BY <1>b, <1>d DEF Create
  <2> QED
    BY <2>1, <2>2, <2>3, <2>4
<1>2. Handler'
  BY <1>b, <1>d DEF Create
<1>3. Timers'
  BY <1>b, <1>d DEF Create
<1>4. Powerd'
  BY <1>b, <1>d DEF Create
<1>5. PercentHeld'
  BY <1>b, <1>d DEF Create
<1> QED
  BY <1>1, <1>2, <1>3, <1>4, <1>5

\* set the details,
LEMMA SetDetailsKeeps ==
    ASSUME Inv, NEW bad \in BOOLEAN, SetDetails(bad)
    PROVE  Inv'
<1>a. Faults(bad, FALSE)
  BY DEF SetDetails
<1>b. /\ powerdFaults' \in Nat /\ notifyFaults' \in Nat
      /\ powerdFaults' + notifyFaults' <= MaxFaults
      /\ powerdFaults' = 0 => powerdFaults = 0 /\ ~bad
      /\ notifyFaults' = 0 => notifyFaults = 0
  BY <1>a, FaultsFacts
<1>1. TypeOK'
  <2>1. PublisherType'
    BY <1>b DEF SetDetails, Accepted
  <2>2. QueueType'
    BY <1>b DEF SetDetails, Accepted
  <2>3. PowerdType'
    BY <1>b DEF SetDetails, Accepted
  <2>4. BudgetType'
    BY <1>b DEF SetDetails, Accepted
  <2> QED
    BY <2>1, <2>2, <2>3, <2>4
<1>2. Handler'
  BY <1>b DEF SetDetails, Accepted
<1>3. Timers'
  BY <1>b DEF SetDetails, Accepted
<1>4. Powerd'
  BY <1>b DEF SetDetails, Accepted
<1>5. PercentHeld'
  BY <1>b DEF SetDetails, Accepted
<1> QED
  BY <1>1, <1>2, <1>3, <1>4, <1>5

\* look for the source in the list,
LEMMA VerifyPublicationKeeps ==
    ASSUME Inv, NEW bad \in BOOLEAN, VerifyPublication(bad)
    PROVE  Inv'
<1>a. Faults(bad, FALSE)
  BY DEF VerifyPublication
<1>b. /\ powerdFaults' \in Nat /\ notifyFaults' \in Nat
      /\ powerdFaults' + notifyFaults' <= MaxFaults
      /\ powerdFaults' = 0 => powerdFaults = 0 /\ ~bad
      /\ notifyFaults' = 0 => notifyFaults = 0
  BY <1>a, FaultsFacts
<1>1. TypeOK'
  <2>1. PublisherType'
    BY <1>b DEF VerifyPublication
  <2>2. QueueType'
    BY <1>b DEF VerifyPublication
  <2>3. PowerdType'
    BY <1>b DEF VerifyPublication
  <2>4. BudgetType'
    BY <1>b DEF VerifyPublication
  <2> QED
    BY <2>1, <2>2, <2>3, <2>4
<1>2. Handler'
  BY <1>b DEF VerifyPublication
<1>3. Timers'
  BY <1>b DEF VerifyPublication
<1>4. Powerd'
  BY <1>b DEF VerifyPublication
<1>5. PercentHeld'
  BY <1>b DEF VerifyPublication
<1> QED
  BY <1>1, <1>2, <1>3, <1>4, <1>5

\* publish the percentage,
LEMMA PublishPercentKeeps ==
    ASSUME Inv, NEW a \in BOOLEAN, NEW b \in BOOLEAN, NEW c \in BOOLEAN,
        NEW d \in BOOLEAN, PublishPercent(a, b, c, d)
    PROVE  Inv'
<1>a. Faults(d, a \/ b \/ c)
  BY DEF PublishPercent
<1>b. /\ powerdFaults' \in Nat /\ notifyFaults' \in Nat
      /\ powerdFaults' + notifyFaults' <= MaxFaults
      /\ powerdFaults' = 0 => powerdFaults = 0 /\ ~d
      /\ notifyFaults' = 0 => notifyFaults = 0 /\ ~(a \/ b \/ c)
  BY <1>a, FaultsFacts
<1>d. retryGeneration \in Nat /\ retryGeneration + 1 \in Nat
  OBVIOUS
<1>1. TypeOK'
  <2>1. PublisherType'
    BY <1>b, <1>d DEF PublishPercent, Return
  <2>2. QueueType'
    BY <1>b, <1>d DEF PublishPercent, Return
  <2>3. PowerdType'
    BY <1>b, <1>d DEF PublishPercent, Return
  <2>4. BudgetType'
    BY <1>b, <1>d DEF PublishPercent, Return
  <2> QED
    BY <2>1, <2>2, <2>3, <2>4
<1>2. Handler'
  BY <1>b, <1>d DEF PublishPercent, Return
<1>3. Timers'
  BY <1>b, <1>d DEF PublishPercent, Return
<1>4. Powerd'
  BY <1>b, <1>d DEF PublishPercent, Return
<1>5. PercentHeld'
  BY <1>b, <1>d DEF PublishPercent, Return
<1> QED
  BY <1>1, <1>2, <1>3, <1>4, <1>5

\* take both back,
LEMMA UndoKeeps ==
    ASSUME Inv, NEW n \in BOOLEAN, NEW r \in BOOLEAN, Undo(n, r)
    PROVE  Inv'
<1>a. Faults(r, n)
  BY DEF Undo, Republish
<1>b. /\ powerdFaults' \in Nat /\ notifyFaults' \in Nat
      /\ powerdFaults' + notifyFaults' <= MaxFaults
      /\ powerdFaults' = 0 => powerdFaults = 0 /\ ~r
      /\ notifyFaults' = 0 => notifyFaults = 0 /\ ~n
  BY <1>a, FaultsFacts
<1>1. TypeOK'
  <2>1. PublisherType'
    BY <1>b DEF Undo, WithdrawPercent, ReleaseSource
  <2>2. QueueType'
    BY <1>b DEF Undo, WithdrawPercent, ReleaseSource
  <2>3. PowerdType'
    BY <1>b DEF Undo, WithdrawPercent, ReleaseSource
  <2>4. BudgetType'
    BY <1>b DEF Undo, WithdrawPercent, ReleaseSource
  <2> QED
    BY <2>1, <2>2, <2>3, <2>4
<1>2. Handler'
  BY <1>b DEF Undo, WithdrawPercent, ReleaseSource
<1>3. Timers'
  BY <1>b DEF Undo, WithdrawPercent, ReleaseSource
<1>4. Powerd'
  BY <1>b DEF Undo, WithdrawPercent, ReleaseSource
<1>5. PercentHeld'
  BY <1>b DEF Undo, WithdrawPercent, ReleaseSource
<1> QED
  BY <1>1, <1>2, <1>3, <1>4, <1>5

\* schedule the retry.
LEMMA FailKeeps ==
    ASSUME Inv, Fail
    PROVE  Inv'
<1>a. /\ step' = "idle" /\ source' = None /\ ready' = FALSE /\ ~stopping
      /\ UNCHANGED <<stopping, percentOwned, resyncPending>>
  BY DEF Fail, Return
<1>b. complete' = TRUE
  BY DEF Fail, Return
<1>c. \/ /\ why # "initial"
         /\ retrySeconds' = (IF Delay < 30 THEN Delay * 2 ELSE 30)
         /\ retryGeneration' = retryGeneration + 1
         /\ timers' = timers \cup {retryGeneration + 1}
      \/ /\ why = "initial" /\ main = "initial" /\ main' = "failed"
         /\ UNCHANGED <<retrySeconds, retryGeneration, timers>>
  BY <1>a DEF Fail, ScheduleRetry, Return
<1>d. retrySeconds' \in {0, 1, 2, 4, 8, 16, 30, 32}
  BY <1>c DEF Delay
<1>f. retryGeneration \in Nat /\ retryGeneration + 1 \in Nat /\ timers \subseteq Nat
  OBVIOUS
<1>e. retryGeneration' \in Nat /\ timers' \subseteq Nat
  BY <1>c, <1>f
<1>1. TypeOK'
  <2>1. PublisherType'
    BY <1>a, <1>b, <1>d, <1>e
  <2>2. QueueType'
    BY DEF Fail, Return
  <2>3. PowerdType'
    BY DEF Fail
  <2>4. BudgetType'
    BY DEF Fail
  <2> QED
    BY <2>1, <2>2, <2>3, <2>4
<1>2. Handler'
  BY DEF Fail, Return, ScheduleRetry
<1>3. Timers'
  <2>1. TimersPast'
    <3>1. \A g \in timers : g \in Nat /\ g <= retryGeneration /\ g <= retryGeneration + 1
      BY <1>f
    <3>2. retryGeneration + 1 <= retryGeneration + 1
      BY <1>f
    <3> QED
      BY ONLY <1>c, <3>1, <3>2 DEF TimersPast
  <2>2. RetryArmed'
    BY <1>c
  <2>3. RetrySuperseded'
    BY <1>a
  <2> QED
    BY <2>1, <2>2, <2>3
<1>4. Powerd'
  BY <1>a DEF Fail, Return
<1>5. PercentHeld'
  BY <1>a DEF Fail
<1> QED
  BY <1>1, <1>2, <1>3, <1>4, <1>5

\* A retry block.
LEMMA RetryKeeps ==
    ASSUME Inv, NEW g \in timers, Retry(g)
    PROVE  Inv'
<1>c. UNCHANGED <<source, ready, percentOwned, percent, created, listed>>
  BY DEF Retry, Enter
<1>1. TypeOK'
  <2>1. PublisherType'
    BY <1>c DEF Retry, Enter
  <2>2. QueueType'
    BY <1>c DEF Retry, Enter
  <2>3. PowerdType'
    BY <1>c DEF Retry, Enter
  <2>4. BudgetType'
    BY <1>c DEF Retry, Enter
  <2> QED
    BY <2>1, <2>2, <2>3, <2>4
<1>2. Handler'
  BY <1>c DEF Retry, Enter
<1>3. Timers'
  BY <1>c DEF Retry, Enter
<1>4. Powerd'
  BY <1>c DEF Retry, Enter
<1>5. PercentHeld'
  BY <1>c DEF Retry, Enter
<1> QED
  BY <1>1, <1>2, <1>3, <1>4, <1>5

\* A resync too early or too late.
LEMMA ResyncDeferredKeeps ==
    ASSUME Inv, ResyncDeferred
    PROVE  Inv'
<1>1. TypeOK'
  <2>1. PublisherType'
    BY DEF ResyncDeferred
  <2>2. QueueType'
    BY DEF ResyncDeferred
  <2>3. PowerdType'
    BY DEF ResyncDeferred
  <2>4. BudgetType'
    BY DEF ResyncDeferred
  <2> QED
    BY <2>1, <2>2, <2>3, <2>4
<1>2. Handler'
  BY DEF ResyncDeferred
<1>3. Timers'
  BY DEF ResyncDeferred
<1>4. Powerd'
  BY DEF ResyncDeferred
<1>5. PercentHeld'
  BY DEF ResyncDeferred
<1> QED
  BY <1>1, <1>2, <1>3, <1>4, <1>5

\* A resync on the queue,
LEMMA ResyncKeeps ==
    ASSUME Inv, NEW n \in BOOLEAN, NEW r \in BOOLEAN, Resync(n, r)
    PROVE  Inv'
<1>a. Faults(r, n)
  BY DEF Resync, Republish
<1>b. /\ powerdFaults' \in Nat /\ notifyFaults' \in Nat
      /\ powerdFaults' + notifyFaults' <= MaxFaults
      /\ powerdFaults' = 0 => powerdFaults = 0 /\ ~r
      /\ notifyFaults' = 0 => notifyFaults = 0 /\ ~n
  BY <1>a, FaultsFacts
<1>c. /\ source' = None /\ ready' = FALSE /\ percentOwned' = FALSE
      /\ percent' \in {"none", "ours", "other"}
      /\ percent' = "ours" => percent = "ours" /\ (percentOwned => n)
      /\ created' \subseteq created /\ listed' \subseteq created'
      /\ ~r => created' \subseteq created \ {source}
  BY ReleaseFacts DEF Resync, Republish
<1>d. retryGeneration \in Nat /\ retryGeneration + 1 \in Nat
  OBVIOUS
<1>1. TypeOK'
  BY <1>b, <1>c, <1>d DEF Resync, Republish
<1>2. Handler'
  BY <1>b, <1>c, <1>d DEF Resync, Republish
<1>3. Timers'
  BY <1>b, <1>c, <1>d DEF Resync, Republish
<1>4. Powerd'
  BY <1>b, <1>c, <1>d DEF Resync, Republish
<1>5. PercentHeld'
  BY <1>b, <1>c, <1>d DEF Resync, Republish
<1> QED
  BY <1>1, <1>2, <1>3, <1>4, <1>5

\* and the one that main's first block runs.
LEMMA ResyncAtStartupKeeps ==
    ASSUME Inv, NEW n \in BOOLEAN, NEW r \in BOOLEAN, ResyncAtStartup(n, r)
    PROVE  Inv'
<1>a. Faults(r, n)
  BY DEF ResyncAtStartup, Republish
<1>b. /\ powerdFaults' \in Nat /\ notifyFaults' \in Nat
      /\ powerdFaults' + notifyFaults' <= MaxFaults
      /\ powerdFaults' = 0 => powerdFaults = 0 /\ ~r
      /\ notifyFaults' = 0 => notifyFaults = 0 /\ ~n
  BY <1>a, FaultsFacts
<1>c. /\ source' = None /\ ready' = FALSE /\ percentOwned' = FALSE
      /\ percent' \in {"none", "ours", "other"}
      /\ percent' = "ours" => percent = "ours" /\ (percentOwned => n)
      /\ created' \subseteq created /\ listed' \subseteq created'
      /\ ~r => created' \subseteq created \ {source}
  BY ReleaseFacts DEF ResyncAtStartup, Republish
<1>d. retryGeneration \in Nat /\ retryGeneration + 1 \in Nat
  OBVIOUS
<1>1. TypeOK'
  BY <1>b, <1>c, <1>d DEF ResyncAtStartup, Republish
<1>2. Handler'
  BY <1>b, <1>c, <1>d DEF ResyncAtStartup, Republish
<1>3. Timers'
  BY <1>b, <1>c, <1>d DEF ResyncAtStartup, Republish
<1>4. Powerd'
  BY <1>b, <1>c, <1>d DEF ResyncAtStartup, Republish
<1>5. PercentHeld'
  BY <1>b, <1>c, <1>d DEF ResyncAtStartup, Republish
<1> QED
  BY <1>1, <1>2, <1>3, <1>4, <1>5

\* main's second block,
LEMMA StopAfterFailureKeeps ==
    ASSUME Inv, NEW n \in BOOLEAN, NEW r \in BOOLEAN, StopAfterFailure(n, r)
    PROVE  Inv'
<1>a. Faults(r, n)
  BY DEF StopAfterFailure, Republish
<1>b. /\ powerdFaults' \in Nat /\ notifyFaults' \in Nat
      /\ powerdFaults' + notifyFaults' <= MaxFaults
      /\ powerdFaults' = 0 => powerdFaults = 0 /\ ~r
      /\ notifyFaults' = 0 => notifyFaults = 0 /\ ~n
  BY <1>a, FaultsFacts
<1>c. /\ source' = None /\ ready' = FALSE /\ percentOwned' = FALSE
      /\ percent' \in {"none", "ours", "other"}
      /\ percent' = "ours" => percent = "ours" /\ (percentOwned => n)
      /\ created' \subseteq created /\ listed' \subseteq created'
      /\ ~r => created' \subseteq created \ {source}
  <2>1. ReleaseCurrent(n, r)
    BY DEF StopAfterFailure
  <2> QED
    BY <2>1, ReleaseFacts
<1>d. retryGeneration \in Nat /\ retryGeneration + 1 \in Nat
  OBVIOUS
<1>1. TypeOK'
  BY <1>b, <1>c, <1>d DEF StopAfterFailure
<1>2. Handler'
  BY <1>b, <1>c, <1>d DEF StopAfterFailure
<1>3. Timers'
  BY <1>b, <1>c, <1>d DEF StopAfterFailure
<1>4. Powerd'
  BY <1>b, <1>c, <1>d DEF StopAfterFailure
<1>5. PercentHeld'
  BY <1>b, <1>c, <1>d DEF StopAfterFailure
<1> QED
  BY <1>1, <1>2, <1>3, <1>4, <1>5

\* its end,
LEMMA MainReturnsKeeps ==
    ASSUME Inv, MainReturns
    PROVE  Inv'
<1>1. TypeOK'
  BY DEF MainReturns
<1>2. Handler'
  BY DEF MainReturns
<1>3. Timers'
  BY DEF MainReturns
<1>4. Powerd'
  BY DEF MainReturns
<1>5. PercentHeld'
  BY DEF MainReturns
<1> QED
  BY <1>1, <1>2, <1>3, <1>4, <1>5

\* and the signal handler.
LEMMA ShutdownKeeps ==
    ASSUME Inv, NEW n \in BOOLEAN, NEW r \in BOOLEAN, Shutdown(n, r)
    PROVE  Inv'
<1>a. Faults(r, n)
  BY DEF Shutdown, Republish
<1>b. /\ powerdFaults' \in Nat /\ notifyFaults' \in Nat
      /\ powerdFaults' + notifyFaults' <= MaxFaults
      /\ powerdFaults' = 0 => powerdFaults = 0 /\ ~r
      /\ notifyFaults' = 0 => notifyFaults = 0 /\ ~n
  BY <1>a, FaultsFacts
<1>c. /\ source' = None /\ ready' = FALSE /\ percentOwned' = FALSE
      /\ percent' \in {"none", "ours", "other"}
      /\ percent' = "ours" => percent = "ours" /\ (percentOwned => n)
      /\ created' \subseteq created /\ listed' \subseteq created'
      /\ ~r => created' \subseteq created \ {source}
  BY ReleaseFacts DEF Shutdown, Republish
<1>d. retryGeneration \in Nat /\ retryGeneration + 1 \in Nat
  OBVIOUS
<1>1. TypeOK'
  BY <1>b, <1>c, <1>d DEF Shutdown, Accepted
<1>2. Handler'
  BY <1>b, <1>c, <1>d DEF Shutdown, Accepted
<1>3. Timers'
  BY <1>b, <1>c, <1>d DEF Shutdown, Accepted
<1>4. Powerd'
  BY <1>b, <1>c, <1>d DEF Shutdown, Accepted
<1>5. PercentHeld'
  BY <1>b, <1>c, <1>d DEF Shutdown, Accepted
<1> QED
  BY <1>1, <1>2, <1>3, <1>4, <1>5

\* powerd restarts.
LEMMA PowerdRestartsKeeps ==
    ASSUME Inv, PowerdRestarts
    PROVE  Inv'
<1>1. TypeOK'
  BY MaxRestartsAssumption DEF PowerdRestarts
<1>2. Handler'
  BY MaxRestartsAssumption DEF PowerdRestarts
<1>3. Timers'
  BY MaxRestartsAssumption DEF PowerdRestarts
<1>4. Powerd'
  BY MaxRestartsAssumption DEF PowerdRestarts
<1>5. PercentHeld'
  BY MaxRestartsAssumption DEF PowerdRestarts
<1> QED
  BY <1>1, <1>2, <1>3, <1>4, <1>5

\* Another source comes or goes.
LEMMA ForeignSourceKeeps ==
    ASSUME Inv, ForeignSource
    PROVE  Inv'
<1>1. TypeOK'
  BY DEF ForeignSource
<1>2. Handler'
  BY DEF ForeignSource
<1>3. Timers'
  BY DEF ForeignSource
<1>4. Powerd'
  BY DEF ForeignSource
<1>5. PercentHeld'
  BY DEF ForeignSource
<1> QED
  BY <1>1, <1>2, <1>3, <1>4, <1>5

\* Nothing happens.
LEMMA StutterKeeps ==
    ASSUME Inv, UNCHANGED vars
    PROVE  Inv'
<1>1. TypeOK'
  BY DEF vars
<1>2. Handler'
  BY DEF vars
<1>3. Timers'
  BY DEF vars
<1>4. Powerd'
  BY DEF vars
<1>5. PercentHeld'
  BY DEF vars
<1> QED
  BY <1>1, <1>2, <1>3, <1>4, <1>5

HIDE NoneAssumption
    DEF publisherVars, queueVars, powerdVars, faultVars, Idle, Running,
        TypeOK, PublisherType, QueueType, PowerdType, BudgetType,
        Inv, Handler, ReadyIsSource, PublishingClean, Publishing, Startup,
        Timers, TimersPast, RetryArmed, RetrySuperseded,
        Powerd, HandListed, ReadyIsListed, FailedReleased, NoLeakedSource,
        PercentHeld

LEMMA InvInit == Init => Inv
<1> SUFFICES ASSUME Init PROVE Inv
  OBVIOUS
<1>1. TypeOK
  <2>1. PublisherType /\ PowerdType
    BY DEF Init, PublisherType, PowerdType
  <2>2. QueueType
    BY DEF Init, QueueType
  <2>3. BudgetType
    BY MaxFaultsAssumption, MaxRestartsAssumption DEF Init, BudgetType
  <2> QED
    BY <2>1, <2>2, <2>3 DEF TypeOK
<1>2. Handler /\ Timers
  BY DEF Init, Handler, ReadyIsSource, PublishingClean, Publishing, Startup,
         Timers, TimersPast, RetryArmed, RetrySuperseded
<1>3. Powerd /\ PercentHeld
  BY DEF Init, Powerd, HandListed, ReadyIsListed, FailedReleased,
         NoLeakedSource, PercentHeld
<1> QED
  BY <1>1, <1>2, <1>3 DEF Inv

LEMMA InvStep == Inv /\ [Next]_vars => Inv'
<1> SUFFICES ASSUME Inv, [Next]_vars PROVE Inv'
  OBVIOUS
<1>1. CASE Begin \/ Fail \/ ResyncDeferred \/ MainReturns
  BY <1>1, BeginKeeps, FailKeeps, ResyncDeferredKeeps, MainReturnsKeeps
<1>2. CASE \E g \in timers : Retry(g)
  BY <1>2, RetryKeeps
<1>3. CASE \E bad \in BOOLEAN : Create(bad) \/ SetDetails(bad) \/ VerifyPublication(bad)
  BY <1>3, CreateKeeps, SetDetailsKeeps, VerifyPublicationKeeps
<1>4. CASE \E a, b, c, d \in BOOLEAN : PublishPercent(a, b, c, d)
  BY <1>4, PublishPercentKeeps
<1>5. CASE \E n, r \in BOOLEAN : \/ Undo(n, r) \/ Resync(n, r)
                                 \/ ResyncAtStartup(n, r) \/ StopAfterFailure(n,
                                     r)
  BY <1>5, UndoKeeps, ResyncKeeps, ResyncAtStartupKeeps, StopAfterFailureKeeps
<1>6. CASE \E n, r \in BOOLEAN : Shutdown(n, r)
  BY <1>6, ShutdownKeeps
<1>7. CASE PowerdRestarts \/ ForeignSource
  BY <1>7, PowerdRestartsKeeps, ForeignSourceKeeps
<1>8. CASE UNCHANGED vars
  BY <1>8, StutterKeeps
<1> QED
  BY <1>1, <1>2, <1>3, <1>4, <1>5, <1>6, <1>7, <1>8 DEF Next, Work

LEMMA InvAlways == Spec => []Inv
  BY InvInit, InvStep, PTL DEF Spec

\* The publisher's variables keep their types; the retry delay stays within
\* the back-off 1, 2, 4, 8, 16, 30.
THEOREM PublisherTypeCorrect == Spec => []TypeOK
<1>1. Inv => TypeOK
  BY DEF Inv
<1> QED
  BY <1>1, InvAlways, PTL

\* Whatever fails or restarts, a publisher that is not ready has a retry
\* pending with the current generation whenever its queue is free.
THEOREM RetryIsArmed == Spec => []RetryArmed
<1>1. Inv => RetryArmed
  BY DEF Inv, Timers
<1> QED
  BY <1>1, InvAlways, PTL

\* A retry that would act never coexists with success, stopping or another
\* publication.
THEOREM RetryIsSuperseded == Spec => []RetrySuperseded
<1>1. Inv => RetrySuperseded
  BY DEF Inv, Timers
<1> QED
  BY <1>1, InvAlways, PTL

\* Ready means listed by powerd, or that powerd's resync is on its way.
THEOREM ReadyStaysListed == Spec => []ReadyIsListed
<1>1. Inv => ReadyIsListed
  BY DEF Inv, Powerd
<1> QED
  BY <1>1, InvAlways, PTL

\* While notifyd obeys, the percentage is ours only with a published source.
THEOREM PercentIsBacked == Spec => []PercentBacked
  BY InvGivesPercent, InvAlways, PTL

\* While powerd obeys, it keeps no source that the publisher forgot.
THEOREM NoSourceLeaks == Spec => []NoLeakedSource
<1>1. Inv => NoLeakedSource
  BY DEF Inv, Powerd
<1> QED
  BY <1>1, InvAlways, PTL
=============================================================================
