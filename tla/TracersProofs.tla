--------------------------- MODULE TracersProofs ---------------------------
(***************************************************************************)
(* Proofs about the debugger sessions: that the ones that change the guest *)
(* (the scripts that borrow a thread, the trace that resumes the guest     *)
(* itself, the override of a QEMU validator) leave it as they should, and  *)
(* that what the tracers record is what happened.  Each family keeps its   *)
(* own variables, so each proof needs an invariant of one module only.     *)
(***************************************************************************)
EXTENDS Tracers, FiniteSetTheorems, TLAPS

-----------------------------------------------------------------------------
(* host_sks_request_callbacks. *)

\* At most one forced request, counted by overridden; QEMU is frozen for an
\* approval only while the override is unused; the file holds what was written.
SksInv ==
    /\ forced = <<>> \/ (overridden /\ \E d \in approved : forced = <<d>>)
    /\ challenge # "none" => ~overridden
    /\ approval = "none" \/ approval \in approved

LEMMA SksInitially == Init => SksInv
  BY DEF Init, SksInit, SksInv

\* An override uses up the right to one: it was unused before.
LEMMA SksOverride ==
    ASSUME SksInv, ~overridden, NEW d \in approved, Override(d),
           approved' = approved, challenge' = "none", approval' = approval
    PROVE  SksInv'
  <1>1. forced = <<>>
    BY DEF SksInv
  <1>2. CASE UNCHANGED forced
    BY <1>1, <1>2 DEF SksInv
  <1>3. CASE overridden' = TRUE /\ forced' = Append(forced, d)
    <2>1. forced' = <<d>>
      BY <1>1, <1>3
    <2> QED BY <1>3, <2>1 DEF SksInv
  <1> QED BY <1>2, <1>3 DEF Override

LEMMA SksStep == SksInv /\ [Next]_vars => SksInv'
  <1> SUFFICES ASSUME SksInv, [Next]_vars PROVE SksInv'
    OBVIOUS
  <1>1. CASE UNCHANGED sksVars
    BY <1>1 DEF SksInv, sksVars
  <1>2. CASE SksNext
    <2>1. ASSUME NEW d \in Digests, NEW matches \in BOOLEAN, Request(d, matches)
          PROVE  SksInv'
      <3>1. CASE UNCHANGED <<challenge, overridden, forced, altered>>
        BY <2>1, <3>1 DEF Request, SksInv
      <3>2. CASE Armed /\ sksMode = "hash" /\ UNCHANGED challenge /\ d \in approved /\ Override(d)
        BY <2>1, <3>2, SksOverride DEF Request, Armed
      <3>3. CASE Armed /\ challenge' = d /\ UNCHANGED <<overridden, forced, altered>>
        BY <2>1, <3>3 DEF Request, SksInv, Armed
      <3> QED BY <2>1, <3>1, <3>2, <3>3 DEF Request
    <2>2. ASSUME NEW d \in Digests, Approve(d) PROVE SksInv'
      BY <2>2 DEF Approve, SksInv
    <2>3. CASE Approval
      <3>1. CASE Accepts /\ Override(challenge)
        BY <2>3, <3>1, SksOverride DEF Approval, Accepts, SksInv
      <3>2. CASE UNCHANGED <<overridden, forced, altered>>
        BY <2>3, <3>2 DEF Approval, SksInv
      <3> QED BY <2>3, <3>1, <3>2 DEF Approval
    <2> QED BY <1>2, <2>1, <2>2, <2>3 DEF SksNext
  <1> QED BY <1>1, <1>2 DEF Next, vars

LEMMA SksConclusion == SksInv => OverrideExact
  <1> SUFFICES ASSUME SksInv PROVE OverrideExact
    OBVIOUS
  <1>1. CASE forced = <<>>
    <2>1. Len(forced) = 0
      BY <1>1
    <2> QED BY <2>1 DEF OverrideExact
  <1>2. ASSUME NEW d \in approved, forced = <<d>> PROVE OverrideExact
    <2>1. Len(forced) = 1 /\ forced[1] = d
      BY <1>2
    <2> QED BY <2>1 DEF OverrideExact
  <1> QED BY <1>1, <1>2 DEF SksInv

\* "one-request SKS validator override": for any set of requests and any number
\* of them, at most one is made to return true, and one the operator named.
THEOREM OverrideIsExact == Spec => []OverrideExact
  BY SksInitially, SksStep, SksConclusion, PTL DEF Spec

-----------------------------------------------------------------------------
(* The scripts that borrow a guest thread. *)

\* What the guest owes before the i-th call of a plan.
GestureOwed == <<0, 1, 1, 1, 2, 2, 2, 1>>
SpawnOwed == <<0, 1, 2, 2, 3, 4, 4, 3, 2, 1>>
Owed(p) == CASE p = "gesture" -> GestureOwed [] p = "spawn" -> SpawnOwed [] OTHER -> <<0>>

PlanPhases == {"timer", "gesture", "idle-reset", "spawn"}

Phases == {"copy", "count", "release", "percent", "register", "state", "set", "post",
           "cancel", "raised"} \cup PlanPhases

Calls == [tp : Threads, phase : Phases, index : Nat, token : BOOLEAN, published : BOOLEAN]

NatType ==
    /\ call = NoCall \/ call \in Calls
    /\ regs \in [Threads -> {"own", "borrowed"}] /\ slot \in [Threads -> {"own", "borrowed"}]
    /\ tokens \in Int /\ arrays \in Int

\* Only the thread of the call is borrowed, and its registers are.
Lent ==
    /\ \A t \in Threads : regs[t] = "borrowed" \/ slot[t] = "borrowed" => call.tp = t
    /\ call # NoCall => regs[call.tp] = "borrowed"

\* What the guest owes at each point of a call.
IopsOwes ==
    /\ tokens = 0 /\ call.phase \in {"copy", "count", "release"}
    /\ arrays = IF call.phase = "copy" THEN 0 ELSE 1

PercentOwes ==
    /\ arrays = 0 /\ tokens = IF call.token THEN 1 ELSE 0
    /\ call.phase \in {"percent", "register", "state", "set", "post", "cancel"}
    /\ call.phase = "register" => ~call.published
    /\ call.token <=> (call.published \/ call.phase \in {"state", "set", "post", "cancel"})

PlanOwes ==
    /\ tokens = 0 /\ call.phase \in PlanPhases
    /\ call.index \in 1..Len(Plan(call.phase))
    /\ arrays = Owed(call.phase)[call.index]

Under == call # NoCall /\ call.phase # "raised"

\* A fault ends the only call of the session.
Owes ==
    /\ call = NoCall /\ ~faulted => tokens = 0 /\ arrays = 0
    /\ call = NoCall /\ faulted => done
    /\ Under => ~faulted
    /\ Under =>
         /\ tool = "notify" => tokens = 0 /\ arrays = 0
         /\ tool = "iops" => IopsOwes
         /\ tool = "percent" => PercentOwes
         /\ tool \in PlanTools => PlanOwes

NatInv == NatType /\ Lent /\ Owes

\* The sums of the two plans, step by step.
LEMMA PlanSums ==
    ASSUME NEW p \in PlanPhases, NEW i \in 1..Len(Plan(p))
    PROVE  /\ Owed(p)[i] \in Int /\ Plan(p)[i] \in Int
           /\ Len(Plan(p)) \in Nat
           /\ i < Len(Plan(p)) => Owed(p)[i] + Plan(p)[i] = Owed(p)[i + 1]
           /\ i = Len(Plan(p)) => Owed(p)[i] + Plan(p)[i] = 0
           /\ Owed(p)[1] = 0 /\ 1 \in 1..Len(Plan(p))
  <1>1. CASE p = "gesture"
    <2>1. Plan(p) = GesturePlan /\ Owed(p) = GestureOwed
      BY <1>1 DEF Plan, Owed
    <2>2. Len(GesturePlan) = 8
      BY DEF GesturePlan
    <2>3. i \in {1, 2, 3, 4, 5, 6, 7, 8}
      BY <2>1, <2>2
    <2> QED BY <2>1, <2>2, <2>3 DEF GesturePlan, GestureOwed
  <1>2. CASE p = "spawn"
    <2>1. Plan(p) = SpawnPlan /\ Owed(p) = SpawnOwed
      BY <1>2 DEF Plan, Owed
    <2>2. Len(SpawnPlan) = 10
      BY DEF SpawnPlan
    <2>3. i \in {1, 2, 3, 4, 5, 6, 7, 8, 9, 10}
      BY <2>1, <2>2
    <2> QED BY <2>1, <2>2, <2>3 DEF SpawnPlan, SpawnOwed
  <1>3. CASE p \in {"timer", "idle-reset"}
    <2>1. Plan(p) = <<0>> /\ Owed(p) = <<0>>
      BY <1>3 DEF Plan, Owed
    <2> QED BY <2>1
  <1> QED BY <1>1, <1>2, <1>3 DEF PlanPhases

\* A call under way is the call of a thread.
LEMMA CallHasThread ==
    /\ NoCall.tp = NoThread
    /\ \A k \in Calls : k.tp \in Threads /\ k.tp # NoThread /\ k # NoCall
  BY LldbAssumption DEF Calls, NoCall

LEMMA NatInitially == Init => NatInv
  <1> SUFFICES ASSUME Init PROVE NatInv
    OBVIOUS
  <1>1. call = NoCall /\ tokens = 0 /\ arrays = 0 /\ ~faulted
    BY DEF Init, NativeInit
  <1>2. \A t \in Threads : regs[t] = "own" /\ slot[t] = "own"
    BY DEF Init, NativeInit
  <1>3. NatType
    BY <1>1 DEF Init, NativeInit, NatType
  <1>4. Lent
    BY <1>1, <1>2 DEF Lent
  <1>5. Owes
    BY <1>1 DEF Owes, Under
  <1> QED BY <1>3, <1>4, <1>5 DEF NatInv

\* A thread of which nothing is borrowed is borrowed for a call.
LEMMA LendStep ==
    ASSUME NatInv, call = NoCall, ~done, NEW t \in Threads, NEW p \in Phases,
           call' = [NoCall EXCEPT !.tp = t, !.phase = p],
           regs' = [regs EXCEPT ![t] = "borrowed"],
           slot' = slot \/ slot' = [slot EXCEPT ![t] = "borrowed"],
           UNCHANGED <<tokens, arrays, faulted>>
    PROVE  /\ NatType' /\ Lent' /\ call' # NoCall /\ tokens' = 0 /\ arrays' = 0 /\ ~faulted'
           /\ call'.phase = p /\ call'.index = 1 /\ ~call'.token /\ ~call'.published
  <1>1. /\ call' \in Calls /\ call' # NoCall /\ call'.tp = t /\ call'.phase = p
        /\ call'.index = 1 /\ call'.token = FALSE /\ call'.published = FALSE
    <2>1. /\ call' \in Calls /\ call'.tp = t /\ call'.phase = p /\ call'.index = 1
          /\ call'.token = FALSE /\ call'.published = FALSE
      BY DEF Calls, NoCall
    <2> QED BY <2>1, CallHasThread
  <1>2. tokens' = 0 /\ arrays' = 0 /\ ~faulted'
    BY DEF NatInv, Owes
  <1>3. NatType'
    BY <1>1, <1>2 DEF NatInv, NatType
  <1>4. \A u \in Threads : regs[u] = "own" /\ slot[u] = "own"
    BY CallHasThread, LldbAssumption DEF NatInv, NatType, Lent
  <1>5. \A u \in Threads : regs'[u] = "borrowed" \/ slot'[u] = "borrowed" => u = t
    BY <1>4 DEF NatInv, NatType
  <1>6. regs'[t] = "borrowed"
    BY DEF NatInv, NatType
  <1>7. Lent'
    BY <1>1, <1>5, <1>6 DEF Lent
  <1> QED BY <1>1, <1>2, <1>3, <1>7

LEMMA BorrowStep ==
    ASSUME NatInv, UNCHANGED tool, NEW t \in Threads, NEW main \in BOOLEAN,
           NEW name, Borrow(t, name, main)
    PROVE  NatInv'
  <1>1. FirstPhase \in Phases
    BY DEF FirstPhase, Phases
  <1>2. /\ NatType' /\ Lent' /\ call' # NoCall /\ tokens' = 0 /\ arrays' = 0 /\ ~faulted'
        /\ call'.phase = FirstPhase /\ ~call'.token /\ ~call'.published
    BY <1>1, LendStep DEF Borrow
  <1>3. tool' = tool /\ tool \in {"notify", "iops", "percent"}
    BY DEF Borrow, NativeTools, PlanTools
  <1>4. tool' = "iops" => IopsOwes'
    BY <1>2, <1>3 DEF IopsOwes, FirstPhase
  <1>5. tool' = "percent" => PercentOwes'
    BY <1>2, <1>3 DEF PercentOwes, FirstPhase
  <1> QED BY <1>2, <1>3, <1>4, <1>5 DEF NatInv, Owes, Under, PlanTools

LEMMA BeginStep ==
    ASSUME NatInv, UNCHANGED tool, NEW t \in Threads, NEW main \in BOOLEAN,
           NEW name, BeginPlan(t, name, main)
    PROVE  NatInv'
  <1>1. PICK p \in PlanPhases : call' = [NoCall EXCEPT !.tp = t, !.phase = p]
    BY DEF BeginPlan, TouchBegins, PlanPhases
  <1>2. /\ NatType' /\ Lent' /\ call' # NoCall /\ tokens' = 0 /\ arrays' = 0 /\ ~faulted'
        /\ call'.phase = p /\ call'.index = 1
    BY <1>1, LendStep DEF BeginPlan, Phases
  <1>3. Owed(p)[1] = 0 /\ 1 \in 1..Len(Plan(p))
    <2>1. 1 \in 1..Len(Plan(p))
      BY DEF Plan, PlanPhases, GesturePlan, SpawnPlan
    <2> QED BY <2>1, PlanSums
  <1>4. PlanOwes' /\ tool' \in PlanTools
    BY <1>2, <1>3 DEF PlanOwes, BeginPlan
  <1> QED BY <1>2, <1>4 DEF NatInv, Owes, Under, PlanTools

\* Restore leaves nothing borrowed, if the guest owes nothing by then.
LEMMA RestoredStep ==
    ASSUME NatInv, Under, Restored, tokens' \in Int, arrays' \in Int,
           ~faulted' => tokens' = 0 /\ arrays' = 0, faulted' => done'
    PROVE  NatInv'
  <1>1. call.tp \in Threads
    BY CallHasThread DEF NatInv, NatType, Under
  <1>2. call' = NoCall
    BY DEF Restored
  <1>3. NatType'
    BY <1>1, <1>2 DEF Restored, NatInv, NatType
  <1>4. \A u \in Threads : regs'[u] = "own" /\ slot'[u] = "own"
    BY <1>1 DEF Restored, NatInv, NatType, Lent
  <1>5. Lent'
    BY <1>2, <1>4 DEF Lent
  <1>6. Owes'
    BY <1>2 DEF Owes, Under
  <1> QED BY <1>3, <1>5, <1>6 DEF NatInv

\* A callback that raises keeps the call, and its thread borrowed.
LEMMA RaisesStep ==
    ASSUME NatInv, Under, Raises, tokens' \in Int, arrays' \in Int
    PROVE  NatInv'
  <1>1. call \in Calls /\ call.tp \in Threads
    BY CallHasThread DEF NatInv, NatType, Under
  <1>2. call' \in Calls /\ call'.tp = call.tp /\ call'.phase = "raised" /\ call' # NoCall
    <2>1. call' \in Calls /\ call'.tp = call.tp /\ call'.phase = "raised"
      BY <1>1 DEF Raises, Calls, Phases
    <2> QED BY <2>1, CallHasThread
  <1>3. NatType'
    BY <1>1, <1>2 DEF Raises, NatInv, NatType
  <1>4. /\ regs' = regs /\ \A u \in Threads : slot'[u] = "borrowed" => slot[u] = "borrowed"
    BY <1>1 DEF Raises, NatInv, NatType
  <1>5. Lent'
    BY <1>2, <1>4 DEF NatInv, Lent, Under
  <1>6. Owes'
    BY <1>2 DEF Owes, Under
  <1> QED BY <1>3, <1>5, <1>6 DEF NatInv

LEMMA RestoreStep ==
    ASSUME NatInv, Under, Restored \/ Raises, tokens' \in Int, arrays' \in Int,
           ~faulted' => tokens' = 0 /\ arrays' = 0,
           faulted' => tool # "touch"
    PROVE  NatInv'
  <1>1. CASE Raises
    BY <1>1, RaisesStep
  <1>2. CASE Restored
    BY <1>2, RestoredStep DEF Restored
  <1> QED BY <1>1, <1>2

\* A step inside a call keeps its thread and what is borrowed.
LEMMA InsideStep ==
    ASSUME NatInv, Under, UNCHANGED <<regs, slot>>, call' \in Calls, call'.tp = call.tp,
           call'.phase # "raised", tokens' \in Int, arrays' \in Int, ~faulted'
    PROVE  NatType' /\ Lent' /\ call' # NoCall /\ ~faulted'
  <1>1. call' # NoCall
    BY CallHasThread
  <1>2. NatType'
    BY DEF NatInv, NatType
  <1>3. Lent'
    BY <1>1 DEF NatInv, Lent, Under
  <1> QED BY <1>1, <1>2, <1>3 DEF NatInv, Owes

LEMMA NotifyStep ==
    ASSUME NatInv, Under, NotifyReturns PROVE NatInv'
  <1>1. tokens' = 0 /\ arrays' = 0 /\ ~faulted'
    BY DEF NotifyReturns, NatInv, NatType, Owes
  <1>2. Restored \/ Raises
    BY DEF NotifyReturns, Restore
  <1> QED BY <1>1, <1>2, RestoreStep

LEMMA IopsStep ==
    ASSUME NatInv, UNCHANGED tool, Under, NEW ok \in BOOLEAN, NEW read \in BOOLEAN,
           IopsReturns(ok, read, TRUE)
    PROVE  NatInv'
  <1>1. IopsOwes /\ tool = "iops" /\ arrays \in Int /\ ~faulted /\ tokens' = 0
    BY DEF IopsReturns, NatInv, NatType, Owes, IopsOwes
  <1>2. CASE call.phase = "copy" /\ ~(ok /\ read)
    <2>1. /\ Restored \/ Raises
          /\ (faulted' <=> ok)
          /\ arrays' = IF ok THEN arrays + 1 ELSE arrays
      BY <1>1, <1>2 DEF IopsReturns, Restore
    <2>2. arrays = 0
      BY <1>1, <1>2 DEF IopsOwes
    <2> QED BY <1>1, <2>1, <2>2, RestoreStep
  <1>3. CASE call.phase = "release"
    <2>1. (Restored \/ Raises) /\ ~faulted' /\ arrays' = arrays - 1 /\ arrays = 1
      BY <1>1, <1>3 DEF IopsReturns, IopsOwes, Restore
    <2> QED BY <1>1, <2>1, RestoreStep
  <1>4. ASSUME NEW p \in {"count", "release"}, Invoke(p), arrays' = 1, ~faulted'
        PROVE  NatInv'
    <2>1. call \in Calls /\ p \in Phases
      BY DEF NatInv, NatType, Phases, Under
    <2>2. call' \in Calls /\ call'.tp = call.tp /\ call'.phase = p
      BY <1>4, <2>1 DEF Invoke, Calls
    <2>3. UNCHANGED <<regs, slot>>
      BY <1>4 DEF Invoke
    <2>4. NatType' /\ Lent' /\ call' # NoCall /\ ~faulted'
      BY <1>1, <1>4, <2>2, <2>3, InsideStep
    <2>5. IopsOwes'
      BY <1>1, <1>4, <2>2 DEF IopsOwes
    <2> QED BY <1>1, <2>4, <2>5 DEF NatInv, Owes, Under, PlanTools
  <1>5. CASE call.phase = "copy" /\ ok /\ read
    <2>1. Invoke("count") /\ arrays' = arrays + 1 /\ UNCHANGED faulted
      BY <1>5 DEF IopsReturns
    <2>2. arrays = 0
      BY <1>1, <1>5 DEF IopsOwes
    <2>3. arrays' = 1
      BY <2>1, <2>2
    <2>4. ~faulted'
      BY <1>1, <2>1
    <2> QED BY <1>4, <2>1, <2>3, <2>4
  <1>6. CASE call.phase = "count"
    <2>1. Invoke("release") /\ UNCHANGED <<arrays, faulted>>
      BY <1>6 DEF IopsReturns
    <2>2. arrays' = 1
      BY <1>1, <1>6, <2>1 DEF IopsOwes
    <2>3. ~faulted'
      BY <1>1, <2>1
    <2> QED BY <1>4, <2>1, <2>2, <2>3
  <1> QED BY <1>1, <1>2, <1>3, <1>5, <1>6 DEF IopsOwes

LEMMA PlanStep ==
    ASSUME NatInv, UNCHANGED tool, Under, NEW ok \in BOOLEAN, PlanReturns(ok, TRUE)
    PROVE  NatInv'
  <1> DEFINE p == call.phase
             i == call.index
  <1>1. /\ PlanOwes /\ tool \in PlanTools /\ arrays \in Int /\ tokens' = 0 /\ call \in Calls
        /\ ~faulted' /\ ~faulted
    BY DEF PlanReturns, NatInv, NatType, Owes, PlanOwes, Under
  <1>2. /\ p \in PlanPhases /\ i \in 1..Len(Plan(p)) /\ arrays' = Owed(p)[i] + Plan(p)[i]
    BY <1>1 DEF PlanReturns, PlanOwes
  <1>3. CASE i < Len(Plan(p))
    <2>1. /\ call' \in Calls /\ call'.tp = call.tp /\ call'.phase = p /\ call'.index = i + 1
          /\ UNCHANGED <<regs, slot>>
      BY <1>1, <1>3 DEF PlanReturns, Calls
    <2>2. /\ arrays' = Owed(p)[i + 1] /\ arrays' \in Int /\ i + 1 \in 1..Len(Plan(p))
      BY <1>1, <1>2, <1>3, PlanSums
    <2>3. NatType' /\ Lent' /\ call' # NoCall /\ ~faulted'
      BY <1>1, <2>1, <2>2, InsideStep DEF Under
    <2>4. PlanOwes'
      BY <1>1, <1>2, <2>1, <2>2 DEF PlanOwes
    <2> QED BY <1>1, <2>3, <2>4 DEF NatInv, Owes, Under, PlanTools
  <1>4. CASE ~(i < Len(Plan(p)))
    <2>1. i = Len(Plan(p))
      BY <1>2, <1>4, PlanSums
    <2>2. arrays' = 0
      BY <1>2, <2>1, PlanSums
    <2>3. Restored \/ Raises
      BY <1>4 DEF PlanReturns, Restore
    <2> QED BY <1>1, <2>2, <2>3, RestoreStep
  <1> QED BY <1>3, <1>4

LEMMA PercentStep ==
    ASSUME NatInv, UNCHANGED tool, Under, NEW ok \in BOOLEAN, NEW read \in BOOLEAN,
           PercentReturns(ok, read, TRUE)
    PROVE  NatInv'
  <1>1. /\ PercentOwes /\ tool = "percent" /\ tokens \in Int /\ call \in Calls /\ arrays' = 0
        /\ ~faulted
    BY DEF PercentReturns, NatInv, NatType, Owes, PercentOwes, Under
  <1>2. call.token \in BOOLEAN /\ call.published \in BOOLEAN
    BY <1>1 DEF Calls
  <1>0. /\ tokens' = tokens + Granted(ok) /\ Granted(ok) \in Int
        /\ (faulted' <=> (call.phase = "cancel" /\ ~ok))
        /\ call.phase \notin {"register", "cancel"} => Granted(ok) = 0
        /\ call.phase = "register" => Granted(ok) = IF ok THEN 1 ELSE 0
        /\ call.phase = "cancel" => Granted(ok) = IF ok THEN -1 ELSE 0
    <2>1. /\ Granted(ok) \in Int
          /\ call.phase \notin {"register", "cancel"} => Granted(ok) = 0
          /\ call.phase = "register" => Granted(ok) = IF ok THEN 1 ELSE 0
          /\ call.phase = "cancel" => Granted(ok) = IF ok THEN -1 ELSE 0
      BY DEF Granted
    <2>2. tokens' = tokens + Granted(ok)
      BY DEF PercentReturns
    <2>3. faulted' <=> (call.phase = "cancel" /\ ~ok)
      BY <1>1 DEF PercentReturns
    <2> QED BY <2>1, <2>2, <2>3
  <1>3. CASE Raises
    BY <1>0, <1>1, <1>3, RaisesStep
  <1>4. CASE (Restored \/ Raises) /\ ((call.phase = "register" /\ ~ok) \/ call.phase = "cancel")
    <2>1. ~faulted' => tokens' = 0
      BY <1>0, <1>1, <1>2, <1>4 DEF PercentOwes
    <2> QED BY <1>0, <1>1, <1>4, <2>1, RestoreStep
  \* Inside the call.
  <1>5. ASSUME /\ call' \in Calls /\ call'.tp = call.tp /\ UNCHANGED <<regs, slot>>
               /\ call'.phase # "raised" /\ ~faulted' /\ tokens' \in Int /\ PercentOwes'
        PROVE  NatInv'
    <2>1. NatType' /\ Lent' /\ call' # NoCall
      BY <1>1, <1>5, InsideStep
    <2> QED BY <1>1, <1>5, <2>1 DEF NatInv, Owes, Under, PlanTools
  <1>6. ASSUME NEW p \in Phases, Invoke(p)
        PROVE  /\ call' \in Calls /\ call'.tp = call.tp /\ UNCHANGED <<regs, slot>>
               /\ call'.phase = p /\ call'.token = call.token /\ call'.published = call.published
    BY <1>1, <1>6 DEF Invoke, Calls
  <1>7. CASE call.phase = "percent" /\ Invoke(IF call.published THEN "cancel" ELSE "register")
    <2>1. (IF call.published THEN "cancel" ELSE "register") \in Phases
      BY DEF Phases
    <2> QED BY <1>0, <1>1, <1>2, <1>5, <1>6, <1>7, <2>1 DEF PercentOwes
  <1>8. CASE /\ call.phase = "register" /\ ok
             /\ call' = [call EXCEPT !.phase = "state", !.token = TRUE] /\ UNCHANGED <<regs, slot>>
    <2>1. /\ call' \in Calls /\ call'.tp = call.tp /\ call'.phase = "state"
          /\ call'.token = TRUE /\ call'.published = call.published
      BY <1>1, <1>8 DEF Calls, Phases
    <2>2. ~call.token /\ ~call.published /\ tokens = 0
      BY <1>1, <1>8 DEF PercentOwes
    <2>5. Granted(ok) = 1
      BY <1>8 DEF Granted
    <2>6. ~faulted'
      <3>1. call.phase # "cancel"
        BY <1>8
      <3> QED BY <1>0, <3>1
    <2>7. tokens' = tokens + Granted(ok)
      BY <1>0
    <2>8. tokens = 0
      BY <2>2
    <2>9. tokens' = 1
      BY <2>5, <2>7, <2>8
    <2>3. tokens' = 1 /\ ~faulted'
      BY <2>6, <2>9
    <2>4. PercentOwes'
      BY <1>1, <2>1, <2>3 DEF PercentOwes
    <2> QED BY <1>5, <1>8, <2>1, <2>3, <2>4
  <1>9. ASSUME call.phase \in {"state", "set"}, NEW p \in {"set", "post", "cancel"}, Invoke(p)
        PROVE  NatInv'
    <2>1. p \in Phases
      BY DEF Phases
    <2>2. tokens' = tokens /\ ~faulted'
      BY <1>0, <1>1, <1>9
    <2>3. /\ call' \in Calls /\ call'.tp = call.tp /\ UNCHANGED <<regs, slot>>
          /\ call'.phase = p /\ call'.token = call.token /\ call'.published = call.published
      BY <1>6, <1>9, <2>1
    <2>4. call.token /\ tokens = 1
      BY <1>1, <1>9 DEF PercentOwes
    <2>5. PercentOwes'
      BY <1>1, <1>9, <2>2, <2>3, <2>4 DEF PercentOwes
    <2> QED BY <1>1, <1>5, <1>9, <2>2, <2>3, <2>5
  <1>10. CASE /\ call.phase = "post"
              /\ call' = [call EXCEPT !.phase = "percent", !.published = TRUE]
              /\ UNCHANGED <<regs, slot>>
    <2>1. /\ call' \in Calls /\ call'.tp = call.tp /\ call'.phase = "percent"
          /\ call'.token = call.token /\ call'.published = TRUE
      BY <1>1, <1>10 DEF Calls, Phases
    <2> QED BY <1>0, <1>1, <1>2, <1>5, <1>10, <2>1 DEF PercentOwes
  <1>11. AfterState(ok) \in {"set", "cancel"} /\ AfterSet(ok) \in {"post", "cancel"}
    BY DEF AfterState, AfterSet
  <1> QED BY <1>3, <1>4, <1>7, <1>8, <1>9, <1>10, <1>11 DEF PercentReturns, Restore

\* The only thread that is taken for the call's is the one with its stack
\* pointer, so what has returned is the native function itself.
LEMMA BoundaryStep ==
    ASSUME NatInv, UNCHANGED tool, NEW t \in Threads, NEW atSp \in BOOLEAN, AtBoundary(t, atSp)
    PROVE  NatInv'
  <1>1. CASE Mine(t, atSp)
    <2>1. atSp = TRUE /\ Under
      BY <1>1 DEF Mine, AtBoundary, Under
    <2>2. PICK ok \in BOOLEAN, read \in BOOLEAN :
             \/ NotifyReturns \/ IopsReturns(ok, read, TRUE)
             \/ PercentReturns(ok, read, TRUE) \/ PlanReturns(ok, TRUE)
      BY <1>1, <2>1 DEF AtBoundary
    <2> QED BY <2>1, <2>2, NotifyStep, IopsStep, PercentStep, PlanStep
  <1>2. CASE ~Mine(t, atSp)
    BY <1>2 DEF AtBoundary, NatInv, NatType, Lent, Owes, Under, IopsOwes, PercentOwes, PlanOwes
  <1> QED BY <1>1, <1>2

LEMMA NatStep == NatInv /\ [Next]_vars => NatInv'
  <1> SUFFICES ASSUME NatInv, [Next]_vars PROVE NatInv'
    OBVIOUS
  <1>1. CASE UNCHANGED <<tool, natVars>>
    BY <1>1 DEF NatInv, natVars, NatType, Lent, Owes, Under, IopsOwes, PercentOwes, PlanOwes
  <1>2. CASE NativeNext /\ UNCHANGED tool
    BY <1>1, <1>2, BorrowStep, BeginStep, BoundaryStep DEF NativeNext, BorrowRefused
  <1> QED BY <1>1, <1>2 DEF Next, vars

LEMMA NatConclusion == NatInv => BorrowedReturned
  BY DEF NatInv, Lent, Owes, BorrowedReturned

\* "restores every touched register before execution resumes": for any threads
\* and any number of calls, registers and stack bytes are borrowed only from the
\* thread of the call under way, and without one the guest owes nothing, save
\* what notify_cancel refused or an unreadable slot hid from the script.
THEOREM BorrowedIsReturned == Spec => []BorrowedReturned
  BY NatInitially, NatStep, NatConclusion, PTL DEF Spec

-----------------------------------------------------------------------------
(* iomfb_calltrace. *)

\* Outside the loop nothing of the session is left to act; during it a stopped
\* guest has its resume under way, and GetState knows that it is stopped.
Resumes ==
    \/ resuming \/ phase = "checked" \/ view \in {"invalid", "crashed"}
    \/ view = "stopped" /\ \E i \in DOMAIN queue : queue[i] = "stopped"

ListenerEvents == {"stopped", "crashed", "running", "exited"}

IomfbInv ==
    /\ phase \in {"start", "loop", "checked", "done"}
    /\ queue \in Seq(ListenerEvents)
    /\ phase \in {"start", "done"} => ~owners /\ ~resuming /\ view # "invalid"
    /\ phase \in {"loop", "checked"} /\ guest = "stopped" => Resumes
    /\ phase \in {"loop", "checked"} /\ guest = "stopped" => view \in {"stopped", "crashed", "invalid"}
    /\ view = "invalid" => guest = "stopped"
    /\ phase = "start" => view # "detached"
    /\ phase = "done" /\ view = "detached" => guest # "stopped"

\* A posted stop is in the queue, and posting or taking another event keeps it.
LEMMA Posted ==
    ASSUME NEW q \in Seq(ListenerEvents),
           NEW e \in ListenerEvents
    PROVE  /\ Append(q, e) \in Seq(ListenerEvents)
           /\ e = "stopped" => \E i \in DOMAIN Append(q, e) : Append(q, e)[i] = "stopped"
           /\ (\E i \in DOMAIN q : q[i] = "stopped")
                => \E i \in DOMAIN Append(q, e) : Append(q, e)[i] = "stopped"
  <1>1. DOMAIN Append(q, e) = 1..(Len(q) + 1) /\ DOMAIN q = 1..Len(q) /\ Len(q) \in Nat
    OBVIOUS
  <1>2. Append(q, e)[Len(q) + 1] = e /\ \A i \in 1..Len(q) : Append(q, e)[i] = q[i]
    OBVIOUS
  <1> QED BY <1>1, <1>2

LEMMA Taken ==
    ASSUME NEW q \in Seq(ListenerEvents), q # <<>>
    PROVE  /\ Tail(q) \in Seq(ListenerEvents)
           /\ (\E i \in DOMAIN q : q[i] = "stopped") /\ Head(q) # "stopped"
                => \E i \in DOMAIN Tail(q) : Tail(q)[i] = "stopped"
  <1>1. /\ Len(q) \in Nat \ {0} /\ DOMAIN q = 1..Len(q) /\ DOMAIN Tail(q) = 1..(Len(q) - 1)
        /\ Head(q) = q[1] /\ \A i \in 1..(Len(q) - 1) : Tail(q)[i] = q[i + 1]
    OBVIOUS
  <1>2. ASSUME NEW i \in 1..Len(q), q[i] = "stopped", q[1] # "stopped"
        PROVE  i - 1 \in 1..(Len(q) - 1) /\ Tail(q)[i - 1] = "stopped"
    BY <1>1, <1>2
  <1>3. Tail(q) \in Seq(ListenerEvents)
    OBVIOUS
  <1> QED BY <1>1, <1>2, <1>3

LEMMA IomfbInitially == Init => IomfbInv
  BY DEF Init, IomfbInit, IomfbInv

LEMMA FinishStep ==
    ASSUME IomfbInv, NEW r, Finish(r) PROVE IomfbInv'
  BY DEF Finish, IomfbInv

LEMMA IomfbStep == IomfbInv /\ [Next]_vars => IomfbInv'
  <1> SUFFICES ASSUME IomfbInv, [Next]_vars PROVE IomfbInv'
    OBVIOUS
  <1>1. CASE UNCHANGED iomfbVars
    BY <1>1 DEF IomfbInv, Resumes, iomfbVars
  <1>2. CASE IomfbNext
    <2>1. CASE Attach
      <3>1. <<>> \in Seq(ListenerEvents)
            /\ \A e \in {"stopped", "crashed"} : <<e>> \in Seq(ListenerEvents)
        BY DEF ListenerEvents
      <3>2. CASE ~ValidMap(amap)
        BY <2>1, <3>2 DEF Attach, IomfbInv, Resumes
      <3>3. CASE ValidMap(amap)
        <4>1. /\ queue' \in Seq(ListenerEvents)
              /\ guest' = "stopped" /\ resuming' = resuming
              /\ \/ view' = "stopped" /\ phase' = "checked"
                 \/ view' \in {"invalid", "crashed"} /\ phase' = "loop"
          BY <2>1, <3>1, <3>3 DEF Attach
        <4> QED BY <4>1 DEF IomfbInv, Resumes
      <3> QED BY <3>2, <3>3
    <2>2. CASE Settle
      BY <2>2, Posted DEF ListenerEvents, Settle, Post, IomfbInv, Resumes
    <2>3. CASE TakeEvent
      <3>1. CASE Finish(Control)
        BY <3>1, FinishStep
      <3>2. CASE /\ queue' = Tail(queue)
                 /\ phase' = IF ContinueOn(Head(queue)) THEN "checked" ELSE "loop"
                 /\ UNCHANGED <<result, guest, view, resuming, owners>>
        BY <2>3, <3>2, Taken DEF TakeEvent, ContinueOn, IomfbInv, Resumes
      <3> QED BY <2>3, <3>1, <3>2 DEF TakeEvent
    <2>4. CASE AutoResume
      BY <2>4, Posted DEF ListenerEvents, AutoResume, Post, IomfbInv, Resumes
    <2>5. CASE OtherChange
      BY <2>5, Posted DEF ListenerEvents, OtherChange, Post, IomfbInv, Resumes
    <2>6. ASSUME NEW ok \in BOOLEAN, RequestContinue(ok) PROVE IomfbInv'
      <3>1. CASE Finish("error")
        BY <3>1, FinishStep
      <3>2. CASE ~Finish("error")
        BY <2>6, <3>2, Posted DEF ListenerEvents, RequestContinue, Post, IomfbInv, Resumes
      <3> QED BY <3>1, <3>2
    <2>7. ASSUME NEW interrupted \in BOOLEAN, Deadline(interrupted) PROVE IomfbInv'
      BY <2>7, FinishStep DEF Deadline
    <2>8. ASSUME NEW s \in Sites, Hit(s) PROVE IomfbInv'
      BY <2>8, Posted DEF ListenerEvents, Hit, Post, IomfbInv, Resumes
    <2> QED BY <1>2, <2>1, <2>2, <2>3, <2>4, <2>5, <2>6, <2>7, <2>8 DEF IomfbNext
  <1> QED BY <1>1, <1>2 DEF Next, vars

LEMMA IomfbConclusion == IomfbInv => NeverLeftStopped
  BY DEF IomfbInv, Resumes, NeverLeftStopped

\* "without leaving the VM paused": for any cap and any length of the event
\* queue, a stopped guest that is not taken for crashed always has its resume
\* under way, and after a Detach that succeeds it is not stopped.
THEOREM NeverIsLeftStopped == Spec => []NeverLeftStopped
  BY IomfbInitially, IomfbStep, IomfbConclusion, PTL DEF Spec

-----------------------------------------------------------------------------
(* The two scripts for the state machine of AppleFirmwareKit. *)

\* A number that is not in use is found among the first numbers.
LEMMA UnusedNumber ==
    ASSUME NEW S, IsFiniteSet(S)
    PROVE  \E n \in 1..Cardinality(S) + 1 : n \notin S
  <1>1. Cardinality(S) \in Nat
    BY FS_CardinalityType
  <1>2. ASSUME 1..Cardinality(S) + 1 \subseteq S PROVE FALSE
    <2>1. Cardinality(1..Cardinality(S) + 1) = Cardinality(S) + 1
      BY <1>1, FS_Interval
    <2>2. Cardinality(1..Cardinality(S) + 1) <= Cardinality(S)
      BY <1>2, FS_Subset
    <2> QED BY <1>1, <2>1, <2>2
  <1> QED BY <1>2

(* The bound on hops and breakpoints. *)

TraceType == [origin : KThreads \cup {NoThread}, client : Clients \cup {NoClient},
              requested : BOOLEAN, armed : BOOLEAN, stopped : BOOLEAN,
              returned : BOOLEAN, lock : BOOLEAN]

BoundType ==
    /\ hops \in Nat /\ breakpoints \in Nat /\ trace \in TraceType
    /\ entering \in [KThreads -> {"T1", "T2", Nowhere}]

\* The last hop stops the trace for good, and a stopped trace follows no call.
BoundInv ==
    /\ BoundType
    /\ hops <= MaxHops /\ (hops = MaxHops => trace.stopped)
    /\ breakpoints < MaxBreakpoints + 3

LEMMA SiteCounts ==
    /\ \A f \in {"T1", "T2"} : Cardinality(SitesOf[f]) = 2
    /\ Cardinality(SitesOf["R"]) = 3
    /\ DOMAIN SitesOf = {"T1", "T2", "R"}
  <1>1. \A x, y : x # y => Cardinality({x, y}) = 2 /\ IsFiniteSet({x, y})
    <2> SUFFICES ASSUME NEW x, NEW y, x # y PROVE Cardinality({x, y}) = 2 /\ IsFiniteSet({x, y})
      OBVIOUS
    <2>1. {x, y} = {x} \cup {y} /\ y \notin {x}
      OBVIOUS
    <2>2. IsFiniteSet({x}) /\ Cardinality({x}) = 1
      BY FS_Singleton
    <2> QED BY <2>1, <2>2, FS_AddElement
  <1>2. Cardinality({"c4", "c5", "c6"}) = 3
    <2>1. {"c4", "c5", "c6"} = {"c4", "c5"} \cup {"c6"} /\ "c6" \notin {"c4", "c5"}
      OBVIOUS
    <2>2. IsFiniteSet({"c4", "c5"}) /\ Cardinality({"c4", "c5"}) = 2
      BY <1>1
    <2> QED BY <2>1, <2>2, FS_AddElement
  <1>3. Cardinality({"c1", "j1"}) = 2 /\ Cardinality({"c2", "c3"}) = 2
    BY <1>1
  <1> QED BY <1>2, <1>3 DEF SitesOf

\* An entry or return witness is counted when it is new.
LEMMA NewWitness == \A x, S : Cardinality({x} \ S) \in {0, 1}
  <1> SUFFICES ASSUME NEW x, NEW S PROVE Cardinality({x} \ S) \in {0, 1}
    OBVIOUS
  <1>1. {x} \ S = {} \/ {x} \ S = {x}
    OBVIOUS
  <1> QED BY <1>1, FS_EmptySet, FS_Singleton

\* _queue_target and _scan_target, behind _budget_check.
LEMMA QueueBound ==
    ASSUME breakpoints \in Nat, breakpoints < MaxBreakpoints,
           NEW t, NEW x, NEW s, NEW id, Queue(t, x, s, id)
    PROVE  breakpoints' \in Nat /\ breakpoints' < MaxBreakpoints + 3
  <1>1. \E a, b \in {0, 1} : breakpoints' = breakpoints + a + b
    BY NewWitness DEF Queue
  <1> QED BY <1>1, DcpAssumption

LEMMA ScanBound ==
    ASSUME breakpoints \in Nat, breakpoints < MaxBreakpoints,
           NEW f \in DOMAIN SitesOf, Scan(f)
    PROVE  breakpoints' \in Nat /\ breakpoints' < MaxBreakpoints + 3
  <1>1. \E a \in {0, 2, 3} : breakpoints' = breakpoints + a
    BY SiteCounts DEF Scan
  <1> QED BY <1>1, DcpAssumption

LEMMA BoundStep ==
    ASSUME BoundInv, DynamicNext PROVE BoundInv'
  <1> USE DEF BoundInv, BoundType, TraceType
  <1>0. PICK t \in KThreads, here \in BOOLEAN, late \in BOOLEAN :
          \/ entering[t] # Nowhere /\ KEnter(t, here, late)
          \/ /\ entering[t] = Nowhere
             /\ \/ \E c \in Clients : OnStage2Pre(t, c, here, late)
                \/ kstack[t] # <<>> /\ \E s \in DOMAIN GoesTo, null \in BOOLEAN :
                                          OnIndirectCall(t, s, here, late, null)
                \/ KReturn(t, here, late, FALSE) \/ KReturn(t, here, late, TRUE)
                \/ OnWaitPrimitive(t, here, late, TRUE)
                \/ \E c \in Clients : OnAfkState(t, c, here) \/ OnAfkRequest(t, c)
                \/ OnTransition(t, here)
    BY DEF DynamicNext
  <1>1. CASE entering[t] # Nowhere /\ KEnter(t, here, late)
    <2> DEFINE x == entering[t]
               tr == IF x = "T2" THEN [trace EXCEPT !.lock = TRUE] ELSE trace
    <2>1. x \in DOMAIN SitesOf /\ entering' \in [KThreads -> {"T1", "T2", Nowhere}]
      BY <1>1, SiteCounts DEF KEnter
    <2>2. CASE UNCHANGED <<trace, hops, plantVars, paused>>
      BY <2>1, <2>2 DEF plantVars
    <2>3. CASE /\ Followed(t) /\ hops' = hops + 1
               /\ IF Exhausted(hops + 1, late)
                  THEN Stop(tr) /\ UNCHANGED <<breakpoints, scanned>>
                  ELSE Scan(x) /\ trace' = tr /\ UNCHANGED paused
      <3>1. hops < MaxHops
        BY <2>3, DcpAssumption DEF Followed
      <3>0. tr \in TraceType /\ tr.stopped = trace.stopped
        OBVIOUS
      <3>2. CASE Exhausted(hops + 1, late)
        <4>1. trace' \in TraceType /\ trace'.stopped = TRUE /\ breakpoints' = breakpoints
          BY <2>3, <3>0, <3>2 DEF Stop
        <4> HIDE DEF TraceType, tr
        <4> QED BY <2>1, <2>3, <3>1, <4>1, DcpAssumption
      <3>3. CASE ~Exhausted(hops + 1, late)
        <4>1. breakpoints < MaxBreakpoints /\ hops + 1 < MaxHops
          BY <3>3, DcpAssumption DEF Exhausted
        <4>2. breakpoints' \in Nat /\ breakpoints' < MaxBreakpoints + 3
          BY <2>1, <2>3, <3>3, <4>1, ScanBound
        <4>3. trace' = tr /\ hops' = hops + 1
          BY <2>3, <3>3
        <4> HIDE DEF TraceType, tr
        <4>4. trace' \in TraceType
          BY <4>3, <3>0
        <4>5. hops' \in Nat /\ hops' < MaxHops
          BY <4>1, <4>3
        <4> QED BY <2>1, <4>2, <4>4, <4>5, DcpAssumption
      <3> QED BY <3>2, <3>3
    <2> QED BY <1>1, <2>2, <2>3 DEF KEnter, OnTargetEntry2, Matches
  <1>2. ASSUME NEW c \in Clients, OnStage2Pre(t, c, here, late) PROVE BoundInv'
    <2> DEFINE rebase == ~Matches(t, here) \/ trace.returned
               tr == IF rebase THEN [Rebased(trace, t, c) EXCEPT !.armed = TRUE, !.requested = TRUE]
                     ELSE trace
    <2>1. tr \in TraceType /\ tr.stopped = trace.stopped
      BY DEF Rebased
    <2>2. entering' \in [KThreads -> {"T1", "T2", Nowhere}] /\ hops' = hops
      BY <1>2 DEF OnStage2Pre
    <2>3. CASE Stop(tr) /\ UNCHANGED plantVars
      BY <2>1, <2>2, <2>3 DEF Stop, plantVars
    <2>4. CASE ~Exhausted(hops, late) /\ trace' = tr /\ Queue(t, "T1", Nowhere, 0)
      <3>1. breakpoints < MaxBreakpoints
        BY <2>4, DcpAssumption DEF Exhausted
      <3>2. breakpoints' \in Nat /\ breakpoints' < MaxBreakpoints + 3
        BY <2>4, <3>1, QueueBound
      <3> HIDE DEF tr
      <3> QED BY <2>1, <2>2, <2>4, <3>2
    <2> QED BY <1>2, <2>3, <2>4 DEF OnStage2Pre
  <1>3. ASSUME NEW s \in DOMAIN GoesTo, NEW null \in BOOLEAN, OnIndirectCall(t, s, here, late, null)
        PROVE  BoundInv'
    <2>1. entering' \in [KThreads -> {"T1", "T2", Nowhere}] /\ hops' = hops
      BY <1>3 DEF OnIndirectCall, GoesTo
    <2>2. CASE UNCHANGED <<trace, plantVars>>
      BY <2>1, <2>2 DEF plantVars
    <2>3. CASE Stop(trace) /\ UNCHANGED plantVars
      BY <2>1, <2>3 DEF plantVars, Stop
    <2>4. ASSUME ~Exhausted(hops, late), UNCHANGED trace, NEW id, Queue(t, GoesTo[s], s, id)
          PROVE  BoundInv'
      <3>1. breakpoints < MaxBreakpoints
        BY <2>4, DcpAssumption DEF Exhausted
      <3>2. breakpoints' \in Nat /\ breakpoints' < MaxBreakpoints + 3
        BY <2>4, <3>1, QueueBound
      <3> QED BY <2>1, <2>4, <3>2
    <2> QED BY <1>3, <2>2, <2>3, <2>4 DEF OnIndirectCall
  <1>4. ASSUME NEW stop \in BOOLEAN, KReturn(t, here, late, stop) PROVE BoundInv'
    <2>1. UNCHANGED <<hops, entering>>
      BY <1>4 DEF KReturn
    <2>2. CASE UNCHANGED <<trace, breakpoints>>
      BY <2>1, <2>2
    <2>3. CASE Stop(trace) /\ UNCHANGED breakpoints
      BY <2>1, <2>3 DEF Stop
    <2>4. CASE Stop([trace EXCEPT !.returned = TRUE, !.lock = FALSE]) /\ UNCHANGED breakpoints
      BY <2>1, <2>4 DEF Stop
    <2>5. CASE /\ ~Exhausted(hops, late) /\ Scan("R")
               /\ trace' = [trace EXCEPT !.returned = TRUE, !.lock = FALSE]
      <3>1. breakpoints < MaxBreakpoints
        BY <2>5, DcpAssumption DEF Exhausted
      <3>2. breakpoints' \in Nat /\ breakpoints' < MaxBreakpoints + 3
        BY <2>5, <3>1, SiteCounts, ScanBound
      <3> QED BY <2>1, <2>5, <3>2
    <2> QED BY <1>4, <2>2, <2>3, <2>4, <2>5 DEF KReturn, OnStage2Return, OnDynamicReturn
  <1>5. CASE OnWaitPrimitive(t, here, late, TRUE)
    BY <1>5 DEF OnWaitPrimitive, Stop, plantVars, guestVars
  <1>6. ASSUME NEW c \in Clients, OnAfkState(t, c, here) \/ OnAfkRequest(t, c) PROVE BoundInv'
    BY <1>6 DEF OnAfkState, OnAfkRequest, Rebased, plantVars, guestVars
  <1>7. CASE OnTransition(t, here)
    BY <1>7 DEF OnTransition, plantVars, guestVars
  <1> QED BY <1>0, <1>1, <1>2, <1>3, <1>4, <1>5, <1>6, <1>7

LEMMA BoundInitially == Init => BoundInv
  BY DcpAssumption DEF Init, DcpInit, BoundInv, BoundType, TraceType

LEMMA BoundNext == BoundInv /\ [Next]_vars => BoundInv'
  <1> SUFFICES ASSUME BoundInv, [Next]_vars PROVE BoundInv'
    OBVIOUS
  <1>1. CASE UNCHANGED <<trace, hops, breakpoints, entering>>
    BY <1>1 DEF BoundInv, BoundType
  <1>2. CASE DynamicNext
    BY <1>2, BoundStep
  <1> QED BY <1>1, <1>2 DEF Next, vars, DcpNext, MachineNext, dcpVars, plantVars

LEMMA BoundConclusion == BoundInv => DcpBounded
  <1> SUFFICES ASSUME BoundInv PROVE DcpBounded
    OBVIOUS
  <1>1. "R" \in DOMAIN SitesOf /\ Cardinality(SitesOf["R"]) = 3
    BY SiteCounts
  <1>2. hops <= MaxHops /\ breakpoints < MaxBreakpoints + 3
    BY DEF BoundInv
  <1> QED BY <1>1, <1>2 DEF DcpBounded

\* "Bounded same-boot tracer": for any limits, threads and sequence of origins
\* and continues, the hops stay within MAX_HOPS and the breakpoints within
\* MAX_BREAKPOINTS and the sites of one more function.
THEOREM DcpIsBounded == Spec => []DcpBounded
  BY BoundInitially, BoundNext, BoundConclusion, PTL DEF Spec

-----------------------------------------------------------------------------
(* A reported return is the return of the call it names. *)

Frames == [ra : {"stage2", "c1", "first", "action"}, id : Nat]

\* The pending returns P of a thread are calls open on its stack K, in the
\* order of the stack; a call inside a pending call is pending too, unless it
\* is a stage-2 operation, whose return is not matched by address.
Paired(P, K) ==
    /\ \A i \in DOMAIN P : \E j \in DOMAIN K : K[j] = P[i]
    /\ \A i1, i2 \in DOMAIN P, j1, j2 \in DOMAIN K :
          K[j1] = P[i1] /\ K[j2] = P[i2] /\ i1 < i2 => j1 < j2
    /\ \A i \in DOMAIN P, j1, j2 \in DOMAIN K : K[j1] = P[i] /\ K[j2] = P[i] => j1 = j2
    /\ \A i \in DOMAIN P, j, k \in DOMAIN K :
          K[j] = P[i] /\ j < k /\ K[k].ra # "stage2" => \E h \in DOMAIN P : P[h] = K[k]

LEMMA FrameIdsFinite ==
    ASSUME NEW q \in Seq(Frames) PROVE IsFiniteSet({q[i].id : i \in DOMAIN q})
  <1> DEFINE f == [i \in DOMAIN q |-> q[i].id]
             T == {q[i].id : i \in DOMAIN q}
  <1>1. DOMAIN q = 1..Len(q) /\ Len(q) \in Nat
    OBVIOUS
  <1>2. IsFiniteSet(DOMAIN q)
    BY <1>1, FS_Interval
  <1>3. f \in Surjection(DOMAIN q, T)
    BY DEF Surjection
  <1> HIDE DEF f, T
  <1> QED BY <1>2, <1>3, FS_Surjection DEF T

\* The number given to a call is not that of an open or pending call.
LEMMA NewIdIsNew ==
    ASSUME NEW t \in KThreads, kstack[t] \in Seq(Frames), pendingReturns[t] \in Seq(Frames)
    PROVE  /\ NewId(t) \in Nat \ {0}
           /\ \A i \in DOMAIN kstack[t] : kstack[t][i].id # NewId(t)
           /\ \A i \in DOMAIN pendingReturns[t] : pendingReturns[t][i].id # NewId(t)
  <1>1. IsFiniteSet(UsedIds(t))
    BY FrameIdsFinite, FS_Union DEF UsedIds
  <1>2. NewId(t) \in 1..Cardinality(UsedIds(t)) + 1 /\ NewId(t) \notin UsedIds(t)
    BY <1>1, UnusedNumber DEF NewId
  <1>3. Cardinality(UsedIds(t)) \in Nat
    BY <1>1, FS_CardinalityType
  <1>4. NewId(t) \in Nat \ {0}
    BY <1>2, <1>3
  <1> QED BY <1>2, <1>4 DEF UsedIds

LEMMA PairPush ==
    ASSUME NEW P \in Seq(Frames), NEW K \in Seq(Frames), NEW e \in Frames, Paired(P, K),
           \A i \in DOMAIN K : K[i] # e, \A i \in DOMAIN P : P[i] # e
    PROVE  Paired(Append(P, e), Append(K, e))
  <1> DEFINE Q == Append(P, e)
             L == Append(K, e)
  <1>1. /\ DOMAIN Q = 1..Len(P) + 1 /\ DOMAIN L = 1..Len(K) + 1
        /\ DOMAIN P = 1..Len(P) /\ DOMAIN K = 1..Len(K)
        /\ Len(P) \in Nat /\ Len(K) \in Nat
    OBVIOUS
  <1>2. /\ \A i \in DOMAIN P : Q[i] = P[i] /\ i \in DOMAIN Q
        /\ \A i \in DOMAIN K : L[i] = K[i] /\ i \in DOMAIN L
        /\ Q[Len(P) + 1] = e /\ L[Len(K) + 1] = e
    OBVIOUS
  <1> HIDE DEF Q, L
  <1>3. /\ \A i \in DOMAIN Q : i \in DOMAIN P \/ i = Len(P) + 1
        /\ \A i \in DOMAIN L : i \in DOMAIN K \/ i = Len(K) + 1
    BY <1>1
  <1>4. \A i \in DOMAIN Q : \E j \in DOMAIN L : L[j] = Q[i]
    BY <1>1, <1>2, <1>3 DEF Paired
  <1>5. \A i \in DOMAIN Q, j \in DOMAIN L : L[j] = Q[i] =>
          (i \in DOMAIN P /\ j \in DOMAIN K /\ K[j] = P[i]) \/ (i = Len(P) + 1 /\ j = Len(K) + 1)
    BY <1>2, <1>3
  <1>6. \A i1, i2 \in DOMAIN Q, j1, j2 \in DOMAIN L :
          L[j1] = Q[i1] /\ L[j2] = Q[i2] /\ i1 < i2 => j1 < j2
    BY <1>1, <1>5 DEF Paired
  <1>7. \A i \in DOMAIN Q, j1, j2 \in DOMAIN L : L[j1] = Q[i] /\ L[j2] = Q[i] => j1 = j2
    BY <1>1, <1>5 DEF Paired
  <1>8. ASSUME NEW i \in DOMAIN Q, NEW j \in DOMAIN L, NEW k \in DOMAIN L,
               L[j] = Q[i], j < k, L[k].ra # "stage2"
        PROVE  \E h \in DOMAIN Q : Q[h] = L[k]
    <2>1. CASE k = Len(K) + 1
      BY <1>1, <1>2, <2>1
    <2>2. CASE k \in DOMAIN K
      <3>1. i \in DOMAIN P /\ j \in DOMAIN K /\ K[j] = P[i]
        BY <1>1, <1>5, <1>8, <2>2
      <3>2. PICK h \in DOMAIN P : P[h] = K[k]
        BY <1>2, <1>8, <2>2, <3>1 DEF Paired
      <3> QED BY <1>2, <2>2, <3>2
    <2> QED BY <1>3, <2>1, <2>2
  <1>9. Paired(Q, L)
    BY <1>4, <1>6, <1>7, <1>8 DEF Paired
  <1> QED BY <1>9 DEF Q, L

LEMMA PairOperation ==
    ASSUME NEW P \in Seq(Frames), NEW K \in Seq(Frames), NEW e \in Frames, Paired(P, K),
           e.ra = "stage2", \A i \in DOMAIN P : P[i].ra # "stage2"
    PROVE  Paired(P, Append(K, e))
  <1> DEFINE L == Append(K, e)
  <1>1. /\ DOMAIN L = 1..Len(K) + 1 /\ DOMAIN K = 1..Len(K) /\ Len(K) \in Nat
        /\ \A i \in DOMAIN K : L[i] = K[i] /\ i \in DOMAIN L
        /\ L[Len(K) + 1] = e
    OBVIOUS
  <1> HIDE DEF L
  <1>2. \A j \in DOMAIN L : L[j].ra # "stage2" => j \in DOMAIN K /\ L[j] = K[j]
    BY <1>1
  <1>3. \A i \in DOMAIN P, j \in DOMAIN L : L[j] = P[i] => j \in DOMAIN K /\ K[j] = P[i]
    BY <1>2
  <1>4. \A i \in DOMAIN P : \E j \in DOMAIN L : L[j] = P[i]
    BY <1>1 DEF Paired
  <1>5. ASSUME NEW i \in DOMAIN P, NEW j \in DOMAIN L, NEW k \in DOMAIN L,
               L[j] = P[i], j < k, L[k].ra # "stage2"
        PROVE  \E h \in DOMAIN P : P[h] = L[k]
    BY <1>2, <1>3, <1>5 DEF Paired
  <1>6. \A i1, i2 \in DOMAIN P, j1, j2 \in DOMAIN L :
          L[j1] = P[i1] /\ L[j2] = P[i2] /\ i1 < i2 => j1 < j2
    BY <1>3 DEF Paired
  <1>7. \A i \in DOMAIN P, j1, j2 \in DOMAIN L : L[j1] = P[i] /\ L[j2] = P[i] => j1 = j2
    BY <1>3 DEF Paired
  <1> QED BY <1>4, <1>5, <1>6, <1>7 DEF Paired, L

LEMMA PairTop ==
    ASSUME NEW P \in Seq(Frames), NEW K \in Seq(Frames), Paired(P, K),
           P # <<>>, K # <<>>, K[Len(K)].ra # "stage2"
    PROVE  P[Len(P)] = K[Len(K)]
  <1>0. Len(P) \in DOMAIN P /\ Len(K) \in DOMAIN K /\ DOMAIN K = 1..Len(K) /\ DOMAIN P = 1..Len(P)
        /\ Len(P) \in Nat /\ Len(K) \in Nat
    OBVIOUS
  <1>1. PICK j \in DOMAIN K : K[j] = P[Len(P)]
    BY <1>0 DEF Paired
  <1>2. CASE j < Len(K)
    <2>1. PICK h \in DOMAIN P : P[h] = K[Len(K)]
      BY <1>0, <1>1, <1>2 DEF Paired
    <2>2. CASE h < Len(P)
      <3>1. Len(K) < j
        BY <1>0, <1>1, <2>1, <2>2 DEF Paired
      <3> QED BY <1>0, <1>2, <3>1
    <2>3. CASE h = Len(P)
      BY <2>1, <2>3
    <2> QED BY <1>0, <2>2, <2>3
  <1>3. CASE j = Len(K)
    BY <1>1, <1>3
  <1> QED BY <1>0, <1>2, <1>3

LEMMA PairPopBoth ==
    ASSUME NEW P \in Seq(Frames), NEW K \in Seq(Frames), Paired(P, K),
           P # <<>>, K # <<>>, P[Len(P)] = K[Len(K)]
    PROVE  Paired(SubSeq(P, 1, Len(P) - 1), SubSeq(K, 1, Len(K) - 1))
  <1> DEFINE Q == SubSeq(P, 1, Len(P) - 1)
             L == SubSeq(K, 1, Len(K) - 1)
  <1>1. /\ DOMAIN Q = 1..Len(P) - 1 /\ \A i \in DOMAIN Q : Q[i] = P[i]
        /\ DOMAIN L = 1..Len(K) - 1 /\ \A i \in DOMAIN L : L[i] = K[i]
        /\ DOMAIN P = 1..Len(P) /\ DOMAIN K = 1..Len(K)
        /\ Len(P) \in Nat \ {0} /\ Len(K) \in Nat \ {0}
    OBVIOUS
  <1> HIDE DEF Q, L
  <1>2. \A i \in DOMAIN Q : K[Len(K)] # Q[i]
    BY <1>1 DEF Paired
  <1>3. \A i \in DOMAIN Q : \E j \in DOMAIN L : L[j] = Q[i]
    <2> SUFFICES ASSUME NEW i \in DOMAIN Q PROVE \E j \in DOMAIN L : L[j] = Q[i]
      OBVIOUS
    <2>1. PICK j \in DOMAIN K : K[j] = P[i]
      BY <1>1 DEF Paired
    <2> QED BY <1>1, <1>2, <2>1
  <1>4. /\ \A i1, i2 \in DOMAIN Q, j1, j2 \in DOMAIN L :
             L[j1] = Q[i1] /\ L[j2] = Q[i2] /\ i1 < i2 => j1 < j2
        /\ \A i \in DOMAIN Q, j1, j2 \in DOMAIN L : L[j1] = Q[i] /\ L[j2] = Q[i] => j1 = j2
    BY <1>1 DEF Paired
  <1>5. ASSUME NEW i \in DOMAIN Q, NEW j \in DOMAIN L, NEW k \in DOMAIN L,
               L[j] = Q[i], j < k, L[k].ra # "stage2"
        PROVE  \E h \in DOMAIN Q : Q[h] = L[k]
    <2>1. PICK h \in DOMAIN P : P[h] = K[k]
      BY <1>1, <1>5 DEF Paired
    <2>2. h # Len(P)
      <3>1. ASSUME h = Len(P) PROVE FALSE
        <4>1. K[k] = P[Len(P)] /\ K[Len(K)] = P[Len(P)] /\ K[j] = P[i] /\ i < Len(P)
          BY <1>1, <1>5, <2>1, <3>1
        <4>2. k \in DOMAIN K /\ Len(K) \in DOMAIN K /\ k < Len(K)
          BY <1>1
        <4>3. Len(P) \in DOMAIN P
          BY <1>1
        <4>4. \A i1 \in DOMAIN P, j1, j2 \in DOMAIN K : K[j1] = P[i1] /\ K[j2] = P[i1] => j1 = j2
          BY DEF Paired
        <4>5. k = Len(K)
          BY <4>1, <4>2, <4>3, <4>4
        <4> QED BY <1>1, <4>2, <4>5
      <3> QED BY <3>1
    <2> QED BY <1>1, <2>1, <2>2
  <1> QED BY <1>3, <1>4, <1>5 DEF Paired, Q, L

LEMMA PairPopOperation ==
    ASSUME NEW P \in Seq(Frames), NEW K \in Seq(Frames), Paired(P, K), K # <<>>,
           K[Len(K)].ra = "stage2", \A i \in DOMAIN P : P[i].ra # "stage2"
    PROVE  Paired(P, SubSeq(K, 1, Len(K) - 1))
  <1> DEFINE L == SubSeq(K, 1, Len(K) - 1)
  <1>1. /\ DOMAIN L = 1..Len(K) - 1 /\ \A i \in DOMAIN L : L[i] = K[i]
        /\ DOMAIN K = 1..Len(K) /\ Len(K) \in Nat \ {0}
    OBVIOUS
  <1> HIDE DEF L
  <1>2. \A i \in DOMAIN P : \E j \in DOMAIN L : L[j] = P[i]
    <2> SUFFICES ASSUME NEW i \in DOMAIN P PROVE \E j \in DOMAIN L : L[j] = P[i]
      OBVIOUS
    <2>1. PICK j \in DOMAIN K : K[j] = P[i]
      BY DEF Paired
    <2>2. j # Len(K)
      BY <2>1
    <2> QED BY <1>1, <2>1, <2>2
  <1>3. \A j \in DOMAIN L : j \in DOMAIN K /\ L[j] = K[j]
    BY <1>1
  <1>4. \A i1, i2 \in DOMAIN P, j1, j2 \in DOMAIN L :
          L[j1] = P[i1] /\ L[j2] = P[i2] /\ i1 < i2 => j1 < j2
    BY <1>3 DEF Paired
  <1>5. \A i \in DOMAIN P, j1, j2 \in DOMAIN L : L[j1] = P[i] /\ L[j2] = P[i] => j1 = j2
    BY <1>3 DEF Paired
  <1>6. \A i \in DOMAIN P, j, k \in DOMAIN L :
          L[j] = P[i] /\ j < k /\ L[k].ra # "stage2" => \E h \in DOMAIN P : P[h] = L[k]
    BY <1>3 DEF Paired
  <1> QED BY <1>2, <1>4, <1>5, <1>6 DEF Paired, L

PairType ==
    /\ trace \in TraceType /\ moved \in BOOLEAN /\ mispaired \in BOOLEAN
    /\ kstack \in [KThreads -> Seq(Frames)] /\ pendingReturns \in [KThreads -> Seq(Frames)]
    /\ entering \in [KThreads -> {"T1", "T2", Nowhere}] /\ scanned \subseteq {"T1", "T2", "R"}

\* A thread with pending returns is the armed origin, and the function whose
\* calls it follows is scanned.
Follows(t) == Followed(t) /\ "T1" \in scanned /\ "c1" \in returnsAt

ThreadPaired(t) ==
    /\ Paired(pendingReturns[t], kstack[t])
    /\ pendingReturns[t] # <<>> => Follows(t)

DynamicPaired ==
    /\ PairType
    /\ \A t \in KThreads : \A i \in DOMAIN kstack[t] : kstack[t][i].ra \in {"stage2", "c1"}
    /\ \A t \in KThreads : \A i \in DOMAIN pendingReturns[t] : pendingReturns[t][i].ra = "c1"
    /\ ~moved /\ ~trace.stopped => \A t \in KThreads : ThreadPaired(t)
    /\ DcpPaired

LEMMA PairNothing == \A K : Paired(<<>>, K)
  BY DEF Paired

LEMMA LastMatch ==
    ASSUME NEW q \in Seq(Frames), NEW s, \A i \in DOMAIN q : q[i].ra = s
    PROVE  MatchReturn(q, s) = Len(q)
  <1> DEFINE I == {i \in 1..Len(q) : q[i].ra = s}
  <1>0. Len(q) \in Nat /\ DOMAIN q = 1..Len(q)
    OBVIOUS
  <1>1. I = 1..Len(q)
    BY <1>0
  <1>2. MatchReturn(q, s) = IF I # {} THEN Max(I) ELSE 0
    BY DEF MatchReturn, SelectLastInSeq
  <1>3. CASE Len(q) = 0
    BY <1>0, <1>1, <1>2, <1>3
  <1>4. CASE Len(q) # 0
    <2>1. Len(q) \in I /\ \A y \in I : Len(q) >= y
      BY <1>0, <1>1, <1>4
    <2> HIDE DEF I
    <2>2. Max(I) \in I /\ \A y \in I : Max(I) >= y
      BY <2>1 DEF Max
    <2> QED BY <1>0, <1>1, <1>2, <2>1, <2>2
  <1> QED BY <1>3, <1>4

LEMMA LastRemoved ==
    ASSUME NEW q \in Seq(Frames), q # <<>>
    PROVE  RemoveAt(q, Len(q)) = SubSeq(q, 1, Len(q) - 1)
  BY DEF RemoveAt

\* Calls: the stage-2 operation, and an indirect call.
LEMMA PairedCall ==
    ASSUME DynamicPaired, NEW t \in KThreads, NEW e \in Frames,
           e.ra \in {"stage2", "c1"}, UNCHANGED mispaired, moved' \in BOOLEAN,
           moved => moved', trace.stopped => trace'.stopped, trace' \in TraceType,
           entering' \in [KThreads -> {"T1", "T2", Nowhere}],
           kstack' = [kstack EXCEPT ![t] = Append(@, e)],
           \/ UNCHANGED pendingReturns
           \/ /\ e.ra = "c1"
              /\ pendingReturns' = [pendingReturns EXCEPT ![t] = Append(@, e)],
           scanned' \subseteq {"T1", "T2", "R"},
           ~moved' /\ ~trace'.stopped => \A u \in KThreads : ThreadPaired(u)'
    PROVE  DynamicPaired'
  <1>1. kstack' \in [KThreads -> Seq(Frames)] /\ pendingReturns' \in [KThreads -> Seq(Frames)]
    <2>1. /\ kstack \in [KThreads -> Seq(Frames)]
          /\ pendingReturns \in [KThreads -> Seq(Frames)]
      BY DEF DynamicPaired, PairType
    <2> HIDE DEF Frames
    <2>2. Append(kstack[t], e) \in Seq(Frames) /\ Append(pendingReturns[t], e) \in Seq(Frames)
      BY <2>1
    <2> QED BY <2>1, <2>2
  <1>2. \A u \in KThreads : \A i \in DOMAIN kstack'[u] : kstack'[u][i].ra \in {"stage2", "c1"}
    <2> SUFFICES ASSUME NEW u \in KThreads, NEW i \in DOMAIN kstack'[u]
                 PROVE  kstack'[u][i].ra \in {"stage2", "c1"}
      OBVIOUS
    <2>1. kstack[u] \in Seq(Frames)
      BY DEF DynamicPaired, PairType
    <2>2. kstack'[u] = IF u = t THEN Append(kstack[u], e) ELSE kstack[u]
      BY DEF DynamicPaired, PairType
    <2> HIDE DEF Frames
    <2>3. CASE u = t
      <3>1. (i \in DOMAIN kstack[u] /\ kstack'[u][i] = kstack[u][i]) \/ kstack'[u][i] = e
        BY <2>1, <2>2, <2>3
      <3> QED BY <3>1 DEF DynamicPaired
    <2> QED BY <2>2, <2>3 DEF DynamicPaired
  <1>3. \A u \in KThreads : \A i \in DOMAIN pendingReturns'[u] : pendingReturns'[u][i].ra = "c1"
    <2> SUFFICES ASSUME NEW u \in KThreads, NEW i \in DOMAIN pendingReturns'[u]
                 PROVE  pendingReturns'[u][i].ra = "c1"
      OBVIOUS
    <2>1. pendingReturns[u] \in Seq(Frames)
      BY DEF DynamicPaired, PairType
    <2>2. CASE pendingReturns'[u] = pendingReturns[u]
      BY <2>2 DEF DynamicPaired
    <2>3. CASE pendingReturns'[u] = Append(pendingReturns[u], e) /\ e.ra = "c1"
      <3> HIDE DEF Frames
      <3>1. (i \in DOMAIN pendingReturns[u] /\ pendingReturns'[u][i] = pendingReturns[u][i])
            \/ pendingReturns'[u][i] = e
        BY <2>1, <2>3
      <3> QED BY <2>3, <3>1 DEF DynamicPaired
    <2> QED BY <2>2, <2>3 DEF DynamicPaired, PairType
  <1> QED BY <1>1, <1>2, <1>3 DEF DynamicPaired, PairType, DcpPaired

\* Other threads than the one that runs.
LEMMA PairedElsewhere ==
    ASSUME NEW u \in KThreads, ThreadPaired(u), kstack'[u] = kstack[u],
           pendingReturns'[u] = pendingReturns[u], ~trace'.stopped,
           scanned \subseteq scanned', returnsAt \subseteq returnsAt',
           trace.armed => trace'.armed,
           pendingReturns[u] # <<>> => trace'.origin = trace.origin
    PROVE  ThreadPaired(u)'
  BY DEF ThreadPaired, Follows, Followed

\* A new origin takes the place of one with pending returns only by moving.
LEMMA PairedMove ==
    ASSUME DynamicPaired, NEW t \in KThreads, Moves(t), ~moved', ~trace.stopped,
           NEW u \in KThreads, pendingReturns[u] # <<>>
    PROVE  u = t /\ trace.origin = t
  <1>1. trace.origin = u /\ u # NoThread
    BY DcpAssumption, LldbAssumption DEF DynamicPaired, ThreadPaired, Follows, Followed, Moves
  <1> QED BY <1>1 DEF Moves

LEMMA PairedEnter ==
    ASSUME DynamicPaired, NEW t \in KThreads, NEW here \in BOOLEAN, NEW late \in BOOLEAN,
           entering[t] # Nowhere, KEnter(t, here, late)
    PROVE  DynamicPaired'
  <1>1. /\ UNCHANGED <<kstack, pendingReturns, moved, mispaired, returnsAt>>
        /\ scanned \subseteq scanned' /\ scanned' \subseteq {"T1", "T2", "R"}
    BY DEF KEnter, OnTargetEntry2, Scan, plantVars, DynamicPaired, PairType
  <1>2. entering' \in [KThreads -> {"T1", "T2", Nowhere}]
    BY DEF KEnter, DynamicPaired, PairType
  <1>3. /\ trace' \in TraceType /\ trace'.origin = trace.origin /\ trace'.armed = trace.armed
        /\ trace.stopped => trace'.stopped
    <2> DEFINE tr == [trace EXCEPT !.lock = TRUE]
    <2>1. trace' = trace \/ trace' = tr \/ trace' = [tr EXCEPT !.stopped = TRUE]
          \/ trace' = [trace EXCEPT !.stopped = TRUE]
      BY DEF KEnter, OnTargetEntry2, Stop
    <2> QED BY <2>1 DEF DynamicPaired, PairType, TraceType
  <1>4. ASSUME ~moved', ~trace'.stopped, NEW u \in KThreads PROVE ThreadPaired(u)'
    BY <1>1, <1>3, <1>4, PairedElsewhere DEF DynamicPaired
  <1> QED BY <1>1, <1>2, <1>3, <1>4 DEF DynamicPaired, PairType, DcpPaired

LEMMA PairedStage2 ==
    ASSUME DynamicPaired, NEW t \in KThreads, NEW c \in Clients, NEW here \in BOOLEAN,
           NEW late \in BOOLEAN, OnStage2Pre(t, c, here, late)
    PROVE  DynamicPaired'
  <1> DEFINE rebase == ~Matches(t, here) \/ trace.returned
             e == [ra |-> "stage2", id |-> 0]
  <1>1. /\ UNCHANGED <<pendingReturns, scanned, returnsAt, mispaired>>
        /\ kstack' = [kstack EXCEPT ![t] = Append(@, e)]
        /\ entering' \in [KThreads -> {"T1", "T2", Nowhere}]
    BY DEF OnStage2Pre, plantVars, Queue, Push, DynamicPaired, PairType
  <1>2. /\ trace' \in TraceType /\ (trace.stopped => trace'.stopped)
        /\ (trace.armed => trace'.armed)
        /\ trace'.origin = IF rebase THEN t ELSE trace.origin
    <2> DEFINE tr == IF rebase THEN [Rebased(trace, t, c) EXCEPT !.armed = TRUE, !.requested = TRUE]
                     ELSE trace
    <2>1. /\ tr \in TraceType /\ tr.stopped = trace.stopped /\ (trace.armed => tr.armed)
          /\ tr.origin = IF rebase THEN t ELSE trace.origin
      BY DEF Rebased, DynamicPaired, PairType, TraceType
    <2>2. trace' = tr \/ trace' = [tr EXCEPT !.stopped = TRUE]
      BY DEF OnStage2Pre, Stop
    <2> HIDE DEF tr, rebase
    <2> QED BY <2>1, <2>2 DEF TraceType
  <1>3. IF rebase THEN Moves(t) ELSE UNCHANGED moved
    BY DEF OnStage2Pre
  <1>4. moved' \in BOOLEAN /\ (moved => moved')
    BY <1>3 DEF Moves, DynamicPaired, PairType
  <1> HIDE DEF rebase
  <1>5. ASSUME ~moved', ~trace'.stopped, NEW u \in KThreads PROVE ThreadPaired(u)'
    <2>1. ThreadPaired(u) /\ ~trace.stopped
      BY <1>2, <1>4, <1>5 DEF DynamicPaired
    <2>2. pendingReturns[u] # <<>> => trace'.origin = trace.origin
      BY <1>2, <1>3, <1>5, <2>1, PairedMove
    <2>3. CASE u # t
      <3>1. kstack'[u] = kstack[u]
        BY <1>1, <2>3 DEF DynamicPaired, PairType
      <3> QED BY <1>1, <1>2, <1>5, <2>1, <2>2, <3>1, PairedElsewhere
    <2>4. CASE u = t
      <3>1. kstack'[t] = Append(kstack[t], e) /\ pendingReturns'[t] = pendingReturns[t]
        BY <1>1 DEF DynamicPaired, PairType
      <3>2. kstack[t] \in Seq(Frames) /\ pendingReturns[t] \in Seq(Frames)
        BY DEF DynamicPaired, PairType
      <3>3. e \in Frames /\ e.ra = "stage2"
        BY DEF Frames
      <3> HIDE DEF e
      <3>4. \A i \in DOMAIN pendingReturns[t] : pendingReturns[t][i].ra # "stage2"
        BY DEF DynamicPaired
      <3>5. Paired(pendingReturns[t], Append(kstack[t], e))
        BY <2>1, <2>4, <3>2, <3>3, <3>4, PairOperation DEF ThreadPaired
      <3> QED BY <1>1, <1>2, <1>5, <2>1, <2>2, <2>4, <3>1, <3>5
              DEF ThreadPaired, Follows, Followed
    <2> QED BY <2>3, <2>4
  <1>6. e \in Frames /\ e.ra \in {"stage2", "c1"}
    BY DEF Frames
  <1> HIDE DEF e
  <1> QED BY <1>1, <1>2, <1>4, <1>5, <1>6, PairedCall DEF DynamicPaired, PairType

LEMMA PairedAfk ==
    ASSUME DynamicPaired, NEW t \in KThreads, NEW c \in Clients, NEW here \in BOOLEAN,
           OnAfkState(t, c, here)
    PROVE  DynamicPaired'
  <1>1. UNCHANGED <<pendingReturns, scanned, returnsAt, mispaired, kstack, entering>>
    BY DEF OnAfkState, plantVars, guestVars
  <1>2. /\ trace' \in TraceType /\ trace'.stopped = trace.stopped
        /\ trace'.armed = trace.armed /\ trace'.origin = t
    BY DEF OnAfkState, Rebased, DynamicPaired, PairType, TraceType
  <1>3. Moves(t)
    BY DEF OnAfkState
  <1>4. moved' \in BOOLEAN /\ (moved => moved')
    BY <1>3 DEF Moves, DynamicPaired, PairType
  <1>5. ASSUME ~moved', ~trace'.stopped, NEW u \in KThreads PROVE ThreadPaired(u)'
    <2>1. ThreadPaired(u) /\ ~trace.stopped
      BY <1>2, <1>4, <1>5 DEF DynamicPaired
    <2>2. pendingReturns[u] # <<>> => trace'.origin = trace.origin
      BY <1>2, <1>3, <1>5, <2>1, PairedMove
    <2> QED BY <1>1, <1>2, <1>5, <2>1, <2>2, PairedElsewhere
  <1> QED BY <1>1, <1>2, <1>4, <1>5 DEF DynamicPaired, PairType, DcpPaired

\* Callbacks that only change the filters or stop.
LEMMA PairedFilter ==
    ASSUME DynamicPaired, NEW t \in KThreads, NEW here \in BOOLEAN, NEW mine \in BOOLEAN,
           \/ OnWaitPrimitive(t, here, mine, TRUE)
           \/ \E c \in Clients : OnAfkRequest(t, c)
           \/ OnTransition(t, here)
    PROVE  DynamicPaired'
  <1>1. UNCHANGED <<pendingReturns, scanned, returnsAt, mispaired, kstack, entering, moved>>
    BY DEF OnWaitPrimitive, OnAfkRequest, OnTransition, plantVars, guestVars
  <1>2. /\ trace' \in TraceType /\ (trace.stopped => trace'.stopped)
        /\ (trace.armed => trace'.armed) /\ trace'.origin = trace.origin
    BY DEF OnWaitPrimitive, OnAfkRequest, OnTransition, Stop, DynamicPaired, PairType, TraceType
  <1>3. ASSUME ~moved', ~trace'.stopped, NEW u \in KThreads PROVE ThreadPaired(u)'
    BY <1>1, <1>2, <1>3, PairedElsewhere DEF DynamicPaired
  <1> QED BY <1>1, <1>2, <1>3 DEF DynamicPaired, PairType, DcpPaired

LEMMA PairedIndirect ==
    ASSUME DynamicPaired, NEW t \in KThreads, NEW s \in DOMAIN GoesTo, NEW here \in BOOLEAN,
           NEW late \in BOOLEAN, NEW null \in BOOLEAN, OnIndirectCall(t, s, here, late, null)
    PROVE  DynamicPaired'
  <1>1. /\ UNCHANGED <<mispaired, scanned>> /\ returnsAt \subseteq returnsAt'
        /\ moved' \in BOOLEAN /\ (moved => moved')
        /\ entering' \in [KThreads -> {"T1", "T2", Nowhere}]
    <2>1. UNCHANGED moved \/ Misses(t, here)
      BY DEF OnIndirectCall
    <2>2. moved' \in BOOLEAN /\ (moved => moved')
      BY <2>1 DEF Misses, DynamicPaired, PairType
    <2>3. /\ UNCHANGED <<mispaired, scanned>> /\ returnsAt \subseteq returnsAt'
          /\ entering' \in [KThreads -> {"T1", "T2", Nowhere}]
      BY DEF OnIndirectCall, plantVars, Queue, DynamicPaired, PairType, GoesTo
    <2> QED BY <2>2, <2>3
  <1>2. /\ trace' \in TraceType /\ trace'.origin = trace.origin /\ trace'.armed = trace.armed
        /\ trace.stopped => trace'.stopped
    BY DEF OnIndirectCall, Stop, DynamicPaired, PairType, TraceType
  <1>3. s = "c1" \/ s = "j1"
    BY DEF GoesTo
  <1>4. CASE s = "j1"
    <2>1. UNCHANGED <<kstack, pendingReturns>>
      BY <1>4 DEF OnIndirectCall, Queue, TailSite, Nowhere, plantVars
    <2>2. ASSUME ~moved', ~trace'.stopped, NEW u \in KThreads PROVE ThreadPaired(u)'
      BY <1>1, <1>2, <2>1, <2>2, PairedElsewhere DEF DynamicPaired
    <2> QED BY <1>1, <1>2, <2>1, <2>2 DEF DynamicPaired, PairType, DcpPaired
  <1>5. CASE s = "c1"
    <2> DEFINE e == [ra |-> "c1", id |-> NewId(t)]
    <2>0. kstack[t] \in Seq(Frames) /\ pendingReturns[t] \in Seq(Frames)
      BY DEF DynamicPaired, PairType
    <2>1. e \in Frames /\ e.ra = "c1" /\ e.id = NewId(t)
      BY <2>0, NewIdIsNew DEF Frames
    <2>2. kstack' = [kstack EXCEPT ![t] = Append(@, e)]
      BY <1>5 DEF OnIndirectCall, TailSite, Push
    <2>7. ~moved' => here \/ pendingReturns[t] = <<>>
      BY <1>5 DEF OnIndirectCall, TailSite, Misses
    <2>3. \/ UNCHANGED <<trace, pendingReturns>> /\ ("c1" \notin Planted \/ ~Matches(t, here))
          \/ trace'.stopped /\ UNCHANGED pendingReturns
          \/ /\ UNCHANGED trace /\ Matches(t, here) /\ "c1" \in Planted
             /\ pendingReturns' = [pendingReturns EXCEPT ![t] = Append(@, e)]
             /\ "c1" \in returnsAt'
      <3>1. CASE "c1" \notin Planted \/ ~Matches(t, here)
        BY <1>5, <3>1 DEF OnIndirectCall
      <3>2. CASE "c1" \in Planted /\ Matches(t, here) /\ (Exhausted(hops, late) \/ null)
        BY <1>5, <3>2 DEF OnIndirectCall, Stop, DynamicPaired, PairType, TraceType
      <3>3. CASE "c1" \in Planted /\ Matches(t, here) /\ ~(Exhausted(hops, late) \/ null)
        BY <1>5, <3>3 DEF OnIndirectCall, Queue, TailSite, Nowhere
      <3> QED BY <3>1, <3>2, <3>3
    <2>4. /\ \A i \in DOMAIN kstack[t] : kstack[t][i] # e
          /\ \A i \in DOMAIN pendingReturns[t] : pendingReturns[t][i] # e
      BY <2>0, <2>1, NewIdIsNew
    <2> HIDE DEF e
    <2>5. ASSUME ~moved', ~trace'.stopped, NEW u \in KThreads PROVE ThreadPaired(u)'
      <3>1. \A v \in KThreads : ThreadPaired(v)
        BY <1>1, <1>2, <2>5 DEF DynamicPaired
      <3>2. CASE u # t
        <4>1. kstack'[u] = kstack[u] /\ pendingReturns'[u] = pendingReturns[u]
          BY <2>2, <2>3, <2>5, <3>2 DEF DynamicPaired, PairType
        <4> QED BY <1>1, <1>2, <2>5, <3>1, <4>1, PairedElsewhere
      <3>3. CASE u = t
        <4>0. kstack'[t] = Append(kstack[t], e)
          BY <2>2 DEF DynamicPaired, PairType
        <4>1. CASE UNCHANGED pendingReturns /\ ("c1" \notin Planted \/ ~Matches(t, here))
          <5>1. "T1" \in scanned => "c1" \in Planted
            BY DEF Planted, SitesOf
          <5>2. pendingReturns[t] = <<>>
            BY <2>5, <2>7, <3>1, <4>1, <5>1 DEF ThreadPaired, Follows, Matches
          <5>3. Paired(pendingReturns[t], Append(kstack[t], e))
            BY <5>2, PairNothing
          <5> QED BY <3>3, <4>0, <4>1, <5>2, <5>3 DEF ThreadPaired
        <4>2. CASE /\ UNCHANGED trace /\ Matches(t, here) /\ "c1" \in Planted
                   /\ pendingReturns' = [pendingReturns EXCEPT ![t] = Append(@, e)]
                   /\ "c1" \in returnsAt'
          <5>1. pendingReturns'[t] = Append(pendingReturns[t], e)
            BY <4>2 DEF DynamicPaired, PairType
          <5>2. Paired(Append(pendingReturns[t], e), Append(kstack[t], e))
            BY <2>0, <2>1, <2>4, <3>1, PairPush DEF ThreadPaired
          <5>3. "T1" \in scanned'
            <6>1. PICK x \in scanned : "c1" \in SitesOf[x]
              BY <4>2 DEF Planted
            <6>2. x \in {"T1", "T2", "R"}
              BY DEF DynamicPaired, PairType
            <6>3. x = "T1"
              BY <6>1, <6>2 DEF SitesOf
            <6> QED BY <1>1, <6>1, <6>3
          <5>4. Follows(t)'
            BY <2>5, <4>2, <5>3 DEF Follows, Followed, Matches
          <5> QED BY <3>3, <4>0, <5>1, <5>2, <5>4 DEF ThreadPaired
        <4> QED BY <2>3, <2>5, <4>1, <4>2
      <3> QED BY <3>2, <3>3
    <2>6. UNCHANGED pendingReturns \/ pendingReturns' = [pendingReturns EXCEPT ![t] = Append(@, e)]
      BY <2>3
    <2> QED BY <1>1, <1>2, <2>1, <2>2, <2>5, <2>6, PairedCall DEF DynamicPaired, PairType
  <1> QED BY <1>3, <1>4, <1>5

LEMMA PairedReturn ==
    ASSUME DynamicPaired, NEW t \in KThreads, NEW here \in BOOLEAN, NEW late \in BOOLEAN,
           NEW stop \in BOOLEAN, KReturn(t, here, late, stop)
    PROVE  DynamicPaired'
  <1> DEFINE K == kstack[t]
             P == pendingReturns[t]
             f == K[Len(K)]
  <1>0. K \in Seq(Frames) /\ P \in Seq(Frames) /\ K # <<>>
    BY DEF DynamicPaired, PairType, KReturn
  <1>1. /\ UNCHANGED <<returnsAt, entering>> /\ moved' \in BOOLEAN /\ (moved => moved')
        /\ scanned \subseteq scanned' /\ scanned' \subseteq {"T1", "T2", "R"}
        /\ kstack' = [kstack EXCEPT ![t] = SubSeq(K, 1, Len(K) - 1)]
    BY DEF KReturn, OnStage2Return, OnDynamicReturn, Misses, Scan, DynamicPaired, PairType
  <1>2. /\ trace' \in TraceType /\ trace'.origin = trace.origin /\ trace'.armed = trace.armed
        /\ trace.stopped => trace'.stopped
    <2> DEFINE tr == [trace EXCEPT !.returned = TRUE, !.lock = FALSE]
    <2>1. trace' = trace \/ trace' = tr \/ trace' = [tr EXCEPT !.stopped = TRUE]
          \/ trace' = [trace EXCEPT !.stopped = TRUE]
      BY DEF KReturn, OnStage2Return, Stop
    <2> QED BY <2>1 DEF DynamicPaired, PairType, TraceType
  <1>3. f \in Frames /\ Len(K) \in DOMAIN K /\ f.ra \in {"stage2", "c1"}
    <2>1. Len(K) \in DOMAIN K /\ f \in Frames
      BY <1>0
    <2> QED BY <2>1 DEF DynamicPaired
  <1>4. kstack'[t] = SubSeq(K, 1, Len(K) - 1) /\ \A u \in KThreads \ {t} : kstack'[u] = kstack[u]
    BY <1>1 DEF DynamicPaired, PairType
  <1> HIDE DEF K, P, f
  <1>5. /\ kstack' \in [KThreads -> Seq(Frames)]
        /\ \A u \in KThreads : \A i \in DOMAIN kstack'[u] : kstack'[u][i].ra \in {"stage2", "c1"}
    <2>1. SubSeq(K, 1, Len(K) - 1) \in Seq(Frames)
      BY <1>0
    <2>2. /\ Len(K) \in Nat \ {0} /\ DOMAIN K = 1..Len(K)
          /\ DOMAIN SubSeq(K, 1, Len(K) - 1) = 1..Len(K) - 1
          /\ \A i \in 1..Len(K) - 1 : SubSeq(K, 1, Len(K) - 1)[i] = K[i]
      BY <1>0
    <2>3. \A i \in DOMAIN K : K[i].ra \in {"stage2", "c1"}
      BY DEF DynamicPaired, K
    <2>4. \A i \in DOMAIN SubSeq(K, 1, Len(K) - 1) : SubSeq(K, 1, Len(K) - 1)[i].ra \in {"stage2", "c1"}
      BY <2>2, <2>3
    <2> QED BY <1>1, <1>4, <2>1, <2>4 DEF DynamicPaired, PairType
  <1>6. CASE f.ra = "stage2"
    <2>1. UNCHANGED <<pendingReturns, mispaired>>
      BY <1>6 DEF KReturn, f, K
    <2>2. ASSUME ~moved', ~trace'.stopped, NEW u \in KThreads PROVE ThreadPaired(u)'
      <3>1. ThreadPaired(u) /\ ThreadPaired(t)
        BY <1>1, <1>2, <2>2 DEF DynamicPaired
      <3>2. CASE u # t
        BY <1>1, <1>2, <1>4, <2>1, <2>2, <3>1, <3>2, PairedElsewhere
      <3>3. CASE u = t
        <4>1. Paired(P, SubSeq(K, 1, Len(K) - 1))
          <5>1. \A i \in DOMAIN P : P[i].ra # "stage2"
            BY DEF DynamicPaired, P
          <5> QED BY <1>0, <1>6, <3>1, <5>1, PairPopOperation DEF ThreadPaired, P, K, f
        <4> QED BY <1>1, <1>2, <1>4, <2>1, <2>2, <3>1, <3>3, <4>1
                DEF ThreadPaired, Follows, Followed, P
      <3> QED BY <3>2, <3>3
    <2> QED BY <1>1, <1>2, <1>5, <2>1, <2>2 DEF DynamicPaired, PairType, DcpPaired
  <1>7. CASE f.ra = "c1"
    <2>0. OnDynamicReturn(t, f, here) /\ UNCHANGED <<trace, scanned>>
      BY <1>7 DEF KReturn, f, K
    <2> DEFINE i == MatchReturn(P, "c1")
    <2>9. (\A h \in DOMAIN P : P[h].ra = "c1") /\ i = Len(P)
      <3>1. \A h \in DOMAIN P : P[h].ra = "c1"
        BY DEF DynamicPaired, P
      <3> QED BY <1>0, <3>1, LastMatch
    <2>1. CASE "c1" \notin returnsAt \/ ~Matches(t, here) \/ i = 0
      <3>1. UNCHANGED <<pendingReturns, mispaired>>
        BY <1>7, <2>0, <2>1 DEF OnDynamicReturn, P
      <3>2. ASSUME ~moved', ~trace'.stopped, NEW u \in KThreads PROVE ThreadPaired(u)'
        <4>1. ThreadPaired(u) /\ ThreadPaired(t)
          BY <1>1, <1>2, <3>2 DEF DynamicPaired
        <4>2. CASE u # t
          BY <1>1, <1>2, <1>4, <3>1, <3>2, <4>1, <4>2, PairedElsewhere
        <4>3. CASE u = t
          <5>1. P = <<>>
            <6>1. here \/ P = <<>>
              BY <2>0, <3>2 DEF OnDynamicReturn, Misses, P
            <6>2. P # <<>> => i # 0
              BY <1>0, <2>9
            <6>3. P # <<>> => Followed(t) /\ "c1" \in returnsAt
              BY <4>1 DEF ThreadPaired, Follows, P
            <6> QED BY <2>1, <6>1, <6>2, <6>3 DEF Matches
          <5> QED BY <3>1, <4>3, <5>1, PairNothing DEF ThreadPaired, P
        <4> QED BY <4>2, <4>3
      <3> QED BY <1>1, <1>2, <1>5, <3>1, <3>2 DEF DynamicPaired, PairType, DcpPaired
    <2>2. CASE "c1" \in returnsAt /\ Matches(t, here) /\ i # 0
      <3>1. /\ pendingReturns' = [pendingReturns EXCEPT ![t] = RemoveAt(P, i)]
            /\ mispaired' = (mispaired \/ P[i].id # f.id)
        BY <1>7, <2>0, <2>2 DEF OnDynamicReturn, P
      <3>2. i = Len(P) /\ P # <<>>
        BY <1>0, <2>2, <2>9
      <3>3. RemoveAt(P, i) = SubSeq(P, 1, Len(P) - 1)
        BY <1>0, <3>2, LastRemoved
      <3>4. /\ SubSeq(P, 1, Len(P) - 1) \in Seq(Frames)
            /\ \A h \in DOMAIN SubSeq(P, 1, Len(P) - 1) : SubSeq(P, 1, Len(P) - 1)[h].ra = "c1"
        <4>1. /\ Len(P) \in Nat \ {0} /\ DOMAIN P = 1..Len(P)
              /\ SubSeq(P, 1, Len(P) - 1) \in Seq(Frames)
              /\ DOMAIN SubSeq(P, 1, Len(P) - 1) = 1..Len(P) - 1
              /\ \A h \in 1..Len(P) - 1 : SubSeq(P, 1, Len(P) - 1)[h] = P[h]
          BY <1>0, <3>2
        <4> QED BY <2>9, <4>1
      <3>5. /\ pendingReturns'[t] = SubSeq(P, 1, Len(P) - 1)
            /\ pendingReturns' \in [KThreads -> Seq(Frames)]
            /\ \A u \in KThreads \ {t} : pendingReturns'[u] = pendingReturns[u]
        BY <3>1, <3>3, <3>4 DEF DynamicPaired, PairType
      <3>6. \A u \in KThreads : \A h \in DOMAIN pendingReturns'[u] : pendingReturns'[u][h].ra = "c1"
        BY <3>4, <3>5 DEF DynamicPaired
      <3>7. CASE moved
        BY <1>1, <1>2, <1>5, <2>0, <2>2, <3>1, <3>5, <3>6, <3>7 DEF DynamicPaired, PairType, DcpPaired
      <3>8. CASE ~moved
        <4>1. (\A u \in KThreads : ThreadPaired(u)) /\ ~trace.stopped
          BY <2>2, <3>8 DEF DynamicPaired, Matches, Followed
        <4>3. P[Len(P)] = f
          BY <1>0, <1>7, <3>2, <4>1, PairTop DEF ThreadPaired, P, K, f
        <4>4. mispaired' = mispaired
          BY <3>1, <3>2, <4>3 DEF DynamicPaired, PairType
        <4>5. Paired(SubSeq(P, 1, Len(P) - 1), SubSeq(K, 1, Len(K) - 1))
          BY <1>0, <3>2, <4>1, <4>3, PairPopBoth DEF ThreadPaired, P, K, f
        <4>6. Follows(t)'
          BY <1>1, <2>0, <3>2, <4>1 DEF ThreadPaired, Follows, Followed, P
        <4>7. ThreadPaired(t)'
          BY <1>4, <3>5, <4>5, <4>6 DEF ThreadPaired
        <4>8. ASSUME NEW u \in KThreads \ {t} PROVE ThreadPaired(u)'
          BY <1>1, <1>2, <1>4, <2>0, <3>5, <4>1, PairedElsewhere
        <4> QED BY <1>1, <1>2, <1>5, <3>5, <3>6, <4>4, <4>7, <4>8 DEF DynamicPaired, PairType, DcpPaired
      <3> QED BY <3>7, <3>8 DEF DynamicPaired, PairType
    <2> QED BY <2>1, <2>2
  <1> QED BY <1>3, <1>6, <1>7

LEMMA PairedStep ==
    ASSUME DynamicPaired, DynamicNext PROVE DynamicPaired'
  <1>1. PICK t \in KThreads, here \in BOOLEAN, late \in BOOLEAN :
          \/ entering[t] # Nowhere /\ KEnter(t, here, late)
          \/ \E c \in Clients : OnStage2Pre(t, c, here, late)
          \/ \E s \in DOMAIN GoesTo, null \in BOOLEAN : OnIndirectCall(t, s, here, late, null)
          \/ KReturn(t, here, late, FALSE) \/ KReturn(t, here, late, TRUE)
          \/ OnWaitPrimitive(t, here, late, TRUE)
          \/ \E c \in Clients : OnAfkState(t, c, here)
          \/ \E c \in Clients : OnAfkRequest(t, c)
          \/ OnTransition(t, here)
    BY DEF DynamicNext
  <1> QED BY <1>1, PairedEnter, PairedStage2, PairedIndirect, PairedReturn, PairedAfk, PairedFilter

(* smmachine. *)

MachineType ==
    /\ moved \in BOOLEAN /\ mispaired \in BOOLEAN
    /\ kstack \in [KThreads -> Seq(Frames)] /\ pendingReturns \in [KThreads -> Seq(Frames)]
    /\ hitsOf \in [pre : Nat, ret : Nat]
    /\ bracket \in [KThreads -> [context : BOOLEAN, first : Nat, action : Nat]]

Helpers == {"first", "action"}

\* One frame with return address s at most.
Single(q, s) == \A i, j \in DOMAIN q : q[i].ra = s /\ q[j].ra = s => i = j

\* While on_stage2_return is enabled and no thread entered stage 2 twice, the
\* queue of a thread holds nothing but the operation the thread is in.
QueueOpen(t) ==
    pendingReturns[t] = <<>> \/ \E i \in DOMAIN kstack[t] :
        kstack[t][i].ra = "stage2" /\ pendingReturns[t] = <<kstack[t][i]>>

\* An entry of a *_PENDING dict is the open call of the helper.
BracketOpen(t, k) ==
    bracket[t][k] # 0 => \E i \in DOMAIN kstack[t] :
        kstack[t][i].ra = k /\ kstack[t][i].id = bracket[t][k]

MachinePaired ==
    /\ MachineType
    /\ \A t \in KThreads : \A i \in DOMAIN kstack[t] : kstack[t][i].ra \in {"stage2"} \cup Helpers
    /\ ~moved => \A t \in KThreads : Single(kstack[t], "stage2")
    /\ ~moved /\ hitsOf.ret < StageLimit => \A t \in KThreads : QueueOpen(t)
    /\ ~moved => \A t \in KThreads, k \in Helpers : Single(kstack[t], k) /\ BracketOpen(t, k)
    /\ DcpPaired

\* The frames of a shortened stack.
LEMMA PopFacts ==
    ASSUME NEW q \in Seq(Frames), q # <<>>
    PROVE  LET r == SubSeq(q, 1, Len(q) - 1)
           IN  /\ r \in Seq(Frames) /\ Len(q) \in DOMAIN q /\ q[Len(q)] \in Frames
               /\ \A i \in DOMAIN r : i \in DOMAIN q /\ r[i] = q[i] /\ i # Len(q)
               /\ \A i \in DOMAIN q : i # Len(q) => i \in DOMAIN r /\ r[i] = q[i]
  OBVIOUS

LEMMA PushFacts ==
    ASSUME NEW q \in Seq(Frames), NEW e \in Frames
    PROVE  LET r == Append(q, e)
           IN  /\ r \in Seq(Frames) /\ Len(q) + 1 \in DOMAIN r /\ r[Len(q) + 1] = e
               /\ \A i \in DOMAIN r : (i \in DOMAIN q /\ r[i] = q[i]) \/ (i = Len(q) + 1 /\ r[i] = e)
               /\ \A i \in DOMAIN q : i \in DOMAIN r /\ r[i] = q[i]
  <1> DEFINE r == Append(q, e)
  <1>1. r \in Seq(Frames) /\ Len(q) \in Nat /\ DOMAIN q = 1..Len(q) /\ DOMAIN r = 1..Len(q) + 1
    OBVIOUS
  <1>2. (\A i \in 1..Len(q) : r[i] = q[i]) /\ r[Len(q) + 1] = e
    OBVIOUS
  <1> HIDE DEF r
  <1>3. \A i \in DOMAIN r : (i \in DOMAIN q /\ r[i] = q[i]) \/ (i = Len(q) + 1 /\ r[i] = e)
    BY <1>1, <1>2
  <1>4. \A i \in DOMAIN q : i \in DOMAIN r /\ r[i] = q[i]
    BY <1>1, <1>2
  <1>5. Len(q) + 1 \in DOMAIN r
    BY <1>1
  <1> QED BY <1>1, <1>2, <1>3, <1>4, <1>5 DEF r

LEMMA SinglePush ==
    ASSUME NEW q \in Seq(Frames), NEW e \in Frames, NEW s, Single(q, s),
           e.ra = s => \A i \in DOMAIN q : q[i].ra # s
    PROVE  Single(Append(q, e), s)
  <1> DEFINE r == Append(q, e)
  <1>1. \A i \in DOMAIN r : (i \in DOMAIN q /\ r[i] = q[i]) \/ (i = Len(q) + 1 /\ r[i] = e)
    BY PushFacts
  <1> HIDE DEF r
  <1>2. Single(r, s)
    BY <1>1 DEF Single
  <1> QED BY <1>2 DEF r

LEMMA SinglePop ==
    ASSUME NEW q \in Seq(Frames), NEW s, Single(q, s), q # <<>>
    PROVE  Single(SubSeq(q, 1, Len(q) - 1), s)
  BY DEF Single

\* What the other threads have is left alone.
MachineThread(u) ==
    /\ kstack[u] \in Seq(Frames) /\ pendingReturns[u] \in Seq(Frames)
    /\ bracket[u] \in [context : BOOLEAN, first : Nat, action : Nat]
    /\ \A i \in DOMAIN kstack[u] : kstack[u][i].ra \in {"stage2"} \cup Helpers
    /\ ~moved => Single(kstack[u], "stage2")
    /\ ~moved /\ hitsOf.ret < StageLimit => QueueOpen(u)
    /\ ~moved => \A k \in Helpers : Single(kstack[u], k) /\ BracketOpen(u, k)

LEMMA MachineThreads ==
    MachinePaired => \A u \in KThreads : MachineThread(u)
  BY DEF MachinePaired, MachineType, MachineThread

LEMMA MachineTogether ==
    ASSUME MachinePaired, \A u \in KThreads : MachineThread(u)', NEW t \in KThreads,
           \E x : kstack' = [kstack EXCEPT ![t] = x],
           \E x : pendingReturns' = [pendingReturns EXCEPT ![t] = x],
           \E x : bracket' = [bracket EXCEPT ![t] = x],
           moved' \in BOOLEAN, mispaired' \in BOOLEAN, hitsOf' \in [pre : Nat, ret : Nat],
           DcpPaired'
    PROVE  MachinePaired'
  <1>1. /\ kstack' = [u \in KThreads |-> kstack'[u]]
        /\ pendingReturns' = [u \in KThreads |-> pendingReturns'[u]]
        /\ bracket' = [u \in KThreads |-> bracket'[u]]
    BY DEF MachinePaired, MachineType
  <1>2. MachineType'
    BY <1>1 DEF MachineType, MachineThread
  <1> QED BY <1>2 DEF MachinePaired, MachineThread

LEMMA MachineElsewhere ==
    ASSUME NEW u \in KThreads, MachineThread(u), kstack'[u] = kstack[u],
           pendingReturns'[u] = pendingReturns[u], bracket'[u] = bracket[u],
           moved => moved', hitsOf'.ret < StageLimit => hitsOf.ret < StageLimit
    PROVE  MachineThread(u)'
  BY DEF MachineThread, QueueOpen, BracketOpen, Single

LEMMA MachineStage2 ==
    ASSUME MachinePaired, NEW t \in KThreads, MStage2Pre(t)
    PROVE  MachinePaired'
  <1> DEFINE e == [ra |-> "stage2", id |-> NewId(t)]
             K == kstack[t]
  <1>1. MachineThread(t) /\ (\A u \in KThreads : MachineThread(u)) /\ hitsOf \in [pre : Nat, ret : Nat]
    BY MachineThreads DEF MachinePaired, MachineType
  <1>2. K \in Seq(Frames) /\ pendingReturns[t] \in Seq(Frames)
    BY <1>1 DEF MachineThread
  <1>3. e \in Frames /\ e.ra = "stage2"
    BY <1>2, NewIdIsNew DEF Frames
  <1>4. /\ kstack' = [kstack EXCEPT ![t] = Append(K, e)] /\ UNCHANGED <<bracket, mispaired>>
        /\ hitsOf' \in [pre : Nat, ret : Nat] /\ hitsOf'.ret = hitsOf.ret
        /\ \/ UNCHANGED pendingReturns
           \/ pendingReturns' = [pendingReturns EXCEPT ![t] = Append(@, e)]
    BY <1>1 DEF MStage2Pre, Push
  <1>5. moved' \in BOOLEAN /\ (moved => moved') /\ (~moved' => \A i \in DOMAIN K : K[i].ra # "stage2")
    BY DEF MStage2Pre, Reenters, OpenFrames, MachinePaired, MachineType
  <1>6. kstack'[t] = Append(K, e) /\ bracket'[t] = bracket[t]
        /\ (pendingReturns'[t] = pendingReturns[t] \/ pendingReturns'[t] = Append(pendingReturns[t], e))
    BY <1>4 DEF MachinePaired, MachineType
  <1>7. ASSUME NEW u \in KThreads \ {t} PROVE MachineThread(u)'
    <2>1. kstack'[u] = kstack[u] /\ pendingReturns'[u] = pendingReturns[u]
      BY <1>4 DEF MachinePaired, MachineType
    <2> QED BY <1>1, <1>4, <1>5, <2>1, MachineElsewhere
  <1> HIDE DEF e, K
  <1>8. MachineThread(t)'
    <2> DEFINE L == Append(K, e)
    <2>1. /\ L \in Seq(Frames) /\ Len(K) + 1 \in DOMAIN L /\ L[Len(K) + 1] = e
          /\ \A i \in DOMAIN L : (i \in DOMAIN K /\ L[i] = K[i]) \/ (i = Len(K) + 1 /\ L[i] = e)
          /\ \A i \in DOMAIN K : i \in DOMAIN L /\ L[i] = K[i]
      BY <1>2, <1>3, PushFacts
    <2>2. ~moved' => Single(L, "stage2")
      BY <1>1, <1>2, <1>3, <1>5, SinglePush DEF MachineThread, K
    <2>3. ~moved' => \A k \in Helpers : Single(L, k)
      BY <1>1, <1>2, <1>3, <1>5, SinglePush DEF MachineThread, K, Helpers
    <2>4. pendingReturns'[t] \in Seq(Frames)
      <3>1. Append(pendingReturns[t], e) \in Seq(Frames)
        BY <1>2, <1>3
      <3> QED BY <1>2, <1>6, <3>1
    <2> HIDE DEF L
    <2>5. \A i \in DOMAIN L : L[i].ra \in {"stage2"} \cup Helpers
      BY <1>1, <1>3, <2>1 DEF MachineThread, K
    <2>6. ~moved' /\ hitsOf.ret < StageLimit => QueueOpen(t)'
      <3> SUFFICES ASSUME ~moved', hitsOf.ret < StageLimit PROVE QueueOpen(t)'
        OBVIOUS
      <3>1. pendingReturns[t] = <<>>
        BY <1>1, <1>5 DEF MachineThread, QueueOpen, K
      <3>2. pendingReturns'[t] = <<>> \/ pendingReturns'[t] = <<e>>
        BY <1>6, <3>1
      <3> QED BY <1>3, <1>6, <2>1, <3>2 DEF QueueOpen, L
    <2>7. ~moved' => \A k \in Helpers : BracketOpen(t, k)'
      BY <1>1, <1>5, <1>6, <2>1 DEF MachineThread, BracketOpen, K, L
    <2>8. kstack'[t] = L /\ bracket'[t] \in [context : BOOLEAN, first : Nat, action : Nat]
      BY <1>1, <1>6 DEF L, MachineThread
    <2> QED BY <1>4, <2>1, <2>2, <2>3, <2>4, <2>5, <2>6, <2>7, <2>8 DEF MachineThread
  <1>9. \A u \in KThreads : MachineThread(u)'
    BY <1>7, <1>8
  <1>10. /\ \E x : kstack' = [kstack EXCEPT ![t] = x]
         /\ \E x : pendingReturns' = [pendingReturns EXCEPT ![t] = x]
         /\ \E x : bracket' = [bracket EXCEPT ![t] = x]
    <2>1. /\ pendingReturns = [pendingReturns EXCEPT ![t] = pendingReturns[t]]
          /\ bracket = [bracket EXCEPT ![t] = bracket[t]]
      BY DEF MachinePaired, MachineType
    <2> QED BY <1>4, <2>1
  <1> QED BY <1>4, <1>5, <1>9, <1>10, MachineTogether DEF DcpPaired, MachinePaired, MachineType

LEMMA MachineBracket ==
    ASSUME MachinePaired, NEW t \in KThreads, NEW k \in Helpers, NEW own \in BOOLEAN,
           MBracketCall(t, k, own)
    PROVE  MachinePaired'
  <1> DEFINE e == [ra |-> k, id |-> NewId(t)]
             K == kstack[t]
  <1>1. MachineThread(t) /\ (\A u \in KThreads : MachineThread(u))
    BY MachineThreads DEF MachinePaired, MachineType
  <1>2. K \in Seq(Frames) /\ pendingReturns[t] \in Seq(Frames)
    BY <1>1 DEF MachineThread
  <1>3. e \in Frames /\ e.ra = k /\ e.id = NewId(t) /\ NewId(t) \in Nat
    BY <1>2, NewIdIsNew DEF Frames, Helpers
  <1>4. /\ kstack' = [kstack EXCEPT ![t] = Append(K, e)]
        /\ UNCHANGED <<pendingReturns, mispaired, hitsOf>>
        /\ moved' = (moved \/ OpenFrames(t, k) # {})
        /\ UNCHANGED bracket \/ bracket' = [bracket EXCEPT ![t][k] = NewId(t)]
    BY DEF MBracketCall, Push, Reenters
  <1>5. moved' \in BOOLEAN /\ (moved => moved') /\ (~moved' => \A i \in DOMAIN K : K[i].ra # k)
    BY <1>4 DEF OpenFrames, MachinePaired, MachineType
  <1>6. kstack'[t] = Append(K, e) /\ pendingReturns'[t] = pendingReturns[t]
        /\ (bracket'[t] = bracket[t] \/ bracket'[t] = [bracket[t] EXCEPT ![k] = NewId(t)])
    BY <1>4 DEF MachinePaired, MachineType
  <1>7. ASSUME NEW u \in KThreads \ {t} PROVE MachineThread(u)'
    <2>1. kstack'[u] = kstack[u] /\ bracket'[u] = bracket[u]
      BY <1>4 DEF MachinePaired, MachineType
    <2> QED BY <1>1, <1>4, <1>5, <2>1, MachineElsewhere
  <1> HIDE DEF e, K
  <1>8. MachineThread(t)'
    <2> DEFINE L == Append(K, e)
    <2>1. /\ L \in Seq(Frames) /\ Len(K) + 1 \in DOMAIN L /\ L[Len(K) + 1] = e
          /\ \A i \in DOMAIN L : (i \in DOMAIN K /\ L[i] = K[i]) \/ (i = Len(K) + 1 /\ L[i] = e)
          /\ \A i \in DOMAIN K : i \in DOMAIN L /\ L[i] = K[i]
      BY <1>2, <1>3, PushFacts
    <2>2. ~moved' => Single(L, "stage2")
      BY <1>1, <1>2, <1>3, <1>5, SinglePush DEF MachineThread, K, Helpers
    <2>3. ~moved' => \A h \in Helpers : Single(L, h)
      BY <1>1, <1>2, <1>3, <1>5, SinglePush DEF MachineThread, K
    <2> HIDE DEF L
    <2>5. \A i \in DOMAIN L : L[i].ra \in {"stage2"} \cup Helpers
      BY <1>1, <1>3, <2>1 DEF MachineThread, K
    <2>6. ~moved' /\ hitsOf.ret < StageLimit => QueueOpen(t)'
      BY <1>1, <1>5, <1>6, <2>1 DEF QueueOpen, L, K, MachineThread
    <2>7. ASSUME ~moved', NEW h \in Helpers PROVE BracketOpen(t, h)'
      <3>1. BracketOpen(t, h) /\ (\A i \in DOMAIN K : K[i].ra # k)
        BY <1>1, <1>5, <2>7 DEF MachineThread
      <3>2. kstack'[t] = L
        BY <1>6 DEF L
      <3>3. CASE bracket'[t][h] = bracket[t][h]
        BY <2>1, <3>1, <3>2, <3>3 DEF BracketOpen, K
      <3>4. CASE bracket'[t][h] = NewId(t) /\ h = k
        BY <1>3, <2>1, <3>2, <3>4 DEF BracketOpen
      <3> QED BY <1>1, <1>6, <3>3, <3>4 DEF MachineThread, Helpers
    <2>8. kstack'[t] = L /\ bracket'[t] \in [context : BOOLEAN, first : Nat, action : Nat]
      BY <1>1, <1>3, <1>6 DEF L, MachineThread, Helpers
    <2> QED BY <1>2, <1>4, <1>6, <2>1, <2>2, <2>3, <2>5, <2>6, <2>7, <2>8 DEF MachineThread
  <1>9. \A u \in KThreads : MachineThread(u)'
    BY <1>7, <1>8
  <1>10. /\ \E x : kstack' = [kstack EXCEPT ![t] = x]
         /\ \E x : pendingReturns' = [pendingReturns EXCEPT ![t] = x]
         /\ \E x : bracket' = [bracket EXCEPT ![t] = x]
    <2>1. /\ pendingReturns = [pendingReturns EXCEPT ![t] = pendingReturns[t]]
          /\ bracket = [bracket EXCEPT ![t] = bracket[t]]
      BY DEF MachinePaired, MachineType
    <2> QED BY <1>4, <2>1
  <1> QED BY <1>4, <1>5, <1>9, <1>10, MachineTogether DEF DcpPaired, MachinePaired, MachineType

LEMMA MachineTail ==
    ASSUME MachinePaired, NEW t \in KThreads, MTailBoundary(t), UNCHANGED moved
    PROVE  MachinePaired'
  <1>1. /\ bracket' = [bracket EXCEPT ![t].context = TRUE]
        /\ UNCHANGED <<hitsOf, pendingReturns, kstack, mispaired, moved>>
    BY DEF MTailBoundary
  <1>2. /\ bracket' \in [KThreads -> [context : BOOLEAN, first : Nat, action : Nat]]
        /\ \A u \in KThreads, k \in Helpers : bracket'[u][k] = bracket[u][k]
    BY <1>1 DEF MachinePaired, MachineType, Helpers
  <1>3. \A u \in KThreads, k \in Helpers : BracketOpen(u, k) => BracketOpen(u, k)'
    BY <1>1, <1>2 DEF BracketOpen
  <1> QED BY <1>1, <1>2, <1>3 DEF MachinePaired, MachineType, QueueOpen, DcpPaired

LEMMA MachineReturn ==
    ASSUME MachinePaired, NEW t \in KThreads, MReturns(t), UNCHANGED moved
    PROVE  MachinePaired'
  <1> DEFINE K == kstack[t]
             P == pendingReturns[t]
             f == K[Len(K)]
             L == SubSeq(K, 1, Len(K) - 1)
  <1>1. MachineThread(t) /\ (\A u \in KThreads : MachineThread(u)) /\ hitsOf \in [pre : Nat, ret : Nat]
    BY MachineThreads DEF MachinePaired, MachineType
  <1>2. K \in Seq(Frames) /\ P \in Seq(Frames) /\ K # <<>>
    BY <1>1 DEF MachineThread, MReturns
  <1>3. /\ L \in Seq(Frames) /\ Len(K) \in DOMAIN K /\ f \in Frames
        /\ \A i \in DOMAIN L : i \in DOMAIN K /\ L[i] = K[i] /\ i # Len(K)
        /\ \A i \in DOMAIN K : i # Len(K) => i \in DOMAIN L /\ L[i] = K[i]
    BY <1>2, PopFacts
  <1>4. kstack' = [kstack EXCEPT ![t] = L]
    BY DEF MReturns
  <1>5. kstack'[t] = L /\ \A u \in KThreads \ {t} : kstack'[u] = kstack[u]
    BY <1>4 DEF MachinePaired, MachineType
  <1>6. (~moved => Single(L, "stage2")) /\ (~moved => \A k \in Helpers : Single(L, k))
    BY <1>1, <1>2, SinglePop DEF MachineThread
  <1>7. (\A i \in DOMAIN L : L[i].ra \in {"stage2"} \cup Helpers) /\ f.ra \in {"stage2"} \cup Helpers
    BY <1>1, <1>3 DEF MachineThread
  <1>8. \E x : kstack' = [kstack EXCEPT ![t] = x]
    BY <1>4
  <1>9. IF f.ra = "stage2" THEN MStage2Return(t, f) /\ UNCHANGED bracket ELSE MBracketReturn(t, f)
    BY DEF MReturns
  <1> HIDE DEF K, P, f, L
  <1>10. CASE f.ra = "stage2"
    <2>0. MStage2Return(t, f) /\ UNCHANGED bracket
      BY <1>9, <1>10
    <2>1. /\ \/ UNCHANGED <<pendingReturns, mispaired>>
             \/ /\ hitsOf.ret < StageLimit /\ P # <<>>
                /\ pendingReturns' = [pendingReturns EXCEPT ![t] = Tail(P)]
                /\ mispaired' = (mispaired \/ Head(P).id # f.id)
          /\ hitsOf' \in [pre : Nat, ret : Nat] /\ hitsOf'.ret >= hitsOf.ret
      BY <1>1, <2>0 DEF MStage2Return, P
    <2>2. hitsOf'.ret < StageLimit => hitsOf.ret < StageLimit
      BY <1>1, <2>1, DcpAssumption
    <2>3. ~moved /\ hitsOf.ret < StageLimit /\ P # <<>> => P = <<f>>
      <3> SUFFICES ASSUME ~moved, hitsOf.ret < StageLimit, P # <<>> PROVE P = <<f>>
        OBVIOUS
      <3>1. PICK i \in DOMAIN K : K[i].ra = "stage2" /\ P = <<K[i]>>
        BY <1>1 DEF MachineThread, QueueOpen, K, P
      <3>2. i = Len(K)
        BY <1>1, <1>3, <1>10, <3>1 DEF MachineThread, Single, K, f
      <3> QED BY <3>1, <3>2 DEF f
    <2>4. CASE hitsOf.ret < StageLimit /\ P # <<>>
      <3>0. \A x \in Frames : Head(<<x>>) = x /\ Tail(<<x>>) = <<>>
        OBVIOUS
      <3>1. ~moved => Head(P) = f /\ Tail(P) = <<>>
        BY <1>3, <2>3, <2>4, <3>0
      <3>8. Tail(P) \in Seq(Frames)
        BY <1>2, <2>4
      <3>2. /\ pendingReturns' = [pendingReturns EXCEPT ![t] = Tail(P)]
            /\ mispaired' \in BOOLEAN /\ (~moved => mispaired' = mispaired)
        BY <2>0, <2>4, <3>1 DEF MStage2Return, P, MachinePaired, MachineType
      <3>3. pendingReturns'[t] = Tail(P) /\ \A u \in KThreads \ {t} : pendingReturns'[u] = pendingReturns[u]
        BY <3>2 DEF MachinePaired, MachineType
      <3>4. ASSUME NEW u \in KThreads \ {t} PROVE MachineThread(u)'
        BY <1>1, <1>5, <2>0, <2>2, <3>3, MachineElsewhere
      <3>5. \A k \in Helpers : BracketOpen(t, k) => BracketOpen(t, k)'
        BY <1>3, <1>5, <1>10, <2>0 DEF BracketOpen, K, f, Helpers
      <3>6. MachineThread(t)'
        BY <1>1, <1>3, <1>5, <1>6, <1>7, <2>0, <3>1, <3>3, <3>5, <3>8 DEF MachineThread, QueueOpen
      <3>7. \E x : bracket' = [bracket EXCEPT ![t] = x]
        BY <2>0 DEF MachinePaired, MachineType
      <3> QED BY <1>8, <2>1, <3>2, <3>4, <3>6, <3>7, MachineTogether DEF DcpPaired, MachinePaired, MachineType
    <2>5. CASE ~(hitsOf.ret < StageLimit /\ P # <<>>)
      <3>2. UNCHANGED <<pendingReturns, mispaired>>
        BY <2>1, <2>5
      <3>4. ASSUME NEW u \in KThreads \ {t} PROVE MachineThread(u)'
        BY <1>1, <1>5, <2>0, <2>2, <3>2, MachineElsewhere
      <3>5. \A k \in Helpers : BracketOpen(t, k) => BracketOpen(t, k)'
        BY <1>3, <1>5, <1>10, <2>0 DEF BracketOpen, K, f, Helpers
      <3>6. MachineThread(t)'
        BY <1>1, <1>3, <1>5, <1>6, <1>7, <2>0, <2>2, <2>5, <3>2, <3>5 DEF MachineThread, QueueOpen, P
      <3>7. /\ \E x : bracket' = [bracket EXCEPT ![t] = x]
            /\ \E x : pendingReturns' = [pendingReturns EXCEPT ![t] = x]
        BY <2>0, <3>2 DEF MachinePaired, MachineType
      <3> QED BY <1>8, <2>1, <3>2, <3>4, <3>6, <3>7, MachineTogether DEF DcpPaired, MachinePaired, MachineType
    <2> QED BY <2>4, <2>5
  <1>11. CASE f.ra \in Helpers
    <2>0. /\ bracket' = [bracket EXCEPT ![t][f.ra] = 0]
          /\ mispaired' = (mispaired \/ bracket[t][f.ra] \notin {0, f.id})
          /\ UNCHANGED <<hitsOf, pendingReturns>>
      BY <1>9, <1>11 DEF MBracketReturn, Helpers
    <2>1. /\ bracket'[t] = [bracket[t] EXCEPT ![f.ra] = 0]
          /\ \A u \in KThreads \ {t} : bracket'[u] = bracket[u]
      BY <2>0 DEF MachinePaired, MachineType
    <2>2. /\ bracket'[t] \in [context : BOOLEAN, first : Nat, action : Nat]
          /\ bracket'[t][f.ra] = 0 /\ \A k \in Helpers \ {f.ra} : bracket'[t][k] = bracket[t][k]
      <3>1. bracket[t] \in [context : BOOLEAN, first : Nat, action : Nat]
        BY <1>1 DEF MachineThread
      <3>2. CASE f.ra = "first"
        <4>1. bracket'[t] = [bracket[t] EXCEPT !.first = 0]
          BY <2>1, <3>2
        <4> QED BY <3>1, <3>2, <4>1 DEF Helpers
      <3>3. CASE f.ra = "action"
        <4>1. bracket'[t] = [bracket[t] EXCEPT !.action = 0]
          BY <2>1, <3>3
        <4> QED BY <3>1, <3>3, <4>1 DEF Helpers
      <3> QED BY <1>11, <3>2, <3>3 DEF Helpers
    <2>3. ASSUME ~moved PROVE mispaired' = mispaired
      <3>1. BracketOpen(t, f.ra) /\ Single(K, f.ra)
        BY <1>1, <1>11, <2>3 DEF MachineThread, K
      <3>2. bracket[t][f.ra] \in {0, f.id}
        BY <1>3, <3>1 DEF BracketOpen, Single, K, f
      <3> QED BY <2>0, <3>2 DEF MachinePaired, MachineType
    <2>4. ASSUME NEW u \in KThreads \ {t} PROVE MachineThread(u)'
      BY <1>1, <1>5, <2>0, <2>1, MachineElsewhere
    <2>5. \A k \in Helpers : BracketOpen(t, k) => BracketOpen(t, k)'
      BY <1>3, <1>5, <2>2 DEF BracketOpen, K, f
    <2>6. ~moved /\ hitsOf.ret < StageLimit => QueueOpen(t)'
      BY <1>1, <1>3, <1>5, <1>11, <2>0 DEF MachineThread, QueueOpen, K, f, Helpers
    <2>7. MachineThread(t)'
      BY <1>1, <1>3, <1>5, <1>6, <1>7, <2>0, <2>2, <2>5, <2>6 DEF MachineThread
    <2>8. /\ \E x : bracket' = [bracket EXCEPT ![t] = x]
          /\ \E x : pendingReturns' = [pendingReturns EXCEPT ![t] = x]
      BY <2>0 DEF MachinePaired, MachineType
    <2>9. mispaired' \in BOOLEAN /\ DcpPaired'
      BY <2>0, <2>3 DEF MachinePaired, MachineType, DcpPaired
    <2> QED BY <1>1, <1>8, <2>0, <2>4, <2>7, <2>8, <2>9, MachineTogether DEF MachinePaired, MachineType
  <1> QED BY <1>7, <1>10, <1>11

\* The script a session runs decides which of the two invariants holds.
PairedInv ==
    /\ tool = "smdynamic" => DynamicPaired
    /\ tool = "smmachine" => MachinePaired
    /\ DcpPaired

LEMMA PairedInitially == Init => PairedInv
  <1> SUFFICES ASSUME Init PROVE PairedInv
    OBVIOUS
  <1> USE DEF Init, DcpInit
  <1>1. /\ kstack = [t \in KThreads |-> <<>>] /\ pendingReturns = [t \in KThreads |-> <<>>]
        /\ kstack \in [KThreads -> Seq(Frames)] /\ pendingReturns \in [KThreads -> Seq(Frames)]
    OBVIOUS
  <1>2. PairType
    BY <1>1 DEF PairType, TraceType
  <1>3. \A t \in KThreads : ThreadPaired(t)
    BY <1>1, PairNothing DEF ThreadPaired
  <1>4. DynamicPaired
    BY <1>1, <1>2, <1>3 DEF DynamicPaired, DcpPaired
  <1>5. MachineType
    BY <1>1 DEF MachineType
  <1>6. MachinePaired
    BY <1>1, <1>5 DEF MachinePaired, DcpPaired, Single, QueueOpen, BracketOpen, Helpers
  <1> QED BY <1>4, <1>6 DEF PairedInv, DcpPaired

LEMMA PairedNext == PairedInv /\ [Next]_vars => PairedInv'
  <1> SUFFICES ASSUME PairedInv, [Next]_vars PROVE PairedInv'
    OBVIOUS
  <1>1. CASE UNCHANGED <<tool, dcpVars>>
    BY <1>1 DEF PairedInv, dcpVars, DynamicPaired, MachinePaired, PairType, MachineType, DcpPaired,
                ThreadPaired, Follows, Followed, QueueOpen, BracketOpen
  <1>2. CASE DynamicNext /\ UNCHANGED tool
    <2>1. tool = "smdynamic" /\ DynamicPaired'
      BY <1>2, PairedStep DEF DynamicNext, PairedInv
    <2> QED BY <1>2, <2>1 DEF PairedInv, DynamicPaired
  <1>3. CASE MachineNext /\ UNCHANGED tool
    <2>1. tool = "smmachine" /\ MachinePaired
      BY <1>3 DEF MachineNext, PairedInv
    <2>2. MachinePaired'
      BY <1>3, <2>1, MachineStage2, MachineTail, MachineReturn, MachineBracket DEF MachineNext, Helpers
    <2> QED BY <1>3, <2>1, <2>2 DEF PairedInv, MachinePaired
  <1> QED BY <1>1, <1>2, <1>3 DEF Next, vars, DcpNext

\* For any threads, clients, depths and limits, a return is reported for the
\* call it ends, through recursion, tail calls, unplanted sites, entries missed
\* on another vCPU and disabled sites, until the script loses sight of a call:
\* the origin moved away from a thread with pending returns, or made or returned
\* from an indirect call on another vCPU while returns were pending, or a thread
\* entered stage 2 or a work-loop helper again inside it.
THEOREM DcpIsPaired == Spec => []DcpPaired
  <1>1. PairedInv => DcpPaired
    BY DEF PairedInv
  <1> QED BY <1>1, PairedInitially, PairedNext, PTL DEF Spec

-----------------------------------------------------------------------------
(* The scripts that pair the entry of a call with its return. *)

Calling == [lr : Lrs, id : Nat, tail : BOOLEAN]
Entries == [id : Nat, lr : Lrs \cup {0}]

\* Only finitely many numbers are in use, whatever the set of threads.
RetType ==
    /\ stack \in [Threads -> Seq(Calling)] /\ active \in [Threads -> Seq(Entries)]
    /\ wrong \in BOOLEAN /\ IsFiniteSet(InUse)

LEMMA FreshIsNew ==
    ASSUME IsFiniteSet(InUse) PROVE Fresh \in Nat \ {0} /\ Fresh \notin InUse
  <1>1. Fresh \in 1..Cardinality(InUse) + 1 /\ Fresh \notin InUse
    BY UnusedNumber DEF Fresh
  <1>2. Cardinality(InUse) \in Nat
    BY FS_CardinalityType
  <1> QED BY <1>1, <1>2

LEMMA InUseFinite ==
    ASSUME IsFiniteSet(InUse), NEW x,
           \A t \in Threads : Open(t)' \subseteq Open(t) \cup {x} /\ Kept(t)' \subseteq Kept(t) \cup {x},
           {r.id : r \in rets'} \subseteq {r.id : r \in rets} \cup {x}
    PROVE  IsFiniteSet(InUse')
  <1>1. ASSUME NEW y \in InUse' PROVE y \in InUse \cup {x}
    <2>1. CASE y \in {r.id : r \in rets'}
      BY <2>1 DEF InUse
    <2>2. ASSUME NEW t \in Threads, y \in Open(t)' \cup Kept(t)' PROVE y \in InUse \cup {x}
      <3>1. y \in Open(t) \cup Kept(t) \cup {x}
        BY <2>2
      <3> QED BY <3>1 DEF InUse
    <2> QED BY <1>1, <2>1, <2>2 DEF InUse
  <1>2. IsFiniteSet(InUse \cup {x})
    BY FS_AddElement
  <1>3. InUse' \subseteq InUse \cup {x}
    BY <1>1
  <1> QED BY <1>2, <1>3, FS_Subset

\* Pushing and popping.
LEMMA PushCall ==
    ASSUME NEW S, NEW q \in Seq(S), NEW e \in S
    PROVE  /\ Append(q, e) \in Seq(S) /\ DOMAIN Append(q, e) = 1..Len(q) + 1
           /\ DOMAIN q = 1..Len(q) /\ Len(q) \in Nat
           /\ Len(Append(q, e)) = Len(q) + 1
           /\ Append(q, e)[Len(q) + 1] = e
           /\ \A i \in 1..Len(q) : Append(q, e)[i] = q[i]
  OBVIOUS

LEMMA PopCalls ==
    ASSUME NEW S, NEW q \in Seq(S), NEW n \in 1..Len(q)
    PROVE  /\ SubSeq(q, 1, n - 1) \in Seq(S) /\ DOMAIN SubSeq(q, 1, n - 1) = 1..n - 1
           /\ DOMAIN q = 1..Len(q) /\ Len(q) \in Nat
           /\ Len(SubSeq(q, 1, n - 1)) = n - 1
           /\ \A i \in 1..n - 1 : SubSeq(q, 1, n - 1)[i] = q[i] /\ i \in DOMAIN q
  OBVIOUS

(* The scripts with a return watch per call. *)

ByThread == {"iokit", "aks", "fairplay"}

\* Where call j of a thread ends: the calls from i on return together with it.
Tails(t, i, j) == \A h \in i + 1..j : stack[t][h].tail

\* A watch belongs to an open call, and a recorded call has its watch; two
\* calls of a thread have one return address only along a chain of tail calls.
ThreadWatched(t) ==
    /\ \A i \in DOMAIN stack[t] : stack[t][i].id # 0 => \E r \in rets : r.id = stack[t][i].id
    /\ \A i, j \in DOMAIN stack[t] : i < j => (stack[t][i].lr = stack[t][j].lr <=> Tails(t, i, j))
    /\ \A j \in DOMAIN stack[t] : \E i \in 1..j : ~stack[t][i].tail /\ Tails(t, i, j)

WatchedInv ==
    /\ RetType /\ ~wrong /\ active = [t \in Threads |-> <<>>]
    /\ \A r \in rets : /\ r.tp \in Threads /\ r.id # 0
                       /\ \E j \in DOMAIN stack[r.tp] :
                             stack[r.tp][j].id = r.id /\ stack[r.tp][j].lr = r.lr
    /\ \A t, u \in Threads : \A i \in DOMAIN stack[t], j \in DOMAIN stack[u] :
          stack[t][i].id = stack[u][j].id /\ stack[t][i].id # 0 => t = u /\ i = j
    /\ \A t \in Threads : ThreadWatched(t)

\* An entry callback records the call or does not.
Recorded(t, lr, id) ==
    \/ id = 0 /\ UNCHANGED rets
    \/ /\ id = Fresh
       /\ \E name \in Programs \cup {Unreadable} :
             rets' = rets \cup {[id |-> id, lr |-> lr, tp |-> t, prog |-> name, hits |-> 0]}

LEMMA EntryRecords ==
    ASSUME tool \in ByThread, NEW t \in Threads, NEW lr, NEW name \in Names(t), NEW id,
           Entry(t, lr, name, id)
    PROVE  Recorded(t, lr, id) /\ UNCHANGED active
  <1>1. name \in Programs \cup {Unreadable}
    BY LldbAssumption DEF Names
  <1> USE DEF ByThread
  <1>2. CASE IokitEntry(t, lr, name, id)
    BY <1>1, <1>2 DEF IokitEntry, Unrecorded, Recorded
  <1>3. CASE AksEntry(t, lr, name, id)
    BY <1>1, <1>3 DEF AksEntry, Unrecorded, Recorded
  <1>4. CASE FairplayEntry(t, lr, name, id)
    BY <1>1, <1>4 DEF FairplayEntry, Unrecorded, Recorded
  <1> USE DEF Lsd
  <1> QED BY <1>2, <1>3, <1>4 DEF Entry, StallEntry, PortEntry, OpenEntry, LsdEntry, Sks142Entry,
             Sks7Entry, Op10Entry

LEMMA WatchedCall ==
    ASSUME WatchedInv, NEW t \in Threads, NEW lr \in Lrs, NEW id, NEW e \in Calling,
           e.lr = lr, e.id = id, Recorded(t, lr, id), UNCHANGED <<active, wrong>>,
           stack' = [stack EXCEPT ![t] = Append(@, e)],
           e.tail = FALSE => \A i \in DOMAIN stack[t] : stack[t][i].lr # lr,
           e.tail = TRUE => stack[t] # <<>> /\ stack[t][Len(stack[t])].lr = lr
    PROVE  WatchedInv'
  <1> DEFINE K == stack[t]
             L == Append(K, e)
             n == Len(K)
  <1>1. IsFiniteSet(InUse) /\ Fresh \in Nat \ {0} /\ Fresh \notin InUse
    BY FreshIsNew DEF WatchedInv, RetType
  <1>2. e.tail = TRUE \/ e.tail = FALSE
    BY DEF Calling
  <1>3. K \in Seq(Calling)
    BY DEF WatchedInv, RetType
  <1>4. /\ L \in Seq(Calling) /\ DOMAIN L = 1..n + 1 /\ DOMAIN K = 1..n /\ n \in Nat
        /\ L[n + 1] = e /\ \A i \in 1..n : L[i] = K[i]
    BY <1>3, PushCall
  <1>5. stack'[t] = L /\ (\A u \in Threads \ {t} : stack'[u] = stack[u])
        /\ stack' \in [Threads -> Seq(Calling)]
    BY <1>4 DEF WatchedInv, RetType
  <1>6. e.lr = lr /\ e.id = id
    OBVIOUS
  <1> HIDE DEF K, L, n
  <1>7. \A u \in Threads : Open(u)' \subseteq Open(u) \cup {id} /\ Kept(u)' = Kept(u)
    <2> SUFFICES ASSUME NEW u \in Threads PROVE Open(u)' \subseteq Open(u) \cup {id} /\ Kept(u)' = Kept(u)
      OBVIOUS
    <2>1. CASE u = t
      <3>1. \A i \in DOMAIN L : L[i].id \in {K[j].id : j \in DOMAIN K} \cup {id}
        BY <1>4, <1>6
      <3> QED BY <1>5, <2>1, <3>1 DEF Open, Kept, K
    <2>2. CASE u # t
      BY <1>5, <2>2 DEF Open, Kept
    <2> QED BY <2>1, <2>2
  <1>8. {r.id : r \in rets'} \subseteq {r.id : r \in rets} \cup {id}
    BY DEF Recorded
  <1>9. IsFiniteSet(InUse')
    BY <1>1, <1>7, <1>8, InUseFinite
  <1>10. \A r \in rets' : /\ r.tp \in Threads /\ r.id # 0
                          /\ \E j \in DOMAIN stack'[r.tp] :
                                stack'[r.tp][j].id = r.id /\ stack'[r.tp][j].lr = r.lr
    <2> SUFFICES ASSUME NEW r \in rets'
                 PROVE  /\ r.tp \in Threads /\ r.id # 0
                        /\ \E j \in DOMAIN stack'[r.tp] :
                                stack'[r.tp][j].id = r.id /\ stack'[r.tp][j].lr = r.lr
      OBVIOUS
    <2>1. CASE r \in rets
      <3>1. PICK j \in DOMAIN stack[r.tp] : stack[r.tp][j].id = r.id /\ stack[r.tp][j].lr = r.lr
        BY <2>1 DEF WatchedInv
      <3>2. r.tp \in Threads /\ r.id # 0
        BY <2>1 DEF WatchedInv
      <3>3. CASE r.tp = t
        <4>1. j \in DOMAIN L /\ L[j] = K[j]
          BY <1>4, <3>1, <3>3 DEF K
        <4> QED BY <1>5, <3>1, <3>2, <3>3, <4>1 DEF K
      <3> QED BY <1>5, <3>1, <3>2, <3>3
    <2>2. CASE r.id = id /\ r.lr = lr /\ r.tp = t /\ id = Fresh
      <3>1. n + 1 \in DOMAIN L
        BY <1>4
      <3> QED BY <1>1, <1>4, <1>5, <1>6, <2>2, <3>1
    <2> QED BY <2>1, <2>2 DEF Recorded
  <1>11. \A u \in Threads : \A i \in DOMAIN stack[u] : id # 0 => stack[u][i].id # id
    <2>1. \A u \in Threads : \A i \in DOMAIN stack[u] : stack[u][i].id \in InUse
      BY DEF InUse, Open
    <2> QED BY <1>1, <2>1 DEF Recorded
  <1>12. \A u, v \in Threads : \A i \in DOMAIN stack'[u], j \in DOMAIN stack'[v] :
          stack'[u][i].id = stack'[v][j].id /\ stack'[u][i].id # 0 => u = v /\ i = j
    <2>1. \A u \in Threads : \A i \in DOMAIN stack'[u] :
             \/ i \in DOMAIN stack[u] /\ stack'[u][i] = stack[u][i]
             \/ u = t /\ i = n + 1 /\ stack'[u][i].id = id
      <3>1. \A i \in DOMAIN L : (i \in DOMAIN K /\ L[i] = K[i]) \/ (i = n + 1 /\ L[i].id = id)
        BY <1>4, <1>6
      <3> QED BY <1>5, <3>1 DEF K
    <2>2. \A u, v \in Threads : \A i \in DOMAIN stack[u], j \in DOMAIN stack[v] :
             stack[u][i].id = stack[v][j].id /\ stack[u][i].id # 0 => u = v /\ i = j
      BY DEF WatchedInv
    <2> QED BY <1>11, <2>1, <2>2
  <1>13. ASSUME NEW u \in Threads \ {t} PROVE ThreadWatched(u)'
    BY <1>5, <1>13 DEF WatchedInv, ThreadWatched, Recorded, Tails
  <1>14. ThreadWatched(t)'
    <2>0. ThreadWatched(t) /\ rets \subseteq rets'
      BY DEF WatchedInv, Recorded
    <2>1. \A i \in DOMAIN L : L[i].id # 0 => \E r \in rets' : r.id = L[i].id
      <3>1. id # 0 => \E r \in rets' : r.id = id
        <4> SUFFICES ASSUME id # 0 PROVE \E r \in rets' : r.id = id
          OBVIOUS
        <4>1. PICK name \in Programs \cup {Unreadable} :
                 [id |-> id, lr |-> lr, tp |-> t, prog |-> name, hits |-> 0] \in rets'
          BY DEF Recorded
        <4>2. [id |-> id, lr |-> lr, tp |-> t, prog |-> name, hits |-> 0].id = id
          OBVIOUS
        <4> QED BY <4>1, <4>2
      <3>2. \A i \in DOMAIN K : K[i].id # 0 => \E r \in rets' : r.id = K[i].id
        BY <2>0 DEF ThreadWatched, K
      <3> QED BY <1>4, <1>6, <3>1, <3>2
    <2>2. \A i, j \in DOMAIN K : i < j => (K[i].lr = K[j].lr <=> \A h \in i + 1..j : K[h].tail)
      BY <2>0 DEF ThreadWatched, K, Tails
    <2>3. \A j \in DOMAIN K : \E i \in 1..j : ~K[i].tail /\ \A h \in i + 1..j : K[h].tail
      BY <2>0 DEF ThreadWatched, K, Tails
    <2>4. ASSUME NEW i \in DOMAIN L, NEW j \in DOMAIN L, i < j
          PROVE  L[i].lr = L[j].lr <=> \A h \in i + 1..j : L[h].tail
      <3>1. CASE j \in DOMAIN K
        <4>1. i \in DOMAIN K /\ L[i] = K[i] /\ L[j] = K[j] /\ \A h \in i + 1..j : L[h] = K[h]
          BY <1>4, <2>4, <3>1
        <4>2. K[i].lr = K[j].lr <=> \A h \in i + 1..j : K[h].tail
          BY <2>2, <2>4, <3>1, <4>1
        <4> QED BY <4>1, <4>2
      <3>2. CASE j = n + 1 /\ e.tail = FALSE
        BY <1>4, <1>6, <2>4, <3>2 DEF K
      <3>3. CASE j = n + 1 /\ e.tail = TRUE
        <4>1. n \in DOMAIN K /\ K[n].lr = lr /\ i \in DOMAIN K
          BY <1>3, <1>4, <2>4, <3>3 DEF K, n
        <4>2. (\A h \in i + 1..j : L[h].tail) <=> \A h \in i + 1..n : K[h].tail
          <5>1. L[j].tail = TRUE /\ \A h \in i + 1..n : L[h].tail = K[h].tail
            BY <1>4, <1>6, <3>3, <4>1
          <5>2. \A h : h \in i + 1..j <=> h \in i + 1..n \/ h = j
            BY <1>4, <2>4, <3>3, <4>1
          <5> QED BY <5>1, <5>2
        <4>3. L[i].lr = L[j].lr <=> K[i].lr = K[n].lr
          BY <1>4, <1>6, <3>3, <4>1
        <4>4. i < n \/ i = n
          BY <1>4, <4>1
        <4>5. CASE i = n
          BY <4>2, <4>3, <4>5, <1>4
        <4>6. CASE i < n
          BY <2>2, <4>1, <4>2, <4>3, <4>6
        <4> QED BY <4>4, <4>5, <4>6
      <3>4. j \in DOMAIN K \/ j = n + 1
        BY <1>4
      <3> QED BY <1>2, <3>1, <3>2, <3>3, <3>4
    <2>5. ASSUME NEW j \in DOMAIN L
          PROVE  \E i \in 1..j : ~L[i].tail /\ \A h \in i + 1..j : L[h].tail
      <3>1. CASE j \in DOMAIN K
        <4>1. PICK i \in 1..j : ~K[i].tail /\ \A h \in i + 1..j : K[h].tail
          BY <2>3, <3>1
        <4> QED BY <1>4, <3>1, <4>1
      <3>2. CASE j = n + 1 /\ e.tail = FALSE
        <4>1. j \in 1..j /\ ~L[j].tail /\ \A h \in j + 1..j : L[h].tail
          BY <1>4, <1>6, <3>2
        <4> QED BY <4>1
      <3>3. CASE j = n + 1 /\ e.tail = TRUE
        <4>1. n \in DOMAIN K
          BY <1>3, <1>4, <3>3 DEF K, n
        <4>2. PICK i \in 1..n : ~K[i].tail /\ \A h \in i + 1..n : K[h].tail
          BY <2>3, <4>1
        <4>3. i \in 1..j /\ ~L[i].tail /\ \A h \in i + 1..j : L[h].tail
          <5>1. L[j].tail = TRUE /\ \A h \in i + 1..n : L[h].tail = K[h].tail
            BY <1>4, <1>6, <3>3, <4>1
          <5>2. (\A h : h \in i + 1..j <=> h \in i + 1..n \/ h = j) /\ i \in 1..j /\ L[i] = K[i]
            BY <1>4, <3>3, <4>1
          <5> QED BY <4>2, <5>1, <5>2
        <4> QED BY <4>3
      <3>4. j \in DOMAIN K \/ j = n + 1
        BY <1>4
      <3> QED BY <1>2, <3>1, <3>2, <3>3, <3>4
    <2>6. \A i, j \in DOMAIN L : i < j => (L[i].lr = L[j].lr <=> \A h \in i + 1..j : L[h].tail)
      BY <2>4
    <2>7. \A j \in DOMAIN L : \E i \in 1..j : ~L[i].tail /\ \A h \in i + 1..j : L[h].tail
      BY <2>5
    <2>8. \A i \in DOMAIN stack'[t] : stack'[t][i].id # 0 => \E r \in rets' : r.id = stack'[t][i].id
      BY <1>5, <2>1
    <2>9. \A i, j \in DOMAIN stack'[t] : i < j => (stack'[t][i].lr = stack'[t][j].lr <=> Tails(t, i, j)')
      <3> SUFFICES ASSUME NEW i \in DOMAIN stack'[t], NEW j \in DOMAIN stack'[t], i < j
                   PROVE  stack'[t][i].lr = stack'[t][j].lr <=> Tails(t, i, j)'
        OBVIOUS
      <3>1. L[i].lr = L[j].lr <=> \A h \in i + 1..j : L[h].tail
        BY <1>5, <2>6
      <3> QED BY <1>5, <3>1 DEF Tails
    <2>10. \A j \in DOMAIN stack'[t] : \E i \in 1..j : ~stack'[t][i].tail /\ Tails(t, i, j)'
      BY <1>5, <2>7 DEF Tails
    <2> QED BY <2>8, <2>9, <2>10 DEF ThreadWatched
  <1> QED BY <1>5, <1>9, <1>10, <1>12, <1>13, <1>14 DEF WatchedInv, RetType

LEMMA ReturnsByThread ==
    ASSUME tool \in ByThread, NEW t \in Threads, NEW lr, NEW name, NEW ends, Return(t, lr, name, ends)
    PROVE  LET ended == {r \in rets : r.lr = lr /\ r.tp = t}
           IN /\ rets' = rets \ ended /\ Reports({r.id : r \in ended}, ends)
              /\ UNCHANGED active
  <1> USE DEF ByThread
  <1>1. CASE IokitReturn(t, lr, name, ends)
    BY <1>1 DEF IokitReturn, SameThread
  <1>2. CASE AksReturn(t, lr, name, ends)
    BY <1>2 DEF AksReturn
  <1>3. CASE FairplayReturn(t, lr, name, ends)
    BY <1>3 DEF FairplayReturn
  <1> QED BY <1>1, <1>2, <1>3 DEF Lsd, Return, StallReturn, PortReturn, OpenReturn, LsdReturn,
             Sks142Return, Sks7Return, Op10Return

LEMMA WatchedReturn ==
    ASSUME WatchedInv, tool \in ByThread, NEW t \in Threads, GuestReturn(t)
    PROVE  WatchedInv'
  <1> DEFINE K == stack[t]
             n == Len(K)
             first == CHOOSE i \in 1..n : ~K[i].tail /\ \A j \in i + 1..n : K[j].tail
             L == SubSeq(K, 1, first - 1)
             ended == {r \in rets : r.lr = K[n].lr /\ r.tp = t}
             ends == {K[i].id : i \in first..n}
  <1>0. WatchedInv /\ ThreadWatched(t) /\ K \in Seq(Calling) /\ K # <<>>
    BY DEF WatchedInv, RetType, GuestReturn
  <1>1. n \in DOMAIN K /\ n \in Nat /\ DOMAIN K = 1..n
    BY <1>0
  <1>2. first \in 1..n /\ ~K[first].tail /\ \A j \in first + 1..n : K[j].tail
    <2>1. \E i \in 1..n : ~K[i].tail /\ \A j \in i + 1..n : K[j].tail
      BY <1>0, <1>1 DEF ThreadWatched, Tails
    <2> QED BY <2>1
  <1>3. PICK name \in Names(t) : Return(t, K[n].lr, name, ends)
    BY DEF GuestReturn
  <1>4. stack' = [stack EXCEPT ![t] = L]
    BY DEF GuestReturn
  <1> HIDE DEF first
  <1>5. /\ L \in Seq(Calling) /\ DOMAIN L = 1..first - 1
        /\ \A i \in 1..first - 1 : L[i] = K[i] /\ i \in DOMAIN K
    BY <1>0, <1>2, PopCalls
  <1>6. /\ stack'[t] = L /\ \A u \in Threads \ {t} : stack'[u] = stack[u]
        /\ stack' \in [Threads -> Seq(Calling)]
    BY <1>4, <1>5 DEF WatchedInv, RetType
  <1>7. rets' = rets \ ended /\ Reports({r.id : r \in ended}, ends) /\ UNCHANGED active
    BY <1>3, ReturnsByThread
  <1> HIDE DEF K, n, L, ended, ends
  <1>8. \A i \in DOMAIN K : K[i].lr = K[n].lr <=> i >= first
    <2> SUFFICES ASSUME NEW i \in DOMAIN K PROVE K[i].lr = K[n].lr <=> i >= first
      OBVIOUS
    <2>1. CASE i = n
      BY <1>1, <1>2, <2>1
    <2>2. CASE i < n
      <3>1. K[i].lr = K[n].lr <=> \A h \in i + 1..n : K[h].tail
        BY <1>0, <1>1, <2>2 DEF ThreadWatched, Tails, K
      <3>2. CASE i >= first
        <4>1. \A h \in i + 1..n : h \in first + 1..n
          BY <1>1, <1>2, <3>2
        <4> QED BY <1>2, <3>1, <3>2, <4>1
      <3>3. CASE ~(i >= first)
        <4>1. first \in i + 1..n
          BY <1>1, <1>2, <3>3
        <4> QED BY <1>2, <3>1, <3>3, <4>1
      <3> QED BY <3>2, <3>3
    <2> QED BY <1>1, <2>1, <2>2
  <1>9. ASSUME NEW r \in rets, r.tp = t
        PROVE  \E j \in DOMAIN K : K[j].id = r.id /\ K[j].lr = r.lr
    BY <1>9 DEF WatchedInv, K
  <1>10. {r.id : r \in ended} \subseteq ends
    <2> SUFFICES ASSUME NEW r \in ended PROVE r.id \in ends
      OBVIOUS
    <2>1. r \in rets /\ r.lr = K[n].lr /\ r.tp = t
      BY DEF ended
    <2>2. PICK j \in DOMAIN K : K[j].id = r.id /\ K[j].lr = r.lr
      BY <1>9, <2>1
    <2>3. j \in first..n
      BY <1>1, <1>2, <1>8, <2>1, <2>2
    <2> QED BY <2>2, <2>3 DEF ends
  <1>11. wrong' = FALSE
    BY <1>7, <1>10 DEF Reports, WatchedInv
  <1>12. \A r \in rets' : /\ r.tp \in Threads /\ r.id # 0
                          /\ \E j \in DOMAIN stack'[r.tp] :
                                stack'[r.tp][j].id = r.id /\ stack'[r.tp][j].lr = r.lr
    <2> SUFFICES ASSUME NEW r \in rets'
                 PROVE  /\ r.tp \in Threads /\ r.id # 0
                        /\ \E j \in DOMAIN stack'[r.tp] :
                                stack'[r.tp][j].id = r.id /\ stack'[r.tp][j].lr = r.lr
      OBVIOUS
    <2>1. r \in rets /\ r.tp \in Threads /\ r.id # 0 /\ r \notin ended
      BY <1>7 DEF WatchedInv
    <2>2. CASE r.tp = t
      <3>1. PICK j \in DOMAIN K : K[j].id = r.id /\ K[j].lr = r.lr
        BY <1>9, <2>1, <2>2
      <3>2. K[j].lr # K[n].lr
        BY <2>1, <2>2, <3>1 DEF ended
      <3>3. j \in DOMAIN L /\ L[j] = K[j]
        BY <1>1, <1>2, <1>5, <1>8, <3>2
      <3> QED BY <1>6, <2>1, <2>2, <3>1, <3>3
    <2>3. CASE r.tp # t
      <3>1. stack'[r.tp] = stack[r.tp]
        BY <1>6, <2>1, <2>3
      <3>2. \E j \in DOMAIN stack[r.tp] : stack[r.tp][j].id = r.id /\ stack[r.tp][j].lr = r.lr
        BY <2>1 DEF WatchedInv
      <3> QED BY <2>1, <3>1, <3>2
    <2> QED BY <2>2, <2>3
  <1>13. \A u \in Threads : \A i \in DOMAIN stack'[u] : i \in DOMAIN stack[u] /\ stack'[u][i] = stack[u][i]
    BY <1>5, <1>6 DEF K
  <1>14. IsFiniteSet(InUse')
    <2>1. \A u \in Threads : Open(u)' \subseteq Open(u) \cup {0} /\ Kept(u)' \subseteq Kept(u) \cup {0}
      BY <1>7, <1>13 DEF Open, Kept
    <2>2. {r.id : r \in rets'} \subseteq {r.id : r \in rets} \cup {0}
      BY <1>7
    <2> QED BY <2>1, <2>2, InUseFinite DEF WatchedInv, RetType
  <1>15. \A u, v \in Threads : \A i \in DOMAIN stack'[u], j \in DOMAIN stack'[v] :
          stack'[u][i].id = stack'[v][j].id /\ stack'[u][i].id # 0 => u = v /\ i = j
    <2>1. \A u, v \in Threads : \A i \in DOMAIN stack[u], j \in DOMAIN stack[v] :
             stack[u][i].id = stack[v][j].id /\ stack[u][i].id # 0 => u = v /\ i = j
      BY DEF WatchedInv
    <2> QED BY <1>13, <2>1
  <1>16. ASSUME NEW u \in Threads, NEW i \in DOMAIN stack'[u], stack'[u][i].id # 0
         PROVE  \E r \in rets' : r.id = stack'[u][i].id
    <2>1. i \in DOMAIN stack[u] /\ stack'[u][i] = stack[u][i]
      BY <1>13
    <2>2. PICK r \in rets : r.id = stack[u][i].id
      BY <1>16, <2>1 DEF WatchedInv, ThreadWatched
    <2>3. PICK j \in DOMAIN stack[r.tp] : stack[r.tp][j].id = r.id /\ stack[r.tp][j].lr = r.lr
      BY DEF WatchedInv
    <2>4. r.tp = u /\ j = i
      <3>1. r.tp \in Threads
        BY DEF WatchedInv
      <3> QED BY <1>16, <2>1, <2>2, <2>3, <3>1 DEF WatchedInv
    <2>5. r \notin ended
      <3>1. CASE u = t
        <4>1. i < first /\ i \in DOMAIN K
          BY <1>2, <1>5, <1>6, <3>1
        <4>2. K[i].lr # K[n].lr
          BY <1>1, <1>2, <1>8, <4>1
        <4> QED BY <2>3, <2>4, <3>1, <4>2 DEF ended, K
      <3>2. CASE u # t
        BY <2>4, <3>2 DEF ended
      <3> QED BY <3>1, <3>2
    <2> QED BY <1>7, <2>1, <2>2, <2>5
  <1>17. ASSUME NEW u \in Threads, NEW i \in DOMAIN stack'[u], NEW j \in DOMAIN stack'[u], i < j
         PROVE  stack'[u][i].lr = stack'[u][j].lr <=> Tails(u, i, j)'
    <2>1. stack[u][i].lr = stack[u][j].lr <=> Tails(u, i, j)
      BY <1>13, <1>17 DEF WatchedInv, ThreadWatched
    <2>2. \A h \in i + 1..j : stack'[u][h] = stack[u][h]
      <3>1. DOMAIN stack'[u] = 1..Len(stack'[u]) /\ Len(stack'[u]) \in Nat
        BY <1>6
      <3>2. \A h \in i + 1..j : h \in DOMAIN stack'[u]
        BY <3>1
      <3> QED BY <1>13, <3>2
    <2> QED BY <1>13, <2>1, <2>2 DEF Tails
  <1>18. ASSUME NEW u \in Threads, NEW j \in DOMAIN stack'[u]
         PROVE  \E i \in 1..j : ~stack'[u][i].tail /\ Tails(u, i, j)'
    <2>1. PICK i \in 1..j : ~stack[u][i].tail /\ Tails(u, i, j)
      BY <1>13 DEF WatchedInv, ThreadWatched
    <2>2. \A h \in 1..j : stack'[u][h] = stack[u][h]
      <3>1. DOMAIN stack'[u] = 1..Len(stack'[u]) /\ Len(stack'[u]) \in Nat
        BY <1>6
      <3>2. \A h \in 1..j : h \in DOMAIN stack'[u]
        BY <3>1
      <3> QED BY <1>13, <3>2
    <2>3. j \in Nat /\ \A h \in i + 1..j : h \in 1..j
      BY <1>6
    <2> QED BY <2>1, <2>2, <2>3 DEF Tails
  <1>19. \A u \in Threads : ThreadWatched(u)'
    BY <1>16, <1>17, <1>18 DEF ThreadWatched
  <1> QED BY <1>6, <1>7, <1>11, <1>12, <1>14, <1>15, <1>19 DEF WatchedInv, RetType

\* The threads that call watched functions are guest threads.
LEMMA ByThreadCallers ==
    ASSUME tool \in ReturnTools, ReturnNext
    PROVE  UNCHANGED retVars \/ \E t \in Threads : (\E lr \in Lrs : GuestCall(t, lr))
                                               \/ GuestTailCall(t) \/ GuestReturn(t)
  <1>1. Callers[tool] \subseteq Threads
    BY ReturnAssumption
  <1> QED BY <1>1 DEF ReturnNext

\* The callbacks of other families change nothing here.
LEMMA WatchedIdle ==
    ASSUME WatchedInv, UNCHANGED retVars PROVE WatchedInv'
  <1>1. UNCHANGED <<stack, rets, active, wrong>>
    BY DEF retVars
  <1>2. InUse' = InUse
    BY <1>1 DEF InUse, Open, Kept
  <1>3. RetType'
    BY <1>1, <1>2 DEF WatchedInv, RetType
  <1>4. ASSUME NEW t \in Threads PROVE ThreadWatched(t)'
    <2>1. ThreadWatched(t)
      BY DEF WatchedInv
    <2> QED BY <1>1, <2>1 DEF ThreadWatched, Tails
  <1> QED BY <1>1, <1>3, <1>4 DEF WatchedInv

LEMMA WatchedStep ==
    ASSUME WatchedInv, tool \in ByThread, ReturnNext PROVE WatchedInv'
  <1>1. CASE UNCHANGED retVars
    BY <1>1, WatchedIdle
  <1>2. UNCHANGED retVars \/ \E t \in Threads : (\E lr \in Lrs : GuestCall(t, lr))
                                              \/ GuestTailCall(t) \/ GuestReturn(t)
    BY ByThreadCallers DEF ByThread, ReturnTools
  <1>3. ASSUME NEW t \in Threads, NEW lr \in Lrs, GuestCall(t, lr) PROVE WatchedInv'
    <2>1. PICK name \in Names(t), id \in 0..Cardinality(InUse) + 1 :
            /\ Entry(t, lr, name, id)
            /\ stack' = [stack EXCEPT ![t] = Append(@, [lr |-> lr, id |-> id, tail |-> FALSE])]
      BY <1>3 DEF GuestCall
    <2> DEFINE e == [lr |-> lr, id |-> id, tail |-> FALSE]
    <2>2. Recorded(t, lr, id) /\ UNCHANGED active
      BY <2>1, EntryRecords
    <2>3. id \in Nat
      BY <2>2, FreshIsNew DEF Recorded, WatchedInv, RetType
    <2>4. e \in Calling /\ e.lr = lr /\ e.id = id /\ e.tail = FALSE
      BY <2>3 DEF Calling
    <2>5. UNCHANGED wrong /\ \A i \in DOMAIN stack[t] : stack[t][i].lr # lr
      BY <1>3 DEF GuestCall, ByThread, Lsd
    <2>6. stack' = [stack EXCEPT ![t] = Append(@, e)]
      BY <2>1
    <2> HIDE DEF e
    <2> QED BY <2>2, <2>4, <2>5, <2>6, WatchedCall
  <1>4. ASSUME NEW t \in Threads, GuestTailCall(t) PROVE WatchedInv'
    <2> DEFINE lr == stack[t][Len(stack[t])].lr
    <2>1. PICK name \in Names(t), id \in 0..Cardinality(InUse) + 1 :
            /\ Entry(t, lr, name, id)
            /\ stack' = [stack EXCEPT ![t] = Append(@, [lr |-> lr, id |-> id, tail |-> TRUE])]
      BY <1>4 DEF GuestTailCall
    <2> DEFINE e == [lr |-> lr, id |-> id, tail |-> TRUE]
    <2>2. Recorded(t, lr, id) /\ UNCHANGED active
      BY <2>1, EntryRecords
    <2>3. id \in Nat
      BY <2>2, FreshIsNew DEF Recorded, WatchedInv, RetType
    <2>4. lr \in Lrs
      <3>1. stack[t] \in Seq(Calling) /\ stack[t] # <<>>
        BY <1>4 DEF GuestTailCall, WatchedInv, RetType
      <3>2. stack[t][Len(stack[t])] \in Calling
        BY <3>1
      <3> QED BY <3>2 DEF Calling
    <2>5. e \in Calling /\ e.lr = lr /\ e.id = id /\ e.tail = TRUE
      BY <2>3, <2>4 DEF Calling
    <2>6. UNCHANGED wrong /\ stack[t] # <<>>
      BY <1>4 DEF GuestTailCall
    <2>7. stack' = [stack EXCEPT ![t] = Append(@, e)]
      BY <2>1
    <2>8. e.tail = TRUE => stack[t] # <<>> /\ stack[t][Len(stack[t])].lr = lr
      BY <2>6
    <2> HIDE DEF e, lr
    <2> QED BY <2>2, <2>4, <2>5, <2>6, <2>7, <2>8, WatchedCall
  <1>5. ASSUME NEW t \in Threads, GuestReturn(t) PROVE WatchedInv'
    BY <1>5, WatchedReturn
  <1> QED BY <1>1, <1>2, <1>3, <1>4, <1>5

(* The scripts that keep the entries of a thread in a dict. *)

Mirrored(t) ==
    /\ Len(active[t]) = Len(stack[t])
    /\ \A i \in 1..Len(stack[t]) : /\ active[t][i].id = stack[t][i].id
                                   /\ tool \in Lsd => active[t][i].lr = stack[t][i].lr

Ignored(t) == active[t] = <<>> /\ \A i \in 1..Len(stack[t]) : stack[t][i].id = 0

\* The entries kept of a thread are its open calls, one for one; lsd_ipc_trace
\* ignores the threads outside its group, op10 the requests of other classes.
DictInv ==
    /\ RetType /\ ~wrong /\ rets = {}
    /\ \A t \in Threads : /\ \A i \in 1..Len(stack[t]) : ~stack[t][i].tail
                          /\ Mirrored(t) \/ Ignored(t)
                          /\ tool = "sks142" \/ (tool \in Lsd /\ Prog[t] = "daemon") => Mirrored(t)
                          /\ tool \in Lsd /\ Prog[t] # "daemon" => Ignored(t)
                          /\ tool = "op10" => Len(stack[t]) <= 1

\* Unless its name cannot be read, lsd is recognised.
LEMMA ReadsLsd ==
    ASSUME tool \in Lsd, NEW t \in Threads, NEW name \in Names(t), ~Misreads(t, name)
    PROVE  IsLsd(t, name) <=> Prog[t] = "daemon"
  BY DEF Lsd, IsLsd, Misreads, Names, Unreadable

\* An entry callback keeps the call or does not.
LEMMA EntryKept ==
    ASSUME tool \in InDict \ {"sks7"}, NEW t \in Threads, NEW lr \in Lrs, NEW name \in Names(t), NEW id,
           Entry(t, lr, name, id), ~Misreads(t, name)
    PROVE  /\ UNCHANGED rets
           /\ \/ /\ id = 0 /\ UNCHANGED active
                 /\ tool # "sks142" /\ (tool \in Lsd => Prog[t] # "daemon")
              \/ /\ id = Fresh /\ (tool \in Lsd => Prog[t] = "daemon")
                 /\ \E k \in Lrs \cup {0} :
                       /\ tool \in Lsd => k = lr
                       /\ active' = [active EXCEPT ![t] =
                             IF tool = "op10" THEN <<[id |-> id, lr |-> k]>>
                             ELSE Append(@, [id |-> id, lr |-> k])]
  <1> USE DEF InDict, Lsd
  <1>1. CASE LsdEntry(t, lr, name, id)
    BY <1>1, ReadsLsd DEF LsdEntry, Unrecorded
  <1>2. CASE Sks142Entry(t, lr, name, id)
    BY <1>2 DEF Sks142Entry
  <1>3. CASE Op10Entry(t, lr, name, id)
    BY <1>3 DEF Op10Entry, Unrecorded
  <1> QED BY <1>1, <1>2, <1>3 DEF Entry, StallEntry, PortEntry, OpenEntry, IokitEntry, AksEntry,
             FairplayEntry, Sks7Entry

LEMMA DictCall ==
    ASSUME DictInv, tool \in InDict \ {"sks7"}, NEW t \in Threads, NEW lr \in Lrs, GuestCall(t, lr), ~misread'
    PROVE  DictInv'
  <1>1. PICK name \in Names(t), id \in 0..Cardinality(InUse) + 1 :
          /\ Entry(t, lr, name, id) /\ ~Misreads(t, name)
          /\ stack' = [stack EXCEPT ![t] = Append(@, [lr |-> lr, id |-> id, tail |-> FALSE])]
    BY DEF GuestCall
  <1> DEFINE K == stack[t]
             A == active[t]
             e == [lr |-> lr, id |-> id, tail |-> FALSE]
             L == Append(K, e)
  <1>2. UNCHANGED <<tool, rets, wrong>> /\ (tool = "op10" => K = <<>>)
    BY <1>1, EntryKept DEF GuestCall
  <1>3. id \in Nat /\ (id = Fresh => id # 0)
    BY <1>1, EntryKept, FreshIsNew DEF DictInv, RetType
  <1>4. e \in Calling /\ e.id = id /\ e.lr = lr /\ ~e.tail
    BY <1>3 DEF Calling
  <1>5. K \in Seq(Calling) /\ A \in Seq(Entries)
    BY DEF DictInv, RetType
  <1>6. /\ L \in Seq(Calling) /\ Len(L) = Len(K) + 1 /\ Len(K) \in Nat
        /\ L[Len(K) + 1] = e /\ \A i \in 1..Len(K) : L[i] = K[i]
    BY <1>4, <1>5, PushCall
  <1>7. stack'[t] = L /\ (\A u \in Threads \ {t} : stack'[u] = stack[u])
        /\ stack' \in [Threads -> Seq(Calling)]
    BY <1>1, <1>6 DEF DictInv, RetType
  <1> HIDE DEF K, L, A, e
  <1>8. /\ \A i \in 1..Len(stack'[t]) : ~stack'[t][i].tail
        /\ tool = "op10" => Len(stack'[t]) <= 1
    <2>1. \A i \in 1..Len(K) : ~K[i].tail
      BY DEF DictInv, K
    <2>2. \A i \in 1..Len(K) + 1 : i \in 1..Len(K) \/ i = Len(K) + 1
      BY <1>6
    <2>3. \A i \in 1..Len(L) : ~L[i].tail
      BY <1>4, <1>6, <2>1, <2>2
    <2>4. K = <<>> => Len(K) = 0
      OBVIOUS
    <2>5. tool = "op10" => Len(L) <= 1
      BY <1>2, <1>6, <2>4
    <2> QED BY <1>7, <2>3, <2>5
  <1>9. /\ active'[t] \in Seq(Entries) /\ active' \in [Threads -> Seq(Entries)]
        /\ \A u \in Threads \ {t} : active'[u] = active[u]
        /\ Mirrored(t)' \/ Ignored(t)'
        /\ tool = "sks142" \/ (tool \in Lsd /\ Prog[t] = "daemon") => Mirrored(t)'
        /\ tool \in Lsd /\ Prog[t] # "daemon" => Ignored(t)'
        /\ Kept(t)' \subseteq Kept(t) \cup {id}
    <2>1. CASE /\ id = 0 /\ UNCHANGED active
               /\ tool # "sks142" /\ (tool \in Lsd => Prog[t] # "daemon")
      <3>1. Ignored(t)
        <4>1. CASE tool = "op10"
          <5>1. Len(K) = 0 /\ (Mirrored(t) \/ Ignored(t))
            BY <1>2, <4>1 DEF DictInv
          <5>2. A = <<>>
            BY <1>5, <5>1 DEF Mirrored, Ignored, A, K
          <5> QED BY <5>1, <5>2 DEF Ignored, A, K
        <4> QED BY <2>1, <4>1 DEF DictInv, InDict, Lsd
      <3>2. \A i \in 1..Len(L) : L[i].id = 0
        <4>1. \A i \in 1..Len(K) : K[i].id = 0
          BY <3>1 DEF Ignored, K
        <4> QED BY <1>4, <1>6, <2>1, <4>1
      <3>3. Ignored(t)'
        BY <1>7, <2>1, <3>1, <3>2 DEF Ignored
      <3> QED BY <1>5, <2>1, <3>3 DEF DictInv, RetType, Kept, A
    <2>2. ASSUME id = Fresh, tool \in Lsd => Prog[t] = "daemon", NEW k \in Lrs \cup {0},
                 tool \in Lsd => k = lr,
                 active' = [active EXCEPT ![t] =
                             IF tool = "op10" THEN <<[id |-> id, lr |-> k]>>
                             ELSE Append(@, [id |-> id, lr |-> k])]
          PROVE  /\ active'[t] \in Seq(Entries) /\ active' \in [Threads -> Seq(Entries)]
                 /\ \A u \in Threads \ {t} : active'[u] = active[u]
                 /\ Mirrored(t)' /\ Kept(t)' \subseteq Kept(t) \cup {id}
                 /\ (tool \in Lsd => Prog[t] = "daemon")
      <3> DEFINE a == [id |-> id, lr |-> k]
                 B == Append(A, a)
      <3>1. a \in Entries /\ a.id = id /\ a.lr = k
        BY <1>3 DEF Entries
      <3>2. /\ B \in Seq(Entries) /\ Len(B) = Len(A) + 1 /\ Len(A) \in Nat /\ B[Len(A) + 1] = a
            /\ DOMAIN B = 1..Len(A) + 1 /\ DOMAIN A = 1..Len(A)
            /\ \A i \in 1..Len(A) : B[i] = A[i]
        BY <1>5, <3>1, PushCall
      <3>3. Mirrored(t)
        <4>1. CASE tool = "op10"
          <5>1. Len(K) = 0 /\ (Mirrored(t) \/ Ignored(t))
            BY <1>2, <4>1 DEF DictInv
          <5>2. Len(A) = 0
            BY <5>1 DEF Mirrored, Ignored, A, K
          <5> QED BY <5>1, <5>2 DEF Mirrored, A, K
        <4> QED BY <2>2, <4>1 DEF DictInv, InDict, Lsd
      <3>4. active' = [active EXCEPT ![t] = B]
        <4>1. CASE tool = "op10"
          <5>1. Len(A) = 0
            BY <1>2, <3>3, <4>1 DEF Mirrored, A, K
          <5>2. B = <<a>>
            BY <1>5, <5>1
          <5> QED BY <2>2, <4>1, <5>2
        <4>2. CASE tool # "op10"
          BY <2>2, <4>2 DEF A
        <4> QED BY <4>1, <4>2
      <3> HIDE DEF B, a
      <3>5. /\ active'[t] = B /\ (\A u \in Threads \ {t} : active'[u] = active[u])
            /\ active' \in [Threads -> Seq(Entries)]
        BY <3>2, <3>4 DEF DictInv, RetType
      <3>6. Len(A) = Len(K) /\ \A i \in 1..Len(K) : A[i].id = K[i].id /\ (tool \in Lsd => A[i].lr = K[i].lr)
        BY <3>3 DEF Mirrored, A, K
      <3>7. \A i \in 1..Len(L) : B[i].id = L[i].id /\ (tool \in Lsd => B[i].lr = L[i].lr)
        BY <1>4, <1>6, <2>2, <3>1, <3>2, <3>6
      <3>8. Mirrored(t)'
        BY <1>2, <1>6, <1>7, <3>2, <3>5, <3>6, <3>7 DEF Mirrored
      <3>9. Kept(t)' \subseteq Kept(t) \cup {id}
        <4>1. \A i \in DOMAIN B : B[i].id \in {A[j].id : j \in DOMAIN A} \cup {id}
          BY <3>1, <3>2
        <4> QED BY <3>5, <4>1 DEF Kept, A
      <3> QED BY <2>2, <3>2, <3>5, <3>8, <3>9
    <2>3. CASE /\ id = Fresh /\ (tool \in Lsd => Prog[t] = "daemon")
               /\ \E k \in Lrs \cup {0} :
                       /\ tool \in Lsd => k = lr
                       /\ active' = [active EXCEPT ![t] =
                             IF tool = "op10" THEN <<[id |-> id, lr |-> k]>>
                             ELSE Append(@, [id |-> id, lr |-> k])]
      BY <2>2, <2>3
    <2>4. \/ /\ id = 0 /\ UNCHANGED active
             /\ tool # "sks142" /\ (tool \in Lsd => Prog[t] # "daemon")
          \/ /\ id = Fresh /\ (tool \in Lsd => Prog[t] = "daemon")
             /\ \E k \in Lrs \cup {0} :
                       /\ tool \in Lsd => k = lr
                       /\ active' = [active EXCEPT ![t] =
                             IF tool = "op10" THEN <<[id |-> id, lr |-> k]>>
                             ELSE Append(@, [id |-> id, lr |-> k])]
      BY <1>1, EntryKept
    <2> QED BY <2>1, <2>3, <2>4
  <1>10. IsFiniteSet(InUse')
    <2>1. ASSUME NEW u \in Threads
          PROVE  Open(u)' \subseteq Open(u) \cup {id} /\ Kept(u)' \subseteq Kept(u) \cup {id}
      <3>1. CASE u = t
        <4>1. DOMAIN L = 1..Len(L) /\ DOMAIN K = 1..Len(K)
          BY <1>5, <1>6
        <4>2. \A i \in DOMAIN L : L[i].id \in {K[j].id : j \in DOMAIN K} \cup {id}
          BY <1>4, <1>6, <4>1
        <4> QED BY <1>7, <1>9, <3>1, <4>2 DEF Open, K
      <3>2. CASE u # t
        BY <1>7, <1>9, <3>2 DEF Open, Kept
      <3> QED BY <3>1, <3>2
    <2>2. {r.id : r \in rets'} \subseteq {r.id : r \in rets} \cup {id}
      BY <1>2
    <2> QED BY <2>1, <2>2, InUseFinite DEF DictInv, RetType
  <1>11. \A u \in Threads \ {t} : (Mirrored(u)' <=> Mirrored(u)) /\ (Ignored(u)' <=> Ignored(u))
    BY <1>2, <1>7, <1>9 DEF Mirrored, Ignored
  <1> QED BY <1>2, <1>7, <1>8, <1>9, <1>10, <1>11 DEF DictInv, RetType

LEMMA LastDropped ==
    ASSUME NEW S, NEW q \in Seq(S), q # <<>>
    PROVE  /\ SubSeq(q, 1, Len(q) - 1) \o SubSeq(q, Len(q) + 1, Len(q)) = SubSeq(q, 1, Len(q) - 1)
           /\ Len(q) = 1 => SubSeq(q, 1, Len(q) - 1) = <<>>
  OBVIOUS

\* Without tail calls one call returns, and its entry is the last one kept.
LEMMA DictReturns ==
    ASSUME DictInv, tool \in InDict \ {"sks7"}, NEW t \in Threads, NEW name \in Names(t), NEW ends,
           ~Misreads(t, name), stack[t] # <<>>, ends = {stack[t][Len(stack[t])].id},
           Return(t, stack[t][Len(stack[t])].lr, name, ends)
    PROVE  /\ UNCHANGED <<rets, wrong>>
           /\ IF active[t] = <<>> THEN UNCHANGED active
              ELSE active' = [active EXCEPT ![t] = SubSeq(@, 1, Len(@) - 1)]
  <1> DEFINE K == stack[t]
             A == active[t]
             n == Len(K)
  <1>1. K \in Seq(Calling) /\ A \in Seq(Entries) /\ n \in Nat \ {0} /\ wrong = FALSE
    BY DEF DictInv, RetType
  <1>2. DOMAIN A = 1..Len(A) /\ Len(A) \in Nat
    BY <1>1
  <1>3. A # <<>> => /\ Len(A) = n /\ A[n].id = K[n].id
                    /\ tool \in Lsd => A[n].lr = K[n].lr
    BY <1>1 DEF DictInv, Mirrored, Ignored
  <1>4. A # <<>> => (Reports({A[n].id}, ends) => UNCHANGED wrong)
    BY <1>1, <1>3 DEF Reports
  <1>5. CASE LsdReturn(t, K[n].lr, name, ends)
    <2> DEFINE mine == {i \in DOMAIN A : A[i].lr = K[n].lr}
               last == CHOOSE i \in mine : \A j \in mine : j <= i
    <2>1. CASE A = <<>>
      <3>1. mine = {}
        BY <2>1
      <3> QED BY <1>5, <2>1, <3>1 DEF LsdReturn
    <2>2. CASE A # <<>>
      <3>1. n \in mine /\ \A j \in mine : j <= n
        <4>1. tool \in Lsd
          BY <1>5 DEF LsdReturn
        <4> HIDE DEF A, K, n
        <4> QED BY <1>1, <1>2, <1>3, <2>2, <4>1
      <3>2. mine \subseteq Int
        BY <1>2
      <3>0. IsLsd(t, name)
        <4>1. tool \in Lsd
          BY <1>5 DEF LsdReturn
        <4>2. Prog[t] = "daemon"
          BY <2>2, <4>1 DEF DictInv, Ignored
        <4> QED BY <4>1, <4>2, ReadsLsd
      <3> HIDE DEF mine
      <3>3. last \in mine /\ \A j \in mine : j <= last
        BY <3>1
      <3> HIDE DEF last
      <3>4. last = n
        BY <3>1, <3>2, <3>3
      <3>5. /\ Reports({A[last].id}, ends) /\ UNCHANGED rets
            /\ active' = [active EXCEPT ![t] = SubSeq(A, 1, last - 1) \o SubSeq(A, last + 1, Len(A))]
        BY <1>5, <3>0, <3>1 DEF LsdReturn, mine, last
      <3>6. SubSeq(A, 1, n - 1) \o SubSeq(A, n + 1, Len(A)) = SubSeq(A, 1, n - 1)
        <4> HIDE DEF A, n
        <4> QED BY <1>1, <1>3, <2>2, LastDropped
      <3> QED BY <1>3, <1>4, <2>2, <3>4, <3>5, <3>6
    <2> QED BY <2>1, <2>2
  <1>6. CASE Sks142Return(t, K[n].lr, name, ends)
    BY <1>3, <1>4, <1>6 DEF Sks142Return
  <1>7. CASE Op10Return(t, K[n].lr, name, ends)
    <2>1. CASE A = <<>>
      BY <1>7, <2>1 DEF Op10Return
    <2>2. CASE A # <<>>
      <3>1. n = 1
        <4>1. tool = "op10" /\ n <= 1
          BY <1>7 DEF Op10Return, DictInv
        <4> HIDE DEF n
        <4> QED BY <1>1, <4>1
      <3>2. Reports({A[1].id}, ends) /\ active' = [active EXCEPT ![t] = <<>>] /\ UNCHANGED rets
        BY <1>7, <2>2 DEF Op10Return
      <3>3. SubSeq(A, 1, Len(A) - 1) = <<>>
        <4> HIDE DEF A, n
        <4> QED BY <1>1, <1>3, <2>2, <3>1, LastDropped
      <3> QED BY <1>4, <2>2, <3>1, <3>2, <3>3
    <2> QED BY <2>1, <2>2
  <1> QED BY <1>5, <1>6, <1>7 DEF InDict, Lsd, Return, StallReturn, PortReturn, OpenReturn, IokitReturn,
             AksReturn, FairplayReturn, Sks7Return

LEMMA DictReturn ==
    ASSUME DictInv, tool \in InDict \ {"sks7"}, NEW t \in Threads, GuestReturn(t), ~misread'
    PROVE  DictInv'
  <1> DEFINE K == stack[t]
             A == active[t]
             n == Len(K)
             first == CHOOSE i \in 1..n : ~K[i].tail /\ \A j \in i + 1..n : K[j].tail
             ends == {K[i].id : i \in first..n}
             L == SubSeq(K, 1, n - 1)
             B == SubSeq(A, 1, Len(A) - 1)
  <1>1. K \in Seq(Calling) /\ A \in Seq(Entries) /\ K # <<>> /\ n \in Nat \ {0} /\ UNCHANGED tool
    BY DEF DictInv, RetType, GuestReturn
  <1>2. first = n
    <2>1. \A i \in 1..n : ~K[i].tail
      BY DEF DictInv
    <2>2. n \in 1..n /\ ~K[n].tail /\ \A j \in n + 1..n : K[j].tail
      BY <1>1, <2>1
    <2>3. first \in 1..n /\ \A j \in first + 1..n : K[j].tail
      BY <2>2
    <2> HIDE DEF first
    <2>4. first < n => n \in first + 1..n
      BY <1>1, <2>3
    <2> QED BY <1>1, <2>2, <2>3, <2>4
  <1>3. PICK name \in Names(t) : Return(t, K[n].lr, name, ends) /\ ~Misreads(t, name)
    BY DEF GuestReturn
  <1>4. stack' = [stack EXCEPT ![t] = SubSeq(K, 1, first - 1)]
    BY DEF GuestReturn
  <1> HIDE DEF first
  <1>5. ends = {K[n].id}
    BY <1>1, <1>2
  <1>6. /\ UNCHANGED <<rets, wrong>>
        /\ IF A = <<>> THEN UNCHANGED active ELSE active' = [active EXCEPT ![t] = B]
    <2> HIDE DEF ends
    <2> QED BY <1>1, <1>3, <1>5, DictReturns
  <1>7. /\ L \in Seq(Calling) /\ Len(L) = n - 1 /\ DOMAIN L = 1..n - 1 /\ DOMAIN K = 1..n
        /\ \A i \in 1..n - 1 : L[i] = K[i] /\ i \in DOMAIN K
    <2>1. n \in 1..Len(K)
      BY <1>1
    <2> QED BY <1>1, <2>1, PopCalls
  <1>8. /\ stack'[t] = L /\ (\A u \in Threads \ {t} : stack'[u] = stack[u])
        /\ stack' \in [Threads -> Seq(Calling)]
    BY <1>2, <1>4, <1>7 DEF DictInv, RetType
  <1>9. A # <<>> => /\ B \in Seq(Entries) /\ Len(B) = Len(A) - 1 /\ DOMAIN B = 1..Len(A) - 1
                    /\ \A i \in 1..Len(A) - 1 : B[i] = A[i] /\ i \in DOMAIN A
    <2>1. A # <<>> => Len(A) \in 1..Len(A)
      BY <1>1
    <2> QED BY <1>1, <2>1, PopCalls
  <1>10. /\ active'[t] = (IF A = <<>> THEN A ELSE B)
         /\ (\A u \in Threads \ {t} : active'[u] = active[u])
         /\ active' \in [Threads -> Seq(Entries)]
    BY <1>6, <1>9 DEF DictInv, RetType
  <1> HIDE DEF K, L, A, B, n, ends
  <1>11. Mirrored(t) => Mirrored(t)'
    <2> SUFFICES ASSUME Mirrored(t) PROVE Mirrored(t)'
      OBVIOUS
    <2>1. Len(A) = n /\ \A i \in 1..n : A[i].id = K[i].id /\ (tool \in Lsd => A[i].lr = K[i].lr)
      BY DEF Mirrored, A, K, n
    <2>2. A # <<>>
      BY <1>1, <2>1
    <2>3. Len(B) = n - 1 /\ \A i \in 1..n - 1 : B[i].id = L[i].id /\ (tool \in Lsd => B[i].lr = L[i].lr)
      BY <1>1, <1>7, <1>9, <2>1, <2>2
    <2>4. stack'[t] = L /\ active'[t] = B /\ Len(L) = n - 1
      BY <1>7, <1>8, <1>10, <2>2
    <2> QED BY <1>1, <2>3, <2>4 DEF Mirrored
  <1>12. Ignored(t) => Ignored(t)'
    <2> SUFFICES ASSUME Ignored(t) PROVE Ignored(t)'
      OBVIOUS
    <2>1. A = <<>> /\ \A i \in 1..n : K[i].id = 0
      BY DEF Ignored, A, K, n
    <2>2. \A i \in 1..n - 1 : L[i].id = 0
      BY <1>1, <1>7, <2>1
    <2>3. stack'[t] = L /\ active'[t] = <<>> /\ Len(L) = n - 1
      BY <1>7, <1>8, <1>10, <2>1
    <2> QED BY <2>2, <2>3 DEF Ignored
  <1>13. (\A i \in 1..Len(stack'[t]) : ~stack'[t][i].tail) /\ (tool = "op10" => Len(stack'[t]) <= 1)
    <2>1. (\A i \in 1..n : ~K[i].tail) /\ (tool = "op10" => n <= 1)
      BY DEF DictInv, K, n
    <2>2. \A i \in 1..n - 1 : i \in 1..n /\ L[i] = K[i]
      BY <1>1, <1>7
    <2>3. \A i \in 1..n - 1 : ~L[i].tail
      BY <2>1, <2>2
    <2>4. tool = "op10" => n - 1 <= 1
      BY <1>1, <2>1
    <2> QED BY <1>7, <1>8, <2>3, <2>4
  <1>14. IsFiniteSet(InUse')
    <2>1. ASSUME NEW u \in Threads
          PROVE  Open(u)' \subseteq Open(u) \cup {0} /\ Kept(u)' \subseteq Kept(u) \cup {0}
      <3>1. CASE u = t
        <4>1. \A i \in DOMAIN L : i \in DOMAIN K /\ L[i] = K[i]
          BY <1>7
        <4>2. A # <<>> => \A i \in DOMAIN B : i \in DOMAIN A /\ B[i] = A[i]
          BY <1>9
        <4> QED BY <1>8, <1>10, <3>1, <4>1, <4>2 DEF Open, Kept, K, A
      <3>2. CASE u # t
        BY <1>8, <1>10, <3>2 DEF Open, Kept
      <3> QED BY <3>1, <3>2
    <2>2. {r.id : r \in rets'} \subseteq {r.id : r \in rets} \cup {0}
      BY <1>6
    <2> QED BY <2>1, <2>2, InUseFinite DEF DictInv, RetType
  <1>15. \A u \in Threads \ {t} : (Mirrored(u)' <=> Mirrored(u)) /\ (Ignored(u)' <=> Ignored(u))
    BY <1>1, <1>8, <1>10 DEF Mirrored, Ignored
  <1> QED BY <1>1, <1>6, <1>8, <1>10, <1>11, <1>12, <1>13, <1>14, <1>15 DEF DictInv, RetType

LEMMA DictIdle ==
    ASSUME DictInv, UNCHANGED <<tool, retVars>> PROVE DictInv'
  <1>1. UNCHANGED <<tool, stack, rets, active, wrong>>
    BY DEF retVars
  <1>2. InUse' = InUse
    BY <1>1 DEF InUse, Open, Kept
  <1>3. RetType'
    BY <1>1, <1>2 DEF DictInv, RetType
  <1>4. \A t \in Threads : (Mirrored(t)' <=> Mirrored(t)) /\ (Ignored(t)' <=> Ignored(t))
    BY <1>1 DEF Mirrored, Ignored
  <1> QED BY <1>1, <1>3, <1>4 DEF DictInv

LEMMA DictStep ==
    ASSUME DictInv, tool \in InDict \ {"sks7"}, ReturnNext, UNCHANGED tool, ~misread' PROVE DictInv'
  <1>1. CASE UNCHANGED retVars
    BY <1>1, DictIdle
  <1>2. UNCHANGED retVars \/ \E t \in Threads : (\E lr \in Lrs : GuestCall(t, lr))
                                              \/ GuestTailCall(t) \/ GuestReturn(t)
    BY ByThreadCallers DEF InDict, ReturnTools
  <1>3. \A t \in Threads : ~GuestTailCall(t)
    BY DEF GuestTailCall, InDict
  <1> QED BY <1>1, <1>2, <1>3, DictCall, DictReturn

UnreturnedInv ==
    /\ tool \in ByThread => WatchedInv
    /\ tool \in InDict \ {"sks7"} /\ ~misread => DictInv

LEMMA UnreturnedInitially == Init => UnreturnedInv
  <1> SUFFICES ASSUME Init PROVE UnreturnedInv
    OBVIOUS
  <1>1. /\ stack = [t \in Threads |-> <<>>] /\ active = [t \in Threads |-> <<>>]
        /\ rets = {} /\ wrong = FALSE
    BY DEF Init, ReturnInit
  <1>2. stack \in [Threads -> Seq(Calling)] /\ active \in [Threads -> Seq(Entries)]
    BY <1>1
  <1>3. InUse = {}
    BY <1>1 DEF InUse, Open, Kept
  <1>4. RetType
    BY <1>1, <1>2, <1>3, FS_EmptySet DEF RetType
  <1>5. WatchedInv
    BY <1>1, <1>4 DEF WatchedInv, ThreadWatched
  <1>6. DictInv
    BY <1>1, <1>4 DEF DictInv, Mirrored, Ignored
  <1> QED BY <1>5, <1>6 DEF UnreturnedInv

LEMMA UnreturnedNext == UnreturnedInv /\ [Next]_vars => UnreturnedInv'
  <1> SUFFICES ASSUME UnreturnedInv, [Next]_vars PROVE UnreturnedInv'
    OBVIOUS
  <1>1. CASE UNCHANGED <<tool, retVars>>
    <2>1. UNCHANGED <<tool, misread>>
      BY <1>1 DEF retVars
    <2> QED BY <1>1, <2>1, WatchedIdle, DictIdle DEF UnreturnedInv
  <1>2. CASE ReturnNext /\ UNCHANGED tool
    <2>1. ~misread' => ~misread
      BY <1>2 DEF ReturnNext, retVars, GuestCall, GuestTailCall, GuestReturn
    <2> QED BY <1>2, <2>1, WatchedStep, DictStep DEF UnreturnedInv
  <1> QED BY <1>1, <1>2 DEF Next, vars

LEMMA UnreturnedConclusion == UnreturnedInv => UnreturnedIsOpen
  <1> SUFFICES ASSUME UnreturnedInv, tool \in ReturnTools \ (ByName \cup {"sks7"}), ~misread
               PROVE  /\ ~wrong
                      /\ \A r \in rets : r.id \in Open(r.tp)
                      /\ \A t \in Threads : Kept(t) \subseteq Open(t)
                      /\ \A t \in Threads : \A id \in Open(t) \ {0} :
                             id \in Kept(t) \/ \E r \in rets : r.id = id
    BY DEF UnreturnedIsOpen
  <1>1. CASE tool \in ByThread
    <2>1. WatchedInv
      BY <1>1 DEF UnreturnedInv
    <2>2. \A t \in Threads : Kept(t) = {}
      BY <2>1 DEF WatchedInv, Kept
    <2>3. \A r \in rets : r.id \in Open(r.tp)
      BY <2>1 DEF WatchedInv, Open
    <2>4. \A t \in Threads : \A id \in Open(t) \ {0} : \E r \in rets : r.id = id
      BY <2>1 DEF WatchedInv, ThreadWatched, Open
    <2> QED BY <2>1, <2>2, <2>3, <2>4 DEF WatchedInv
  <1>2. CASE tool \in InDict \ {"sks7"}
    <2>1. DictInv
      BY <1>2 DEF UnreturnedInv
    <2>2. ASSUME NEW t \in Threads
          PROVE  Kept(t) \subseteq Open(t) /\ Open(t) \ {0} \subseteq Kept(t)
      <3>1. /\ DOMAIN stack[t] = 1..Len(stack[t]) /\ DOMAIN active[t] = 1..Len(active[t])
        BY <2>1 DEF DictInv, RetType
      <3>2. CASE Mirrored(t)
        BY <3>1, <3>2 DEF Mirrored, Kept, Open
      <3>3. CASE Ignored(t)
        BY <3>1, <3>3 DEF Ignored, Kept, Open
      <3> QED BY <2>1, <3>2, <3>3 DEF DictInv
    <2> QED BY <2>1, <2>2 DEF DictInv
  <1> QED BY <1>1, <1>2 DEF ReturnTools, ByThread, InDict

\* For any threads, programs, return addresses, depths and caps: the entry
\* without a return is a call that has not returned, every recorded call that
\* has not returned is such an entry, and a return is reported for the call
\* that has returned, in every script that goes by the thread; for
\* lsd_ipc_trace without a thread group, as long as it could read the name of
\* lsd in each of its callbacks.
THEOREM UnreturnedIsAlwaysOpen == Spec => []UnreturnedIsOpen
  BY UnreturnedInitially, UnreturnedNext, UnreturnedConclusion, PTL DEF Spec

-----------------------------------------------------------------------------
(* The scripts that watch fixed addresses. *)

Filtered(a) == Table[a] # Programs
Recorded1(a) == \E x \in log : x[1] = a

\* What Arrive takes for an execution of site a that a script must not miss.
Awaited(t, a, name, v) ==
    /\ Prog[t] \in Table[a]
    /\ name = Unreadable => Table[a] = Programs \/ a = "CONTEXT"
    /\ a \in Valued => v > 0

SiteType == site \in [DOMAIN Table -> [hits : Nat, on : BOOLEAN]]

\* A filtered site that is disabled by its limit has its record; so has the
\* site of setup_stall once a thread is remembered.
SitesInv ==
    /\ SiteType /\ opts \in [stop : BOOLEAN, edit : BOOLEAN]
    /\ \A x \in log : x[1] \in DOMAIN Table /\ (Filtered(x[1]) => x[2] \in Table[x[1]])
    /\ \A w \in met : w[1] \in DOMAIN Table /\ (Filtered(w[1]) => Recorded1(w[1]))
    /\ \A a \in DOMAIN Table : Filtered(a) /\ ~site[a].on /\ site[a].hits > 0 => Recorded1(a)
    /\ tool = "stall" /\ seen # {} => Recorded1("MACH_MSG")
    /\ EvidenceTrue

SiteInv == IF tool \in SiteTools THEN SitesInv ELSE met = {} /\ ev = {}

\* What a callback leaves behind, whichever it is.
Outcome(t, a, name, v) ==
    /\ \/ log' = log /\ (Filtered(a) /\ Awaited(t, a, name, v) => Recorded1(a))
       \/ log' = log \cup {Witness(t, a)} /\ (Filtered(a) => Prog[t] \in Table[a])
    /\ site' \in [DOMAIN Table -> [hits : Nat, on : BOOLEAN]]
    /\ \A b \in DOMAIN Table \ {a} : site'[b].hits = site[b].hits /\ (site[b].on => site'[b].on)
    /\ Filtered(a) /\ ~site'[a].on => log' = log \cup {Witness(t, a)}
    /\ \A e \in ev' \ ev : /\ e.site = a
                           /\ e.kind \in {"success", "stop"} => Awaited(t, a, name, v)
    /\ tool = "stall" /\ seen' # seen => a = "MACH_MSG" /\ log' = log \cup {Witness(t, a)}

LEMMA IgnoresOutcome ==
    ASSUME SiteType, NEW t \in Threads, NEW a \in DOMAIN Table, NEW name, NEW v, Ignores,
           site[a].on, Filtered(a) /\ Awaited(t, a, name, v) => Recorded1(a)
    PROVE  Outcome(t, a, name, v)
  BY DEF Outcome, Ignores, SiteType

LEMMA TakesOutcome ==
    ASSUME SiteType, NEW t \in Threads, NEW a \in DOMAIN Table, NEW name, NEW v, NEW n \in Nat,
           NEW kinds, NEW stop \in BOOLEAN, Takes(t, a, n, kinds, stop),
           Filtered(a) => Prog[t] \in Table[a],
           (stop \/ kinds \cap {"success", "stop"} # {}) => Awaited(t, a, name, v),
           tool = "stall" => a = "MACH_MSG"
    PROVE  Outcome(t, a, name, v)
  <1>1. log' = log \cup {Witness(t, a)}
    BY DEF Takes
  <1>2. site' = [site EXCEPT ![a] = [hits |-> IF n = 0 THEN 0 ELSE site[a].hits + 1,
                                     on   |-> n = 0 \/ site[a].hits + 1 < n]]
    BY DEF Takes
  <1>3. site' \in [DOMAIN Table -> [hits : Nat, on : BOOLEAN]]
    BY <1>2 DEF SiteType
  <1>4. \A b \in DOMAIN Table \ {a} : site'[b] = site[b]
    BY <1>2 DEF SiteType
  <1>5. \A e \in ev' \ ev : \E k \in kinds \cup (IF stop THEN {"stop"} ELSE {}) : e = Event(k, a)
    BY DEF Takes
  <1>6. \A e \in ev' \ ev : /\ e.site = a
                            /\ e.kind \in {"success", "stop"} => Awaited(t, a, name, v)
    <2> SUFFICES ASSUME NEW e \in ev' \ ev
                 PROVE  e.site = a /\ (e.kind \in {"success", "stop"} => Awaited(t, a, name, v))
      OBVIOUS
    <2>1. PICK k \in kinds \cup (IF stop THEN {"stop"} ELSE {}) : e = Event(k, a)
      BY <1>5
    <2>2. e.site = a /\ e.kind = k
      BY <2>1 DEF Event
    <2> QED BY <2>1, <2>2
  <1> QED BY <1>1, <1>3, <1>4, <1>6 DEF Outcome

LEMMA ObservesOutcome ==
    ASSUME SiteType, NEW t \in Threads, NEW a \in DOMAIN Table, NEW name, NEW v, NEW n \in Nat,
           NEW kinds, NEW stop \in BOOLEAN, NEW ok \in BOOLEAN, site[a].on,
           Observes(ok, t, a, n, kinds, stop),
           Filtered(a) /\ Awaited(t, a, name, v) => ok,
           ok /\ Filtered(a) => Prog[t] \in Table[a],
           ok /\ (stop \/ kinds \cap {"success", "stop"} # {}) => Awaited(t, a, name, v),
           tool # "stall"
    PROVE  Outcome(t, a, name, v)
  <1>1. CASE ok
    BY <1>1, TakesOutcome DEF Observes
  <1>2. CASE ~ok
    BY <1>2, IgnoresOutcome DEF Observes
  <1> QED BY <1>1, <1>2

LEMMA TableOf ==
    /\ tool = "bks" => Table = BksSites
    /\ tool = "anchor" => Table = AnchorSites
    /\ tool = "cleanup" => Table = CleanupSites
    /\ tool = "surface" => Table = SurfaceSites
    /\ tool = "query" => Table = QuerySites
    /\ tool = "setuppath" => Table = SetupPathSites
    /\ tool = "setupgate" => Table = SetupGateSites
    /\ tool = "wait" => Table = WaitSites
    /\ tool = "pipeline" => Table = PipelineSites
    /\ tool = "scene" => Table = SceneSites
    /\ tool = "stall" => Table = StallSites
    /\ tool = "abort" => Table = AbortSites
    /\ tool = "termination" => Table = TerminationSites
    /\ tool = "powerd" => Table = PowerdSites
    /\ tool = "watchdog" => Table = WatchdogSites
    /\ tool = "deadline" => Table = DeadlineSites
    /\ tool = "plugin" => Table = PluginSites
    /\ tool = "bitmap" => Table = BitmapSites
    /\ tool = "op19" => Table = Op19Sites
  BY DEF Table, Tables

\* A name read is the program's own.
LEMMA NameRead ==
    ASSUME NEW t \in Threads, NEW name \in Names(t)
    PROVE  (name = Prog[t] \/ name = Unreadable) /\ Prog[t] \in Programs /\ Unreadable \notin Programs
  BY LldbAssumption DEF Names, Programs, Unreadable

\* The filter of a site: by name, unless the site is every program's.
Passes(a, name, v) ==
    /\ name \in Table[a] \/ Table[a] = Programs
    /\ a \in Valued => v > 0

LEMMA PassesAwaited ==
    ASSUME NEW t \in Threads, NEW name \in Names(t), NEW a \in DOMAIN Table, NEW v,
           Unreadable \notin Table[a], a # "CONTEXT"
    PROVE  /\ Passes(a, name, v) => Awaited(t, a, name, v)
           /\ Filtered(a) /\ Awaited(t, a, name, v) => Passes(a, name, v)
           /\ Awaited(t, a, name, v) => Prog[t] \in Table[a]
  BY NameRead DEF Passes, Awaited, Filtered

LEMMA FilterOutcome ==
    ASSUME SiteType, NEW t \in Threads, NEW a \in DOMAIN Table, NEW name \in Names(t), NEW v,
           NEW n \in Nat, NEW kinds, NEW stop \in BOOLEAN, NEW ok \in BOOLEAN, site[a].on,
           Observes(ok, t, a, n, kinds, stop), ok <=> Passes(a, name, v),
           Unreadable \notin Table[a], a # "CONTEXT", tool # "stall"
    PROVE  Outcome(t, a, name, v)
  BY PassesAwaited, ObservesOutcome

\* Each script's sites and the programs they are meant for.
LEMMA NoneUnreadable == \A a \in DOMAIN Table : tool \in SiteTools => Unreadable \notin Table[a]
  <1> SUFFICES ASSUME NEW a \in DOMAIN Table, tool \in SiteTools PROVE Unreadable \notin Table[a]
    OBVIOUS
  <1> USE TableOf DEF Unreadable, Programs
  <1>1. tool \in {"bks", "anchor", "cleanup", "surface", "query", "setuppath", "setupgate", "wait",
                  "pipeline", "scene", "stall", "abort", "termination", "powerd", "watchdog",
                  "deadline", "plugin", "bitmap", "op19"}
    BY DEF SiteTools, Tables
  <1>2. CASE tool = "bks"
    BY <1>2 DEF BksSites
  <1>3. CASE tool = "anchor"
    BY <1>3 DEF AnchorSites
  <1>4. CASE tool = "cleanup"
    BY <1>4 DEF CleanupSites
  <1>5. CASE tool = "surface"
    BY <1>5 DEF SurfaceSites
  <1>6. CASE tool = "query"
    BY <1>6 DEF QuerySites
  <1>7. CASE tool = "setuppath"
    BY <1>7 DEF SetupPathSites
  <1>8. CASE tool = "setupgate"
    BY <1>8 DEF SetupGateSites
  <1>9. CASE tool = "wait"
    BY <1>9 DEF WaitSites
  <1>10. CASE tool = "pipeline"
    BY <1>10 DEF PipelineSites
  <1>11. CASE tool = "scene"
    BY <1>11 DEF SceneSites
  <1>12. CASE tool = "stall"
    BY <1>12 DEF StallSites
  <1>13. CASE tool = "abort"
    BY <1>13 DEF AbortSites
  <1>14. CASE tool = "termination"
    BY <1>14 DEF TerminationSites
  <1>15. CASE tool = "powerd"
    BY <1>15 DEF PowerdSites
  <1>16. CASE tool = "watchdog"
    BY <1>16 DEF WatchdogSites
  <1>17. CASE tool = "deadline"
    BY <1>17 DEF DeadlineSites
  <1>18. CASE tool = "plugin"
    BY <1>18 DEF PluginSites
  <1>19. CASE tool = "bitmap"
    BY <1>19 DEF BitmapSites
  <1>20. CASE tool = "op19"
    BY <1>20 DEF Op19Sites
  <1> QED BY <1>1, <1>2, <1>3, <1>4, <1>5, <1>6, <1>7, <1>8, <1>9, <1>10, <1>11, <1>12, <1>13, <1>14, <1>15, <1>16, <1>17, <1>18, <1>19, <1>20

LEMMA ValueFacts ==
    ASSUME NEW a, NEW v \in Values(a)
    PROVE  /\ a \in Valued \ {"DECISIVE"} => v \in {0, 1}
           /\ a = "DECISIVE" => v \in {0, 1, 2}
  BY DEF Values, Valued

LEMMA BksOutcome ==
    ASSUME SiteType, tool \in SiteTools, opts \in [stop : BOOLEAN, edit : BOOLEAN],
           NEW t \in Threads, NEW a \in DOMAIN Table,
           NEW name \in Names(t), NEW v \in Values(a), site[a].on,
           BksHit(t, a, name, v)
    PROVE  Outcome(t, a, name, v)
  <1> DEFINE ok == BksAllowed(a, name)
             kinds == {"progress"} \cup Success(a)
                      \cup (IF opts.edit /\ a = "WAIT_BRANCH" /\ name = "SpringBoard" /\ v = 1 THEN {"diagnostic"} ELSE {})
             stop == opts.stop
  <1>1. tool = "bks" /\ Observes(ok, t, a, Budget, kinds, stop)
    BY DEF BksHit
  <1>2. Table = BksSites
    BY <1>1, TableOf
  <1>3. a # "CONTEXT" /\ a \notin Valued
    BY <1>2 DEF BksSites, Valued
  <1>4. ok <=> Passes(a, name, v)
    BY <1>2, <1>3, NameRead, ValueFacts DEF BksSites, Passes, Programs, Valued, BksAllowed
  <1>5. ok \in BOOLEAN /\ stop \in BOOLEAN /\ Budget \in Nat
    BY SiteAssumption DEF BksAllowed
  <1> HIDE DEF ok, kinds, stop
  <1> QED BY <1>1, <1>3, <1>4, <1>5, NoneUnreadable, FilterOutcome

LEMMA BootstrapOutcome ==
    ASSUME SiteType, tool \in SiteTools, opts \in [stop : BOOLEAN, edit : BOOLEAN],
           NEW t \in Threads, NEW a \in DOMAIN Table,
           NEW name \in Names(t), NEW v \in Values(a), site[a].on,
           BootstrapHit(t, a, name, v)
    PROVE  Outcome(t, a, name, v)
  <1> DEFINE ok == name = "backboardd"
             kinds == {"success"}
             stop == FALSE
  <1>1. tool = "anchor" /\ Observes(ok, t, a, 1, kinds, stop)
    BY DEF BootstrapHit
  <1>2. Table = AnchorSites
    BY <1>1, TableOf
  <1>3. a # "CONTEXT" /\ a \notin Valued /\ a = "BOOTSTRAP"
    BY <1>2 DEF AnchorSites, Valued, BootstrapHit
  <1>4. ok <=> Passes(a, name, v)
    BY <1>2, <1>3, NameRead, ValueFacts DEF AnchorSites, Passes, Programs, Valued
  <1>5. ok \in BOOLEAN /\ stop \in BOOLEAN /\ 1 \in Nat
    BY SiteAssumption
  <1> HIDE DEF ok, kinds, stop
  <1> QED BY <1>1, <1>3, <1>4, <1>5, NoneUnreadable, FilterOutcome

LEMMA CleanupOutcome ==
    ASSUME SiteType, tool \in SiteTools, opts \in [stop : BOOLEAN, edit : BOOLEAN],
           NEW t \in Threads, NEW a \in DOMAIN Table,
           NEW name \in Names(t), NEW v \in Values(a), site[a].on,
           CleanupHit(t, a, name, v)
    PROVE  Outcome(t, a, name, v)
  <1> DEFINE ok == name = "daemon"
             kinds == {"progress"} \cup (IF a = "IXD" THEN Success(a) ELSE {})
             stop == (a = "IXD" /\ opts.stop)
  <1>1. tool = "cleanup" /\ Observes(ok, t, a, Budget, kinds, stop)
    BY DEF CleanupHit
  <1>2. Table = CleanupSites
    BY <1>1, TableOf
  <1>3. a # "CONTEXT" /\ a \notin Valued
    BY <1>2 DEF CleanupSites, Valued
  <1>4. ok <=> Passes(a, name, v)
    BY <1>2, <1>3, NameRead, ValueFacts DEF CleanupSites, Passes, Programs, Valued
  <1>5. ok \in BOOLEAN /\ stop \in BOOLEAN /\ Budget \in Nat
    BY SiteAssumption
  <1> HIDE DEF ok, kinds, stop
  <1> QED BY <1>1, <1>3, <1>4, <1>5, NoneUnreadable, FilterOutcome

LEMMA PluginOutcome ==
    ASSUME SiteType, tool \in SiteTools, opts \in [stop : BOOLEAN, edit : BOOLEAN],
           NEW t \in Threads, NEW a \in DOMAIN Table,
           NEW name \in Names(t), NEW v \in Values(a), site[a].on,
           PluginHit(t, a, name, v)
    PROVE  Outcome(t, a, name, v)
  <1> DEFINE ok == name = "daemon"
             kinds == {"progress"}
             stop == FALSE
  <1>1. tool = "plugin" /\ Observes(ok, t, a, Budget, kinds, stop)
    BY DEF PluginHit
  <1>2. Table = PluginSites
    BY <1>1, TableOf
  <1>3. a # "CONTEXT" /\ a \notin Valued
    BY <1>2 DEF PluginSites, Valued
  <1>4. ok <=> Passes(a, name, v)
    BY <1>2, <1>3, NameRead, ValueFacts DEF PluginSites, Passes, Programs, Valued
  <1>5. ok \in BOOLEAN /\ stop \in BOOLEAN /\ Budget \in Nat
    BY SiteAssumption
  <1> HIDE DEF ok, kinds, stop
  <1> QED BY <1>1, <1>3, <1>4, <1>5, NoneUnreadable, FilterOutcome

LEMMA SetupPathOutcome ==
    ASSUME SiteType, tool \in SiteTools, opts \in [stop : BOOLEAN, edit : BOOLEAN],
           NEW t \in Threads, NEW a \in DOMAIN Table,
           NEW name \in Names(t), NEW v \in Values(a), site[a].on,
           SetupPathHit(t, a, name, v)
    PROVE  Outcome(t, a, name, v)
  <1> DEFINE ok == TRUE
             kinds == Success(a)
             stop == FALSE
  <1>1. tool = "setuppath" /\ Observes(ok, t, a, Budget, kinds, stop)
    BY DEF SetupPathHit
  <1>2. Table = SetupPathSites
    BY <1>1, TableOf
  <1>3. a # "CONTEXT" /\ a \notin Valued
    BY <1>2 DEF SetupPathSites, Valued
  <1>4. ok <=> Passes(a, name, v)
    BY <1>2, <1>3, NameRead, ValueFacts DEF SetupPathSites, Passes, Programs, Valued
  <1>5. ok \in BOOLEAN /\ stop \in BOOLEAN /\ Budget \in Nat
    BY SiteAssumption
  <1> HIDE DEF ok, kinds, stop
  <1> QED BY <1>1, <1>3, <1>4, <1>5, NoneUnreadable, FilterOutcome

LEMMA SetupGateOutcome ==
    ASSUME SiteType, tool \in SiteTools, opts \in [stop : BOOLEAN, edit : BOOLEAN],
           NEW t \in Threads, NEW a \in DOMAIN Table,
           NEW name \in Names(t), NEW v \in Values(a), site[a].on,
           SetupGateHit(t, a, name, v)
    PROVE  Outcome(t, a, name, v)
  <1> DEFINE ok == TRUE
             kinds == {}
             stop == FALSE
  <1>1. tool = "setupgate" /\ Observes(ok, t, a, Budget, kinds, stop)
    BY DEF SetupGateHit
  <1>2. Table = SetupGateSites
    BY <1>1, TableOf
  <1>3. a # "CONTEXT" /\ a \notin Valued
    BY <1>2 DEF SetupGateSites, Valued
  <1>4. ok <=> Passes(a, name, v)
    BY <1>2, <1>3, NameRead, ValueFacts DEF SetupGateSites, Passes, Programs, Valued
  <1>5. ok \in BOOLEAN /\ stop \in BOOLEAN /\ Budget \in Nat
    BY SiteAssumption
  <1> HIDE DEF ok, kinds, stop
  <1> QED BY <1>1, <1>3, <1>4, <1>5, NoneUnreadable, FilterOutcome

LEMMA PipelineOutcome ==
    ASSUME SiteType, tool \in SiteTools, opts \in [stop : BOOLEAN, edit : BOOLEAN],
           NEW t \in Threads, NEW a \in DOMAIN Table,
           NEW name \in Names(t), NEW v \in Values(a), site[a].on,
           PipelineHit(t, a, name, v)
    PROVE  Outcome(t, a, name, v)
  <1> DEFINE ok == name \in {"SpringBoard", "Setup"}
             kinds == {}
             stop == FALSE
  <1>1. tool = "pipeline" /\ Observes(ok, t, a, Budget, kinds, stop)
    BY DEF PipelineHit
  <1>2. Table = PipelineSites
    BY <1>1, TableOf
  <1>3. a # "CONTEXT" /\ a \notin Valued
    BY <1>2 DEF PipelineSites, Valued
  <1>4. ok <=> Passes(a, name, v)
    BY <1>2, <1>3, NameRead, ValueFacts DEF PipelineSites, Passes, Programs, Valued
  <1>5. ok \in BOOLEAN /\ stop \in BOOLEAN /\ Budget \in Nat
    BY SiteAssumption
  <1> HIDE DEF ok, kinds, stop
  <1> QED BY <1>1, <1>3, <1>4, <1>5, NoneUnreadable, FilterOutcome

LEMMA CheckpointOutcome ==
    ASSUME SiteType, tool \in SiteTools, opts \in [stop : BOOLEAN, edit : BOOLEAN],
           NEW t \in Threads, NEW a \in DOMAIN Table,
           NEW name \in Names(t), NEW v \in Values(a), site[a].on,
           SceneCheckpoint(t, a, name, v)
    PROVE  Outcome(t, a, name, v)
  <1> DEFINE ok == name = "Setup"
             kinds == {}
             stop == FALSE
  <1>1. tool = "scene" /\ Observes(ok, t, a, Budget, kinds, stop)
    BY DEF SceneCheckpoint
  <1>2. Table = SceneSites
    BY <1>1, TableOf
  <1>3. a # "CONTEXT" /\ a \notin Valued /\ a \in {"CHECKPOINT", "RELAUNCHED"}
    BY <1>2 DEF SceneSites, Valued, SceneCheckpoint
  <1>4. ok <=> Passes(a, name, v)
    BY <1>2, <1>3, NameRead, ValueFacts DEF SceneSites, Passes, Programs, Valued
  <1>5. ok \in BOOLEAN /\ stop \in BOOLEAN /\ Budget \in Nat
    BY SiteAssumption
  <1> HIDE DEF ok, kinds, stop
  <1> QED BY <1>1, <1>3, <1>4, <1>5, NoneUnreadable, FilterOutcome

LEMMA WatchdogOutcome ==
    ASSUME SiteType, tool \in SiteTools, opts \in [stop : BOOLEAN, edit : BOOLEAN],
           NEW t \in Threads, NEW a \in DOMAIN Table,
           NEW name \in Names(t), NEW v \in Values(a), site[a].on,
           WatchdogHit(t, a, name, v)
    PROVE  Outcome(t, a, name, v)
  <1> DEFINE ok == name = "SpringBoard"
             kinds == (IF opts.edit /\ v = 1 THEN {"edited"} ELSE {})
             stop == FALSE
  <1>1. tool = "watchdog" /\ Observes(ok, t, a, 0, kinds, stop)
    BY DEF WatchdogHit
  <1>2. Table = WatchdogSites
    BY <1>1, TableOf
  <1>3. a # "CONTEXT" /\ a \notin Valued
    BY <1>2 DEF WatchdogSites, Valued
  <1>4. ok <=> Passes(a, name, v)
    BY <1>2, <1>3, NameRead, ValueFacts DEF WatchdogSites, Passes, Programs, Valued
  <1>5. ok \in BOOLEAN /\ stop \in BOOLEAN /\ 0 \in Nat
    BY SiteAssumption
  <1> HIDE DEF ok, kinds, stop
  <1> QED BY <1>1, <1>3, <1>4, <1>5, NoneUnreadable, FilterOutcome

LEMMA Op19Outcome ==
    ASSUME SiteType, tool \in SiteTools, opts \in [stop : BOOLEAN, edit : BOOLEAN],
           NEW t \in Threads, NEW a \in DOMAIN Table,
           NEW name \in Names(t), NEW v \in Values(a), site[a].on,
           Op19Hit(t, a, name, v)
    PROVE  Outcome(t, a, name, v)
  <1> DEFINE ok == v = 1
             kinds == (IF site[a].hits = 2 THEN {"success"} ELSE {})
             stop == FALSE
  <1>1. tool = "op19" /\ Observes(ok, t, a, 3, kinds, stop)
    BY DEF Op19Hit
  <1>2. Table = Op19Sites
    BY <1>1, TableOf
  <1>3. a # "CONTEXT"
    BY <1>2 DEF Op19Sites, Valued
  <1>4. ok <=> Passes(a, name, v)
    BY <1>2, <1>3, NameRead, ValueFacts DEF Op19Sites, Passes, Programs, Valued
  <1>5. ok \in BOOLEAN /\ stop \in BOOLEAN /\ 3 \in Nat
    BY SiteAssumption
  <1> HIDE DEF ok, kinds, stop
  <1> QED BY <1>1, <1>3, <1>4, <1>5, NoneUnreadable, FilterOutcome

LEMMA ContextOutcome ==
    ASSUME SiteType, tool \in SiteTools, opts \in [stop : BOOLEAN, edit : BOOLEAN],
           NEW t \in Threads, NEW a \in DOMAIN Table,
           NEW name \in Names(t), NEW v \in Values(a), site[a].on,
           ContextHit(t, a, name, v)
    PROVE  Outcome(t, a, name, v)
  <1> DEFINE ok == Prog[t] = "backboardd"
  <1>1. tool = "anchor" /\ a = "CONTEXT" /\ Observes(ok, t, a, 1, {"success"}, FALSE)
    BY DEF ContextHit
  <1>2. Table[a] = {"backboardd"}
    BY <1>1, TableOf DEF AnchorSites
  <1>3. ok <=> Awaited(t, a, name, v)
    BY <1>1, <1>2 DEF Awaited, Valued
  <1>4. (ok => Prog[t] \in Table[a]) /\ ok \in BOOLEAN
    BY <1>2
  <1> HIDE DEF ok
  <1> QED BY <1>1, <1>3, <1>4, ObservesOutcome

LEMMA SurfaceOutcome ==
    ASSUME SiteType, tool \in SiteTools, opts \in [stop : BOOLEAN, edit : BOOLEAN],
           NEW t \in Threads, NEW a \in DOMAIN Table,
           NEW name \in Names(t), NEW v \in Values(a), site[a].on,
           SurfaceHit(t, a, name, v)
    PROVE  Outcome(t, a, name, v)
  <1> DEFINE success == opts.stop /\ (a = "DECISIVE" => v = 2)
             kinds == IF success THEN {"success"} ELSE {}
  <1>1. tool = "surface" /\ Table = SurfaceSites
    BY TableOf DEF SurfaceHit
  <1>2. a # "CONTEXT" /\ a \in {"USER", "DECISIVE", "KERNEL"}
    BY <1>1 DEF SurfaceSites
  <1>3. SurfaceWanted(a, name, v) <=> Passes(a, name, v)
    BY <1>1, <1>2, NameRead DEF SurfaceSites, SurfaceWanted, Passes, Valued, Programs
  <1>4. success \in BOOLEAN /\ Budget \in Nat
    BY SiteAssumption
  <1>5. CASE SurfaceWanted(a, name, v)
    <2>1. Takes(t, a, Budget, kinds, success)
      BY <1>5 DEF SurfaceHit
    <2> HIDE DEF success, kinds
    <2> QED BY <1>1, <1>2, <1>3, <1>4, <1>5, <2>1, NoneUnreadable, PassesAwaited, TakesOutcome
  <1>6. CASE ~SurfaceWanted(a, name, v)
    <2>1. Ignores
      BY <1>6 DEF SurfaceHit
    <2> QED BY <1>2, <1>3, <1>6, <2>1, NoneUnreadable, PassesAwaited, IgnoresOutcome
  <1> QED BY <1>5, <1>6

LEMMA QueryOutcome ==
    ASSUME SiteType, tool \in SiteTools, opts \in [stop : BOOLEAN, edit : BOOLEAN],
           NEW t \in Threads, NEW a \in DOMAIN Table,
           NEW name \in Names(t), NEW v \in Values(a), site[a].on,
           QueryHit(t, a, name, v)
    PROVE  Outcome(t, a, name, v)
  <1>1. tool = "query" /\ Table = QuerySites
    BY TableOf DEF QueryHit
  <1>2. a \in {"QD_ENTRY", "GATES"} /\ DOMAIN Table = {"QD_ENTRY", "GATES"} /\ ~Filtered(a)
    BY <1>1 DEF QuerySites, Filtered
  <1>3. site \in [{"QD_ENTRY", "GATES"} -> [hits : Nat, on : BOOLEAN]]
    BY <1>2 DEF SiteType
  <1>4. UNCHANGED <<log, ev, seen>>
    BY DEF QueryHit
  <1>5. PICK x \in BOOLEAN, y \in BOOLEAN :
           site' = [site EXCEPT ![a] = [hits |-> site[a].hits + 1, on |-> x],
                                !["GATES"].on = IF a = "GATES" THEN x ELSE @ \/ y]
    <2> DEFINE n == site[a].hits + 1
               y == /\ a = "QD_ENTRY" /\ name = "backboardd" /\ v = 1
                    /\ ~site["GATES"].on /\ site["GATES"].hits = 0
    <2>1. site' = [site EXCEPT ![a] = [hits |-> n, on |-> n < Budget],
                               !["GATES"].on = IF a = "GATES" THEN n < Budget ELSE @ \/ y]
      BY DEF QueryHit
    <2>2. (n < Budget) \in BOOLEAN /\ y \in BOOLEAN
      OBVIOUS
    <2> QED BY <2>1, <2>2
  <1>6. site' \in [{"QD_ENTRY", "GATES"} -> [hits : Nat, on : BOOLEAN]]
    BY <1>2, <1>3, <1>5
  <1>7. \A b \in {"QD_ENTRY", "GATES"} \ {a} : site'[b].hits = site[b].hits /\ (site[b].on => site'[b].on)
    BY <1>2, <1>3, <1>5
  <1> QED BY <1>1, <1>2, <1>4, <1>6, <1>7 DEF Outcome

LEMMA WaitOutcome ==
    ASSUME SiteType, tool \in SiteTools, opts \in [stop : BOOLEAN, edit : BOOLEAN],
           NEW t \in Threads, NEW a \in DOMAIN Table,
           NEW name \in Names(t), NEW v \in Values(a), site[a].on,
           WaitHit(t, a, name, v)
    PROVE  Outcome(t, a, name, v)
  <1>1. tool = "wait" /\ Table = WaitSites
    BY TableOf DEF WaitHit
  <1>2. ~Filtered(a)
    BY <1>1 DEF WaitSites, Filtered
  <1>3. CASE Ignores
    BY <1>2, <1>3, IgnoresOutcome
  <1>4. CASE Takes(t, a, Budget, {}, FALSE)
    BY <1>1, <1>2, <1>4, TakesOutcome, SiteAssumption
  <1> QED BY <1>3, <1>4 DEF WaitHit

LEMMA MainOutcome ==
    ASSUME SiteType, tool \in SiteTools, opts \in [stop : BOOLEAN, edit : BOOLEAN],
           NEW t \in Threads, NEW a \in DOMAIN Table,
           NEW name \in Names(t), NEW v \in Values(a), site[a].on,
           SceneMain(t, a, name, v)
    PROVE  Outcome(t, a, name, v)
  <1>1. tool = "scene" /\ Table = SceneSites /\ a = "MAIN"
    BY TableOf DEF SceneMain
  <1> DEFINE D == {"MAIN", "CHECKPOINT", "RELAUNCHED"}
  <1>2. Table[a] = {"Setup"} /\ a \notin Valued /\ DOMAIN Table = D
    BY <1>1 DEF SceneSites, Valued
  <1>3. CASE name # "Setup"
    <2>1. Ignores /\ ~Passes(a, name, v)
      BY <1>2, <1>3 DEF SceneMain, Passes, Programs
    <2> QED BY <1>1, <2>1, NoneUnreadable, PassesAwaited, IgnoresOutcome
  <1>4. CASE name = "Setup"
    <2>1. Prog[t] = "Setup" /\ Witness(t, a) = <<a, "Setup">> /\ Awaited(t, a, name, v)
      <3>1. Prog[t] = "Setup"
        BY <1>4, NameRead DEF Unreadable
      <3>2. {"Setup"} # Programs
        BY DEF Programs
      <3> QED BY <1>2, <1>4, <3>1, <3>2 DEF Witness, Awaited, Unreadable
    <2>2. log' = log \cup {Witness(t, a)} /\ UNCHANGED seen
      BY <1>4, <2>1 DEF SceneMain
    <2>3. \A e \in ev' \ ev : e.site = a
      BY <1>4 DEF SceneMain, Event
    <2>4. /\ v \in 0..2
          /\ site' = IF v = 0 THEN site
                     ELSE [site EXCEPT ![LaunchSite[v]].on = @ \/ site[LaunchSite[v]].hits = 0]
      BY <1>1, <1>4 DEF SceneMain, Values
    <2>5. site \in [D -> [hits : Nat, on : BOOLEAN]]
      BY <1>2 DEF SiteType
    <2>6. /\ site' \in [D -> [hits : Nat, on : BOOLEAN]] /\ site'["MAIN"] = site["MAIN"]
          /\ \A c \in D : site'[c].hits = site[c].hits /\ (site[c].on => site'[c].on)
      <3>1. v = 0 \/ v = 1 \/ v = 2
        BY <2>4
      <3>2. LaunchSite[1] = "CHECKPOINT" /\ LaunchSite[2] = "RELAUNCHED"
        BY DEF LaunchSite
      <3>3. CASE v = 0
        BY <2>4, <2>5, <3>3
      <3>4. ASSUME NEW c \in D \ {"MAIN"}, site' = [site EXCEPT ![c].on = @ \/ site[c].hits = 0]
            PROVE  <2>6!1 /\ <2>6!2
        BY <2>5, <3>4
      <3> QED BY <2>4, <3>1, <3>2, <3>3, <3>4
    <2> QED BY <1>1, <1>2, <2>1, <2>2, <2>3, <2>6 DEF Outcome
  <1> QED BY <1>3, <1>4

LEMMA AbortOutcome ==
    ASSUME SiteType, tool \in SiteTools, opts \in [stop : BOOLEAN, edit : BOOLEAN],
           NEW t \in Threads, NEW a \in DOMAIN Table,
           NEW name \in Names(t), NEW v \in Values(a), site[a].on,
           AbortHit(t, a, name, v)
    PROVE  Outcome(t, a, name, v)
  <1>1. tool = "abort" /\ Table = AbortSites
    BY TableOf DEF AbortHit
  <1>2. /\ a = "ABORT" => Table[a] = {"SpringBoard", "Setup"} /\ a \notin Valued
        /\ a = "EXIT" => Table[a] = {"Setup"} /\ a \notin Valued
        /\ a = "INDICATOR" => Table[a] = {"SpringBoard"} /\ a \in Valued
        /\ a = "SWITCHER" => Table[a] = {"SpringBoard"} /\ a \notin Valued
        /\ a # "CONTEXT"
    BY <1>1 DEF AbortSites, Valued
  <1>3. {"SpringBoard", "Setup"} # Programs /\ {"Setup"} # Programs /\ {"SpringBoard"} # Programs
    BY DEF Programs
  <1>4. ASSUME NEW ok \in BOOLEAN, NEW stop \in BOOLEAN, Observes(ok, t, a, 0, {}, stop),
               ok <=> Passes(a, name, v)
        PROVE  Outcome(t, a, name, v)
    BY <1>1, <1>2, <1>4, NoneUnreadable, FilterOutcome
  <1>5. CASE a = "ABORT" /\ Observes(name \in {"SpringBoard", "Setup"}, t, a, 0, {}, TRUE)
    <2> DEFINE ok == name \in {"SpringBoard", "Setup"}
    <2>1. Table[a] = {"SpringBoard", "Setup"} /\ Table[a] # Programs /\ a \notin Valued
      BY <1>2, <1>3, <1>5
    <2>2. ok <=> Passes(a, name, v)
      BY <2>1 DEF Passes
    <2>3. ok \in BOOLEAN
      OBVIOUS
    <2>4. Observes(ok, t, a, 0, {}, TRUE)
      BY <1>5, Zenon
    <2> HIDE DEF ok
    <2> QED BY <1>4, <2>2, <2>3, <2>4
  <1>6. CASE a = "EXIT" /\ Observes(name = "Setup", t, a, 0, {}, TRUE)
    <2> DEFINE ok == name = "Setup"
    <2>1. (ok <=> Passes(a, name, v)) /\ ok \in BOOLEAN /\ Observes(ok, t, a, 0, {}, TRUE)
      BY <1>2, <1>3, <1>6 DEF Passes
    <2> HIDE DEF ok
    <2> QED BY <1>4, <2>1
  <1>7. CASE a = "INDICATOR" /\ Observes(name = "SpringBoard" /\ v = 1, t, a, 0, {}, ~opts.edit)
    <2> DEFINE ok == name = "SpringBoard" /\ v = 1
               stop == ~opts.edit
    <2>1. /\ ok <=> Passes(a, name, v)
          /\ ok \in BOOLEAN /\ stop \in BOOLEAN /\ Observes(ok, t, a, 0, {}, stop)
      BY <1>2, <1>3, <1>7, ValueFacts DEF Passes
    <2> HIDE DEF ok, stop
    <2> QED BY <1>4, <2>1
  <1>8. CASE a = "SWITCHER" /\ Observes(name = "SpringBoard", t, a, 0, {}, ~opts.edit)
    <2> DEFINE ok == name = "SpringBoard"
               stop == ~opts.edit
    <2>1. /\ ok <=> Passes(a, name, v)
          /\ ok \in BOOLEAN /\ stop \in BOOLEAN /\ Observes(ok, t, a, 0, {}, stop)
      BY <1>2, <1>3, <1>8 DEF Passes
    <2> HIDE DEF ok, stop
    <2> QED BY <1>4, <2>1
  <1> QED BY <1>5, <1>6, <1>7, <1>8 DEF AbortHit

LEMMA TerminationOutcome ==
    ASSUME SiteType, tool \in SiteTools, opts \in [stop : BOOLEAN, edit : BOOLEAN],
           NEW t \in Threads, NEW a \in DOMAIN Table,
           NEW name \in Names(t), NEW v \in Values(a), site[a].on,
           TerminationHit(t, a, name, v)
    PROVE  Outcome(t, a, name, v)
  <1>1. tool = "termination" /\ Table = TerminationSites
    BY TableOf DEF TerminationHit
  <1>2. /\ a = "SYSCALL" => Table[a] = Programs /\ a \notin Valued
        /\ a = "USER_TERMINATE" => Table[a] = {"daemon"} /\ a \in Valued
        /\ a # "CONTEXT"
    BY <1>1 DEF TerminationSites, Valued
  <1>3. CASE a = "SYSCALL" /\ Observes(TRUE, t, a, Budget, {}, v = 1 /\ ~opts.edit)
    <2> DEFINE ok == TRUE
               stop == v = 1 /\ ~opts.edit
    <2>1. Passes(a, name, v)
      BY <1>2, <1>3 DEF Passes
    <2>2. stop \in BOOLEAN /\ Observes(ok, t, a, Budget, {}, stop) /\ ok \in BOOLEAN
      BY <1>3
    <2>3. ok <=> Passes(a, name, v)
      BY <2>1
    <2>4. Budget \in Nat
      BY SiteAssumption
    <2> HIDE DEF ok, stop
    <2> QED BY <1>1, <1>2, <2>2, <2>3, <2>4, NoneUnreadable, FilterOutcome
  <1>4. CASE a = "USER_TERMINATE" /\ Observes(name = "daemon" /\ v = 1, t, a, 0, {}, TRUE)
    <2> DEFINE ok == name = "daemon" /\ v = 1
               stop == TRUE
    <2>1. Table[a] = {"daemon"} /\ {"daemon"} # Programs /\ a \in Valued /\ a # "DECISIVE"
      BY <1>2, <1>4 DEF Programs
    <2>2. v \in {0, 1}
      BY <2>1, ValueFacts
    <2>3. ok <=> Passes(a, name, v)
      BY <2>1, <2>2 DEF Passes
    <2>4. ok \in BOOLEAN /\ Observes(ok, t, a, 0, {}, stop) /\ 0 \in Nat /\ stop \in BOOLEAN
      BY <1>4
    <2> HIDE DEF ok, stop
    <2> QED BY <1>1, <1>2, <2>3, <2>4, NoneUnreadable, FilterOutcome
  <1> QED BY <1>3, <1>4 DEF TerminationHit

LEMMA BitmapOutcome ==
    ASSUME SiteType, tool \in SiteTools, opts \in [stop : BOOLEAN, edit : BOOLEAN],
           NEW t \in Threads, NEW a \in DOMAIN Table,
           NEW name \in Names(t), NEW v \in Values(a), site[a].on,
           BitmapHit(t, a, name, v)
    PROVE  Outcome(t, a, name, v)
  <1>1. tool = "bitmap" /\ Table = BitmapSites
    BY TableOf DEF BitmapHit
  <1>2. Table[a] = Programs /\ a # "CONTEXT" /\ a \notin Valued
    BY <1>1 DEF BitmapSites, Valued
  <1>3. CASE UNCHANGED <<site, srv, raw, ev, paused, log>>
    BY <1>1, <1>2, <1>3 DEF Outcome, Filtered, SiteType
  <1>4. CASE Observes(TRUE, t, a, 1, {}, TRUE)
    <2>1. Passes(a, name, v)
      BY <1>2 DEF Passes
    <2> QED BY <1>1, <1>2, <1>4, <2>1, NoneUnreadable, FilterOutcome
  <1> QED BY <1>3, <1>4 DEF BitmapHit

LEMMA StallOutcome ==
    ASSUME SiteType, tool \in SiteTools, opts \in [stop : BOOLEAN, edit : BOOLEAN],
           tool = "stall" /\ seen # {} => Recorded1("MACH_MSG"),
           NEW t \in Threads, NEW a \in DOMAIN Table,
           NEW name \in Names(t), NEW v \in Values(a), site[a].on,
           StallHit(t, a, name, v)
    PROVE  Outcome(t, a, name, v)
  <1>1. tool = "stall" /\ Table = StallSites
    BY TableOf DEF StallHit
  <1>2. Table[a] = {"Setup"} /\ a = "MACH_MSG" /\ a \notin Valued
    BY <1>1 DEF StallSites, Valued
  <1>3. CASE name = "Setup" /\ t \notin seen
    <2>1. Takes(t, a, Budget, {}, TRUE)
      BY <1>3 DEF StallHit
    <2>2. Prog[t] \in Table[a] /\ Awaited(t, a, name, v)
      <3>1. Prog[t] = "Setup" /\ name # Unreadable
        BY <1>3, NameRead DEF Unreadable
      <3> QED BY <1>2, <3>1 DEF Awaited
    <2>3. Budget \in Nat
      BY SiteAssumption
    <2> QED BY <1>2, <2>1, <2>2, <2>3, TakesOutcome
  <1>4. CASE ~(name = "Setup" /\ t \notin seen)
    <2>1. Ignores
      BY <1>4 DEF StallHit
    <2>2. Filtered(a) /\ Awaited(t, a, name, v) => Recorded1(a)
      <3>1. CASE t \in seen
        BY <1>1, <1>2, <3>1
      <3>2. CASE name # "Setup"
        <4>1. {"Setup"} # Programs
          BY DEF Programs
        <4>2. ~Awaited(t, a, name, v)
          BY <1>2, <3>2, <4>1, NameRead DEF Awaited
        <4> QED BY <4>2
      <3> QED BY <1>4, <3>1, <3>2
    <2> QED BY <2>1, <2>2, IgnoresOutcome
  <1> QED BY <1>3, <1>4

LEMMA AppReturnOutcome ==
    ASSUME SiteType, tool \in SiteTools, opts \in [stop : BOOLEAN, edit : BOOLEAN],
           NEW t \in Threads, NEW a \in DOMAIN Table,
           NEW name \in Names(t), NEW v \in Values(a), site[a].on,
           SetupAppReturn(t, a, name, v)
    PROVE  Outcome(t, a, name, v)
  <1> DEFINE n == IF site[a].hits < Budget THEN site[a].hits + 1 ELSE Budget
             mine == name = "SpringBoard"
             live == ~(mine /\ n >= Budget)
  <1>1. tool = "abort" /\ Table = AbortSites /\ a = "SETUPAPP_RET"
    BY TableOf DEF SetupAppReturn
  <1>2. Table[a] = {"SpringBoard"} /\ a \notin Valued /\ a # "CONTEXT"
    BY <1>1 DEF AbortSites, Valued
  <1>3. {"SpringBoard"} # Programs
    BY DEF Programs
  <1>4. /\ site' = [site EXCEPT ![a] = [hits |-> n, on |-> live]]
        /\ log' = IF mine THEN log \cup {<<a, Prog[t]>>} ELSE log
        /\ UNCHANGED <<srv, seen, raw, ev, paused>>
    BY DEF SetupAppReturn
  <1>5. n \in Nat /\ live \in BOOLEAN /\ (~mine => live)
    BY SiteAssumption DEF SiteType
  <1>6. mine => Prog[t] = "SpringBoard"
    BY NameRead DEF Unreadable
  <1>7. ~mine => ~Awaited(t, a, name, v)
    BY <1>2, <1>3, NameRead DEF Awaited
  <1>8. Witness(t, a) = <<a, Prog[t]>>
    BY <1>2, <1>3 DEF Witness
  <1> HIDE DEF n, mine, live
  <1>9. site' \in [DOMAIN Table -> [hits : Nat, on : BOOLEAN]]
        /\ (\A b \in DOMAIN Table \ {a} : site'[b] = site[b]) /\ site'[a].on = live
    BY <1>4, <1>5 DEF SiteType
  <1>10. CASE mine
    BY <1>1, <1>2, <1>4, <1>6, <1>8, <1>9, <1>10 DEF Outcome
  <1>11. CASE ~mine
    BY <1>1, <1>4, <1>5, <1>7, <1>9, <1>11 DEF Outcome
  <1> QED BY <1>10, <1>11

LEMMA PowerdOutcome ==
    ASSUME SiteType, tool \in SiteTools, opts \in [stop : BOOLEAN, edit : BOOLEAN],
           NEW t \in Threads, NEW a \in DOMAIN Table,
           NEW name \in Names(t), NEW v \in Values(a), site[a].on,
           PowerdHit(t, a, name, v)
    PROVE  Outcome(t, a, name, v)
  <1>1. tool = "powerd" /\ Table = PowerdSites
    BY TableOf DEF PowerdHit
  <1>2. Table[a] = {"daemon"} /\ a \in Valued /\ a # "DECISIVE" /\ a # "CONTEXT"
    BY <1>1 DEF PowerdSites, Valued
  <1>3. {"daemon"} # Programs
    BY DEF Programs
  <1>4. v \in {0, 1}
    BY <1>2, ValueFacts
  <1>5. CASE v = 0
    <2>1. Ignores
      BY <1>5 DEF PowerdHit
    <2>2. ~Awaited(t, a, name, v)
      BY <1>2, <1>5 DEF Awaited
    <2> QED BY <2>1, <2>2, IgnoresOutcome
  <1>6. CASE v = 1 /\ name # "daemon"
    <2>1. log' = log /\ UNCHANGED <<site, seen>> /\ ev' = ev \cup {Event(k, a) : k \in {"candidate"} \cup {}}
      BY <1>6 DEF PowerdHit, PowerdVerified
    <2>2. ~Awaited(t, a, name, v)
      BY <1>2, <1>3, <1>6, NameRead DEF Awaited
    <2>3. \A e \in ev' \ ev : e.site = a /\ e.kind = "candidate"
      BY <2>1 DEF Event
    <2> QED BY <1>1, <2>1, <2>2, <2>3 DEF Outcome, SiteType
  <1>7. CASE v = 1 /\ name = "daemon"
    <2>1. log' = log \cup {<<a, Prog[t]>>} /\ UNCHANGED <<site, seen>>
          /\ ev' = ev \cup {Event(k, a) : k \in {"candidate"} \cup {"stop"}}
      BY <1>7 DEF PowerdHit, PowerdVerified
    <2>2. Prog[t] = "daemon" /\ name # Unreadable
      BY <1>7, NameRead DEF Unreadable
    <2>3. Awaited(t, a, name, v)
      BY <1>2, <1>7, <2>2 DEF Awaited
    <2>4. \A e \in ev' \ ev : e.site = a
      BY <2>1 DEF Event
    <2>5. Witness(t, a) = <<a, Prog[t]>>
      BY <1>2, <1>3 DEF Witness
    <2> QED BY <1>1, <1>2, <2>1, <2>2, <2>3, <2>4, <2>5 DEF Outcome, SiteType
  <1> QED BY <1>4, <1>5, <1>6, <1>7

LEMMA DeadlineOutcome ==
    ASSUME SiteType, tool \in SiteTools, opts \in [stop : BOOLEAN, edit : BOOLEAN],
           NEW t \in Threads, NEW a \in DOMAIN Table,
           NEW name \in Names(t), NEW v \in Values(a), site[a].on,
           DeadlineHit(t, a, name, v)
    PROVE  Outcome(t, a, name, v)
  <1> DEFINE failed == v = 3 /\ opts.edit
             applied == v = 1 /\ opts.edit
             stop == v = 0 \/ failed \/ (v \in {1, 3, 4} /\ ~applied)
             n == IF v > 0 /\ site[a].hits < Budget THEN site[a].hits + 1 ELSE site[a].hits
             live == v = 0 \/ failed \/ n < Budget
             kinds == (IF stop THEN {"stop"} ELSE {}) \cup (IF v > 0 /\ ~failed THEN {"progress"} ELSE {})
                      \cup (IF applied THEN {"diagnostic"} ELSE {})
  <1>1. tool = "deadline" /\ Table = DeadlineSites
    BY TableOf DEF DeadlineHit
  <1>2. Table[a] = {"daemon"} /\ a \notin Valued /\ a # "CONTEXT"
    BY <1>1 DEF DeadlineSites, Valued
  <1>3. {"daemon"} # Programs
    BY DEF Programs
  <1>4. CASE name # "daemon"
    <2>1. Ignores
      BY <1>4 DEF DeadlineHit
    <2>2. ~Awaited(t, a, name, v)
      BY <1>2, <1>3, <1>4, NameRead DEF Awaited
    <2> QED BY <2>1, <2>2, IgnoresOutcome
  <1>5. CASE name = "daemon"
    <2>1. Prog[t] = "daemon" /\ name # Unreadable
      BY <1>5, NameRead DEF Unreadable
    <2>2. Awaited(t, a, name, v)
      BY <1>2, <2>1 DEF Awaited
    <2>3. /\ site' = [site EXCEPT ![a] = [hits |-> n, on |-> live]]
          /\ ev' = ev \cup {Event(k, a) : k \in kinds}
          /\ log' = log \cup {<<a, Prog[t]>>}
      BY <1>5 DEF DeadlineHit
    <2>4. n \in Nat /\ live \in BOOLEAN
      BY SiteAssumption DEF SiteType
    <2>5. Witness(t, a) = <<a, Prog[t]>>
      BY <1>2, <1>3 DEF Witness
    <2> HIDE DEF n, live, kinds
    <2>6. site' \in [DOMAIN Table -> [hits : Nat, on : BOOLEAN]]
          /\ (\A b \in DOMAIN Table \ {a} : site'[b] = site[b])
      BY <2>3, <2>4 DEF SiteType
    <2>7. \A e \in ev' \ ev : e.site = a
      BY <2>3 DEF Event
    <2> QED BY <1>1, <1>2, <2>1, <2>2, <2>3, <2>5, <2>6, <2>7 DEF Outcome
  <1> QED BY <1>4, <1>5

\* Whatever the script, a callback leaves an Outcome.
LEMMA CallbackOutcome ==
    ASSUME SiteType, tool \in SiteTools, opts \in [stop : BOOLEAN, edit : BOOLEAN],
           tool = "stall" /\ seen # {} => Recorded1("MACH_MSG"),
           NEW t \in Threads, NEW a \in DOMAIN Table,
           NEW name \in Names(t), NEW v \in Values(a), site[a].on,
           Callback(t, a, name, v)
    PROVE  Outcome(t, a, name, v)
  <1>1. CASE \/ BksHit(t, a, name, v)          \/ BootstrapHit(t, a, name, v)
             \/ ContextHit(t, a, name, v)      \/ CleanupHit(t, a, name, v)
             \/ PluginHit(t, a, name, v)       \/ SurfaceHit(t, a, name, v)
    BY <1>1, BksOutcome, BootstrapOutcome, ContextOutcome, CleanupOutcome, PluginOutcome, SurfaceOutcome
  <1>2. CASE \/ QueryHit(t, a, name, v)        \/ SetupPathHit(t, a, name, v)
             \/ SetupGateHit(t, a, name, v)    \/ WaitHit(t, a, name, v)
             \/ PipelineHit(t, a, name, v)     \/ SceneMain(t, a, name, v)
    BY <1>2, QueryOutcome, SetupPathOutcome, SetupGateOutcome, WaitOutcome, PipelineOutcome, MainOutcome
  <1>3. CASE \/ SceneCheckpoint(t, a, name, v) \/ StallHit(t, a, name, v)
             \/ AbortHit(t, a, name, v)        \/ SetupAppReturn(t, a, name, v)
             \/ TerminationHit(t, a, name, v)  \/ PowerdHit(t, a, name, v)
    BY <1>3, CheckpointOutcome, StallOutcome, AbortOutcome, AppReturnOutcome, TerminationOutcome, PowerdOutcome
  <1>4. CASE \/ WatchdogHit(t, a, name, v)     \/ DeadlineHit(t, a, name, v)
             \/ BitmapHit(t, a, name, v)       \/ Op19Hit(t, a, name, v)
    BY <1>4, WatchdogOutcome, DeadlineOutcome, BitmapOutcome, Op19Outcome
  <1> QED BY <1>1, <1>2, <1>3, <1>4 DEF Callback

\* A session of a site script: an execution of a site, its breakpoint on or off.
LEMMA ArriveKeeps ==
    ASSUME SitesInv, tool' = tool, NEW t \in Threads, NEW a \in DOMAIN Table,
           NEW name \in Names(t), NEW v \in Values(a), Arrive(t, a, name, v)
    PROVE  SitesInv'
  <1> DEFINE gain == Awaited(t, a, name, v) /\ (site[a].on \/ site[a].hits > 0)
  <1>1. /\ tool \in SiteTools /\ UNCHANGED opts
        /\ (site[a].on /\ Callback(t, a, name, v)) \/ (~site[a].on /\ Ignores)
    BY DEF Arrive
  <1>2. met' = IF gain THEN met \cup {Witness(t, a)} ELSE met
    BY DEF Arrive, Awaited
  <1>3. Table' = Table
    BY DEF Table
  <1>4. /\ SiteType /\ opts \in [stop : BOOLEAN, edit : BOOLEAN]
        /\ \A x \in log : x[1] \in DOMAIN Table /\ (Filtered(x[1]) => x[2] \in Table[x[1]])
        /\ \A w \in met : w[1] \in DOMAIN Table /\ (Filtered(w[1]) => Recorded1(w[1]))
        /\ \A b \in DOMAIN Table : Filtered(b) /\ ~site[b].on /\ site[b].hits > 0 => Recorded1(b)
        /\ tool = "stall" /\ seen # {} => Recorded1("MACH_MSG")
        /\ \A e \in ev : e.kind \in {"success", "stop"} => \E w \in met : w[1] = e.site
    BY DEF SitesInv, EvidenceTrue
  <1>5. Witness(t, a)[1] = a /\ (Filtered(a) => Witness(t, a)[2] = Prog[t])
    BY DEF Witness, Filtered
  <1>6. \A w \in met' : w \in met \/ (gain /\ w = Witness(t, a))
    BY <1>2
  <1>7. met \subseteq met' /\ (gain => Witness(t, a) \in met')
    BY <1>2
  <1>8. (\A b : Filtered(b)' <=> Filtered(b))
    BY <1>3 DEF Filtered
  <1>9. CASE site[a].on /\ Callback(t, a, name, v)
    <2>1. Outcome(t, a, name, v)
      BY <1>1, <1>4, <1>9, CallbackOutcome
    <2>2. log \subseteq log' /\ (\A x \in log' : x \in log \/ (x = Witness(t, a) /\ (Filtered(a) => Prog[t] \in Table[a])))
      BY <2>1 DEF Outcome
    <2>3. \A b : Recorded1(b) => Recorded1(b)'
      BY <2>2 DEF Recorded1
    <2>4. log' = log \cup {Witness(t, a)} => Recorded1(a)'
      BY <1>5 DEF Recorded1
    <2>5. Filtered(a) /\ Awaited(t, a, name, v) => Recorded1(a)'
      BY <2>1, <2>3, <2>4 DEF Outcome
    <2>6. SiteType'
      BY <2>1, <1>3 DEF Outcome, SiteType
    <2>7. \A x \in log' : x[1] \in DOMAIN Table /\ (Filtered(x[1]) => x[2] \in Table[x[1]])
      BY <1>4, <1>5, <2>2
    <2>8. \A w \in met' : w[1] \in DOMAIN Table /\ (Filtered(w[1]) => Recorded1(w[1])')
      BY <1>4, <1>5, <1>6, <2>3, <2>5
    <2>9. \A b \in DOMAIN Table : Filtered(b) /\ ~site'[b].on /\ site'[b].hits > 0 => Recorded1(b)'
      <3> SUFFICES ASSUME NEW b \in DOMAIN Table, Filtered(b), ~site'[b].on, site'[b].hits > 0
                   PROVE  Recorded1(b)'
        OBVIOUS
      <3>1. CASE b = a
        BY <2>1, <2>4, <3>1 DEF Outcome
      <3>2. CASE b # a
        <4>1. site'[b].hits = site[b].hits /\ (site[b].on => site'[b].on)
          BY <2>1, <3>2 DEF Outcome
        <4> QED BY <4>1, <1>4, <2>3
      <3> QED BY <3>1, <3>2
    <2>10. tool = "stall" /\ seen' # {} => Recorded1("MACH_MSG")'
      <3>1. CASE seen' = seen
        BY <3>1, <1>4, <2>3
      <3>2. CASE tool = "stall" /\ seen' # seen
        BY <3>2, <2>1, <2>4 DEF Outcome
      <3> QED BY <3>1, <3>2
    <2>11. \A e \in ev' : e.kind \in {"success", "stop"} => \E w \in met' : w[1] = e.site
      <3> SUFFICES ASSUME NEW e \in ev', e.kind \in {"success", "stop"}
                   PROVE  \E w \in met' : w[1] = e.site
        OBVIOUS
      <3>1. CASE e \in ev
        BY <3>1, <1>4, <1>7
      <3>2. CASE e \notin ev
        <4>1. e.site = a /\ Awaited(t, a, name, v)
          BY <3>2, <2>1 DEF Outcome
        <4>2. gain
          BY <4>1, <1>9
        <4> QED BY <4>1, <4>2, <1>5, <1>7
      <3> QED BY <3>1, <3>2
    <2> HIDE DEF gain
    <2> QED BY <1>1, <1>3, <1>4, <1>8, <2>6, <2>7, <2>8, <2>9, <2>10, <2>11 DEF SitesInv, EvidenceTrue
  <1>10. CASE ~site[a].on /\ Ignores
    <2>1. UNCHANGED <<site, seen, ev, log>>
      BY <1>10 DEF Ignores
    <2>2. \A b : Recorded1(b)' <=> Recorded1(b)
      BY <2>1 DEF Recorded1
    <2>3. gain => site[a].hits > 0
      BY <1>10
    <2>4. \A w \in met' : w[1] \in DOMAIN Table /\ (Filtered(w[1]) => Recorded1(w[1]))
      BY <1>4, <1>5, <1>6, <1>10, <2>3
    <2> HIDE DEF gain
    <2>5. SiteType'
      BY <1>3, <1>4, <2>1 DEF SiteType
    <2> QED BY <1>1, <1>3, <1>4, <1>7, <1>8, <2>1, <2>2, <2>4, <2>5 DEF SitesInv, EvidenceTrue
  <1> QED BY <1>1, <1>9, <1>10

\* A step that is no execution of a site.
LEMMA SitesIdle ==
    ASSUME SitesInv, tool' = tool, UNCHANGED siteVars
    PROVE  SitesInv'
  <1>1. UNCHANGED <<opts, site, seen, ev, met, log>> /\ Table' = Table
    BY DEF siteVars, Table
  <1>2. (\A b : Filtered(b)' <=> Filtered(b)) /\ (\A b : Recorded1(b)' <=> Recorded1(b))
    BY <1>1 DEF Filtered, Recorded1
  <1>3. SiteType' /\ EvidenceTrue'
    BY <1>1 DEF SitesInv, SiteType, EvidenceTrue
  <1> QED BY <1>1, <1>2, <1>3 DEF SitesInv

LEMMA SiteInitially == Init => SiteInv
  <1> SUFFICES ASSUME Init PROVE SiteInv
    OBVIOUS
  <1>1. SiteInit
    BY DEF Init
  <1>2. ev = {} /\ met = {} /\ log = {} /\ seen = {}
    BY <1>1 DEF SiteInit
  <1>3. ASSUME tool \in SiteTools PROVE SitesInv
    <2>1. opts \in [stop : BOOLEAN, edit : BOOLEAN]
      BY <1>1, <1>3 DEF SiteInit
    <2>2. site = [a \in DOMAIN Table |-> [hits |-> 0, on |-> a \notin Late]]
      BY <1>1, <1>3 DEF SiteInit
    <2>3. SiteType /\ \A a \in DOMAIN Table : site[a].hits = 0
      BY <2>2 DEF SiteType
    <2> QED BY <1>2, <2>1, <2>3 DEF SitesInv, EvidenceTrue
  <1> QED BY <1>2, <1>3 DEF SiteInv

LEMMA SiteStep == SiteInv /\ [Next]_vars => SiteInv'
  <1> SUFFICES ASSUME SiteInv, [Next]_vars PROVE SiteInv'
    OBVIOUS
  <1>1. tool' = tool
    BY DEF Next, vars
  <1>2. CASE UNCHANGED siteVars
    <2>1. CASE tool \in SiteTools
      BY <1>1, <1>2, <2>1, SitesIdle DEF SiteInv
    <2>2. CASE tool \notin SiteTools
      BY <1>1, <1>2, <2>2 DEF SiteInv, siteVars
    <2> QED BY <2>1, <2>2
  <1>3. CASE SiteNext
    <2>1. CASE tool \in SiteTools /\ Continue /\ UNCHANGED <<tool, siteVars>>
      BY <1>2, <2>1
    <2>2. ASSUME NEW t \in Threads, NEW a \in DOMAIN site, NEW name \in Names(t), NEW v \in Values(a),
                 Arrive(t, a, name, v)
          PROVE  SiteInv'
      <3>1. tool \in SiteTools
        BY <2>2 DEF Arrive
      <3>2. SitesInv /\ DOMAIN site = DOMAIN Table
        BY <3>1 DEF SiteInv, SitesInv, SiteType
      <3>3. SitesInv'
        BY <1>1, <2>2, <3>2, ArriveKeeps
      <3> QED BY <1>1, <3>1, <3>3 DEF SiteInv
    <2> QED BY <1>3, <2>1, <2>2 DEF SiteNext
  <1>4. SiteNext \/ UNCHANGED siteVars
    BY DEF Next, vars
  <1> QED BY <1>2, <1>3, <1>4

LEMMA SiteAlways == Spec => []SiteInv
  BY SiteInitially, SiteStep, PTL DEF Spec

\* Whatever script runs, once a program that a filtered site is meant for has
\* executed it, the record of the site holds such programs and no others.
THEOREM TargetIsSeen == Spec => []TargetSeen
  <1>1. SiteInv => TargetSeen
    <2> SUFFICES ASSUME SiteInv, NEW w \in met, Table[w[1]] # Programs
                 PROVE  LET named == {r[2] : r \in {x \in log : x[1] = w[1]}}
                        IN named # {} /\ named \subseteq Table[w[1]]
      BY DEF TargetSeen
    <2> DEFINE named == {r[2] : r \in {x \in log : x[1] = w[1]}}
    <2>1. SitesInv
      BY DEF SiteInv
    <2>2. Filtered(w[1]) /\ Recorded1(w[1])
      BY <2>1 DEF SitesInv, Filtered
    <2>3. PICK x \in log : x[1] = w[1]
      BY <2>2 DEF Recorded1
    <2>4. x[2] \in named
      BY <2>3
    <2>5. \A y \in log : y[1] = w[1] => y[2] \in Table[w[1]]
      BY <2>1, <2>2 DEF SitesInv
    <2> QED BY <2>4, <2>5
  <1> QED BY <1>1, SiteAlways, PTL

\* Whatever script runs, a success event and a stop of the guest are evidence
\* that a program the site is meant for executed it with the awaited value.
THEOREM EvidenceIsTrue == Spec => []EvidenceTrue
  <1>1. SiteInv => EvidenceTrue
    BY DEF SiteInv, SitesInv, EvidenceTrue
  <1> QED BY <1>1, SiteAlways, PTL

-----------------------------------------------------------------------------
(* springboard_startup_trace_callbacks. *)

CallFrames == [site : DOMAIN CallSites \cup WaitPrimitives, id : Nat]

\* How the open calls q of the traced thread go with the return records R: a
\* recorded call keeps its record until it returns or is given up (L), and a
\* record that is not given up has its call; the numbers, at most c, tell the
\* calls apart.  W holds the records of the waits kept as open.
Agree(q, R, L, c, W) ==
    /\ \A i \in DOMAIN q : q[i].site \notin WaitPrimitives /\ q[i].id # 0 =>
          /\ q[i].id <= c
          /\ q[i].id \in L \/ [id |-> q[i].id, site |-> q[i].site] \in R
    /\ \A i, j \in DOMAIN q :
          /\ q[i].site \notin WaitPrimitives /\ q[j].site \notin WaitPrimitives
          /\ q[i].id = q[j].id /\ q[i].id # 0
          => i = j
    /\ \A x \in R : x.id \in L \/ \E i \in DOMAIN q : q[i].site = x.site /\ q[i].id = x.id
    /\ \A x \in W : /\ x.seq # 0 /\ x.lr \in WaitPrimitives
                    /\ \E i \in DOMAIN q : q[i].site = x.lr /\ q[i].id = x.seq
    /\ \A i \in DOMAIN q : q[i].site \in WaitPrimitives /\ q[i].id # 0 =>
          [seq |-> q[i].id, lr |-> q[i].site] \in W

\* Inside a wait there is only its system call: two open waits of one thread
\* return to different addresses.
Nested(q) == \A i, j \in DOMAIN q : i < j => MayNest(q[i].site, q[j].site)

WaitsNest(fs) == \A u \in Threads : Nested(fs[u])

OpenWaits == waits.open

SbType ==
    /\ frames \in [Threads -> Seq(CallFrames)]
    /\ traced \in Threads \cup {NoThread}
    /\ calls \in Nat
    /\ returns \subseteq [id : Nat, site : DOMAIN CallSites]
    /\ waits \in [on : BOOLEAN, root : Nat, controls : Nat, seq : Nat,
                  open : SUBSET [seq : Nat, lr : WaitPrimitives]]

\* The active calls are the watched ones with a return record, and the pending
\* file names the deepest of them.
Records ==
    /\ \A x \in returns : x.id # 0 /\ x.id <= calls
    /\ \A x, y \in returns : x.id = y.id => x = y
    /\ activeCalls = {x.id : x \in {y \in returns : Watched(y.site)}}
    /\ pendingTrace = Deepest(activeCalls)

\* Only the traced thread's calls have numbers.
SbInv ==
    /\ SbType
    /\ \A t \in Threads \ {traced} : \A i \in DOMAIN frames[t] : frames[t][i].id = 0
    /\ WaitsNest(frames)
    /\ traced = NoThread => returns = {} /\ waits.open = {}
    /\ traced # NoThread => Agree(frames[traced], returns, lost, calls, OpenWaits)
    /\ Records

\* A recorded call.
LEMMA AgreeCall ==
    ASSUME NEW q \in Seq(CallFrames), NEW R \in SUBSET [id : Nat, site : DOMAIN CallSites], NEW L,
           NEW c \in Nat, NEW W, Agree(q, R, L, c, W), NEW s \in DOMAIN CallSites,
           \A i \in DOMAIN q : q[i].site \notin WaitPrimitives, s \notin WaitPrimitives
    PROVE  Agree(Append(q, [site |-> s, id |-> c + 1]), R \cup {[id |-> c + 1, site |-> s]}, L, c + 1, W)
  <1> DEFINE f == [site |-> s, id |-> c + 1]
             p == Append(q, f)
  <1>1. /\ f \in CallFrames /\ f.site = s /\ f.id = c + 1
    BY DEF CallFrames
  <1>2. /\ Len(p) = Len(q) + 1 /\ DOMAIN p = 1..Len(q) + 1 /\ DOMAIN q = 1..Len(q) /\ Len(q) \in Nat
        /\ p[Len(q) + 1] = f /\ \A i \in 1..Len(q) : p[i] = q[i] /\ q[i] \in CallFrames
    BY <1>1
  <1>3. \A i \in 1..Len(q) : q[i].id \in Nat
    BY <1>2 DEF CallFrames
  <1> HIDE DEF f, p
  <1>4. \A i \in DOMAIN p : p[i].site \notin WaitPrimitives /\ p[i].id # 0 =>
          /\ p[i].id <= c + 1
          /\ p[i].id \in L \/ [id |-> p[i].id, site |-> p[i].site] \in R \cup {[id |-> c + 1, site |-> s]}
    <2> SUFFICES ASSUME NEW i \in DOMAIN p, p[i].site \notin WaitPrimitives, p[i].id # 0
                 PROVE  /\ p[i].id <= c + 1
                        /\ p[i].id \in L \/ [id |-> p[i].id, site |-> p[i].site] \in R \cup {[id |-> c + 1, site |-> s]}
      OBVIOUS
    <2>1. CASE i = Len(q) + 1
      BY <2>1, <1>1, <1>2
    <2>2. CASE i \in 1..Len(q)
      BY <2>2, <1>2, <1>3 DEF Agree
    <2> QED BY <2>1, <2>2, <1>2
  <1>5. \A i, j \in DOMAIN p :
          /\ p[i].site \notin WaitPrimitives /\ p[j].site \notin WaitPrimitives
          /\ p[i].id = p[j].id /\ p[i].id # 0
          => i = j
    <2>1. \A i \in 1..Len(q) : q[i].id # c + 1
      <3>1. \A i \in 1..Len(q) : q[i].id # 0 => q[i].id <= c
        BY <1>2 DEF Agree
      <3> QED BY <1>3, <3>1
    <2>2. \A i, j \in 1..Len(q) : q[i].id = q[j].id /\ q[i].id # 0 => i = j
      BY <1>2 DEF Agree
    <2> QED BY <2>1, <2>2, <1>1, <1>2
  <1>6. \A x \in R \cup {[id |-> c + 1, site |-> s]} :
           x.id \in L \/ \E i \in DOMAIN p : p[i].site = x.site /\ p[i].id = x.id
    <2> SUFFICES ASSUME NEW x \in R \cup {[id |-> c + 1, site |-> s]}
                 PROVE  x.id \in L \/ \E i \in DOMAIN p : p[i].site = x.site /\ p[i].id = x.id
      OBVIOUS
    <2>1. CASE x \in R
      <3>1. x.id \in L \/ \E i \in DOMAIN q : q[i].site = x.site /\ q[i].id = x.id
        BY <2>1 DEF Agree
      <3> QED BY <3>1, <1>2
    <2>2. CASE x = [id |-> c + 1, site |-> s]
      BY <2>2, <1>1, <1>2
    <2> QED BY <2>1, <2>2
  <1>7. \A i \in DOMAIN p : p[i].site \notin WaitPrimitives
    BY <1>1, <1>2
  <1>8. W = {}
    <2>1. \A x \in W : FALSE
      BY DEF Agree
    <2> QED BY <2>1
  <1> QED BY <1>4, <1>5, <1>6, <1>7, <1>8 DEF Agree, p, f

\* A tail call, or a wait by nobody of interest, uses up a number.
LEMMA AgreeNumber ==
    ASSUME NEW q \in Seq(CallFrames), NEW R, NEW L, NEW c \in Nat, NEW W, Agree(q, R, L, c, W)
    PROVE  Agree(q, R, L, c + 1, W)
  <1>1. \A i \in DOMAIN q : q[i] \in CallFrames
    OBVIOUS
  <1>2. \A i \in DOMAIN q : q[i].id \in Nat
    BY <1>1 DEF CallFrames
  <1>3. \A n \in Nat : n <= c => n <= c + 1
    OBVIOUS
  <1> QED BY <1>2, <1>3 DEF Agree

\* A call or wait that is not recorded.
LEMMA AgreeUnrecorded ==
    ASSUME NEW q \in Seq(CallFrames), NEW R, NEW L, NEW c \in Nat, NEW W, Agree(q, R, L, c, W),
           NEW f \in CallFrames, f.id = 0
    PROVE  Agree(Append(q, f), R, L, c, W)
  <1> DEFINE p == Append(q, f)
  <1>1. /\ Len(p) = Len(q) + 1 /\ DOMAIN p = 1..Len(q) + 1 /\ DOMAIN q = 1..Len(q) /\ Len(q) \in Nat
        /\ p[Len(q) + 1] = f /\ \A i \in 1..Len(q) : p[i] = q[i]
    OBVIOUS
  <1> HIDE DEF p
  <1>4. \A i \in DOMAIN p : p[i].id # 0 => i \in DOMAIN q /\ p[i] = q[i]
    BY <1>1
  <1>5. \A i \in DOMAIN q : i \in DOMAIN p /\ p[i] = q[i]
    BY <1>1
  <1> QED BY <1>4, <1>5 DEF Agree, p

\* A recorded wait.
LEMMA AgreeWait ==
    ASSUME NEW q \in Seq(CallFrames), NEW R, NEW L, NEW c \in Nat, NEW W, Agree(q, R, L, c, W),
           NEW f \in CallFrames, f.id # 0, f.site \in WaitPrimitives
    PROVE  Agree(Append(q, f), R, L, c, W \cup {[seq |-> f.id, lr |-> f.site]})
  <1> DEFINE p == Append(q, f)
  <1>1. /\ Len(p) = Len(q) + 1 /\ DOMAIN p = 1..Len(q) + 1 /\ DOMAIN q = 1..Len(q) /\ Len(q) \in Nat
        /\ p[Len(q) + 1] = f /\ \A i \in 1..Len(q) : p[i] = q[i]
    OBVIOUS
  <1> HIDE DEF p
  <1> DEFINE x == [seq |-> f.id, lr |-> f.site]
  <1>2. x.seq = f.id /\ x.lr = f.site
    OBVIOUS
  <1>4. \A i \in DOMAIN p : p[i].site \notin WaitPrimitives => i \in DOMAIN q /\ p[i] = q[i]
    BY <1>1
  <1>5. \A i \in DOMAIN q : i \in DOMAIN p /\ p[i] = q[i]
    BY <1>1
  <1>6. \A i \in DOMAIN p : p[i] = f \/ (i \in DOMAIN q /\ p[i] = q[i])
    BY <1>1
  <1>7. Len(q) + 1 \in DOMAIN p /\ p[Len(q) + 1] = f
    BY <1>1
  <1>8. \A i \in DOMAIN p : p[i].site \in WaitPrimitives /\ p[i].id # 0 =>
          [seq |-> p[i].id, lr |-> p[i].site] \in W \cup {x}
    BY <1>6 DEF Agree
  <1> HIDE DEF x
  <1>9. \A y \in W \cup {x} : /\ y.seq # 0 /\ y.lr \in WaitPrimitives
                             /\ \E i \in DOMAIN p : p[i].site = y.lr /\ p[i].id = y.seq
    <2>1. \A y \in W : /\ y.seq # 0 /\ y.lr \in WaitPrimitives
                      /\ \E i \in DOMAIN p : p[i].site = y.lr /\ p[i].id = y.seq
      BY <1>5 DEF Agree
    <2>2. /\ x.seq # 0 /\ x.lr \in WaitPrimitives
          /\ \E i \in DOMAIN p : p[i].site = x.lr /\ p[i].id = x.seq
      BY <1>2, <1>7
    <2> QED BY <2>1, <2>2
  <1>10. /\ \A i \in DOMAIN p : p[i].site \notin WaitPrimitives /\ p[i].id # 0 =>
               /\ p[i].id <= c
               /\ p[i].id \in L \/ [id |-> p[i].id, site |-> p[i].site] \in R
         /\ \A i, j \in DOMAIN p :
               /\ p[i].site \notin WaitPrimitives /\ p[j].site \notin WaitPrimitives
               /\ p[i].id = p[j].id /\ p[i].id # 0
               => i = j
    BY <1>4 DEF Agree
  <1>11. \A y \in R : y.id \in L \/ \E i \in DOMAIN p : p[i].site = y.site /\ p[i].id = y.id
    BY <1>5 DEF Agree
  <1>12. Agree(p, R, L, c, W \cup {x})
    BY <1>8, <1>9, <1>10, <1>11 DEF Agree
  <1> QED BY <1>12 DEF p, x

LEMMA InnerPopped ==
    ASSUME NEW q \in Seq(CallFrames), q # <<>>
    PROVE  LET p == SubSeq(q, 1, Len(q) - 1)
           IN /\ p \in Seq(CallFrames) /\ Len(p) = Len(q) - 1 /\ Len(q) \in Nat \ {0}
              /\ DOMAIN p = 1..Len(q) - 1 /\ DOMAIN q = 1..Len(q)
              /\ \A i \in 1..Len(q) - 1 : p[i] = q[i]
              /\ q[Len(q)] \in CallFrames
  <1> DEFINE p == SubSeq(q, 1, Len(q) - 1)
  <1>1. Len(q) \in Nat \ {0} /\ DOMAIN q = 1..Len(q)
    OBVIOUS
  <1>2. \A i \in 1..Len(q) : q[i] \in CallFrames
    BY <1>1
  <1>3. p = [i \in 1..Len(q) - 1 |-> q[i]]
    BY <1>1
  <1>4. Len(q) - 1 \in Nat
    BY <1>1
  <1>5. p \in Seq(CallFrames) /\ Len(p) = Len(q) - 1
    BY <1>1, <1>2, <1>3, <1>4
  <1> HIDE DEF p
  <1>6. DOMAIN p = 1..Len(q) - 1 /\ \A i \in 1..Len(q) - 1 : p[i] = q[i]
    BY <1>3
  <1>7. q[Len(q)] \in CallFrames
    BY <1>1, <1>2
  <1> QED BY <1>1, <1>5, <1>6, <1>7 DEF p

\* The innermost wait ends.
LEMMA AgreeWaitEnds ==
    ASSUME NEW q \in Seq(CallFrames), q # <<>>, NEW R, NEW L, NEW c \in Nat, NEW W, Agree(q, R, L, c, W),
           Nested(q), NEW s \in WaitPrimitives, s = q[Len(q)].site,
           R \subseteq [id : Nat, site : DOMAIN CallSites], DOMAIN CallSites \cap WaitPrimitives = {}
    PROVE  Agree(SubSeq(q, 1, Len(q) - 1), R, L, c, {x \in W : x.lr # s})
  <1> DEFINE p == SubSeq(q, 1, Len(q) - 1)
  <1>1. /\ Len(p) = Len(q) - 1 /\ Len(q) \in Nat \ {0}
        /\ DOMAIN p = 1..Len(q) - 1 /\ DOMAIN q = 1..Len(q)
        /\ \A i \in 1..Len(q) - 1 : p[i] = q[i]
    BY InnerPopped
  <1> HIDE DEF p
  <1>2. \A i \in DOMAIN p : /\ i \in DOMAIN q /\ p[i] = q[i]
                            /\ p[i].site \in WaitPrimitives => p[i].site # s
    <2> SUFFICES ASSUME NEW i \in DOMAIN p
                 PROVE  /\ i \in DOMAIN q /\ p[i] = q[i]
                        /\ p[i].site \in WaitPrimitives => p[i].site # s
      OBVIOUS
    <2>1. i \in DOMAIN q /\ p[i] = q[i] /\ i < Len(q) /\ Len(q) \in DOMAIN q
      BY <1>1
    <2>2. MayNest(q[i].site, s)
      BY <2>1 DEF Nested
    <2> QED BY <2>1, <2>2 DEF MayNest
  <1>0. \A i \in DOMAIN p : i \in DOMAIN q /\ p[i] = q[i]
    BY <1>1
  <1>3. \A i \in DOMAIN q : q[i].site # s => i \in DOMAIN p /\ p[i] = q[i]
    BY <1>1
  <1>4. \A x \in R : x.site # s
    OBVIOUS
  <1>5. \A x \in R : x.id \in L \/ \E i \in DOMAIN p : p[i].site = x.site /\ p[i].id = x.id
    BY <1>3, <1>4 DEF Agree
  <1>6. \A i \in DOMAIN p : p[i].site \notin WaitPrimitives /\ p[i].id # 0 =>
          /\ p[i].id <= c
          /\ p[i].id \in L \/ [id |-> p[i].id, site |-> p[i].site] \in R
    BY <1>0 DEF Agree
  <1>7. \A i, j \in DOMAIN p :
          /\ p[i].site \notin WaitPrimitives /\ p[j].site \notin WaitPrimitives
          /\ p[i].id = p[j].id /\ p[i].id # 0
          => i = j
    BY <1>0 DEF Agree
  <1>8. \A x \in {y \in W : y.lr # s} :
          /\ x.seq # 0 /\ x.lr \in WaitPrimitives
          /\ \E i \in DOMAIN p : p[i].site = x.lr /\ p[i].id = x.seq
    BY <1>3 DEF Agree
  <1>9. \A i \in DOMAIN p : p[i].site \in WaitPrimitives /\ p[i].id # 0 =>
          [seq |-> p[i].id, lr |-> p[i].site] \in {y \in W : y.lr # s}
    <2> SUFFICES ASSUME NEW i \in DOMAIN p, p[i].site \in WaitPrimitives, p[i].id # 0
                 PROVE  [seq |-> p[i].id, lr |-> p[i].site] \in {y \in W : y.lr # s}
      OBVIOUS
    <2>1. [seq |-> p[i].id, lr |-> p[i].site] \in W
      <3>1. i \in DOMAIN q /\ p[i] = q[i]
        BY <1>0
      <3>2. \A k \in DOMAIN q : q[k].site \in WaitPrimitives /\ q[k].id # 0 =>
               [seq |-> q[k].id, lr |-> q[k].site] \in W
        BY DEF Agree
      <3> QED BY <3>1, <3>2
    <2>2. p[i].site # s
      BY <1>2
    <2> QED BY <2>1, <2>2
  <1>10. Agree(p, R, L, c, {x \in W : x.lr # s})
    BY <1>5, <1>6, <1>7, <1>8, <1>9 DEF Agree
  <1> QED BY <1>10 DEF p

\* A call returns: the records at its return address go, or the number of the
\* call is given up.
LEMMA AgreeReturns ==
    ASSUME NEW q \in Seq(CallFrames), q # <<>>, NEW R, NEW L, NEW c \in Nat, NEW W, Agree(q, R, L, c, W),
           Nested(q), NEW s, s = q[Len(q)].site, s \notin WaitPrimitives,
           NEW here, here = {x \in R : x.site = s}, \A x \in R : x.id # 0
    PROVE  /\ Agree(SubSeq(q, 1, Len(q) - 1), R \ here,
                    L \cup {x.id : x \in {y \in R : y.site = s /\ y.id # q[Len(q)].id}}, c, W)
           /\ Agree(SubSeq(q, 1, Len(q) - 1), R, L \cup ({q[Len(q)].id} \ {0}), c, W)
  <1> DEFINE p == SubSeq(q, 1, Len(q) - 1)
             f == q[Len(q)]
             M == L \cup {x.id : x \in {y \in R : y.site = s /\ y.id # f.id}}
             N == L \cup ({f.id} \ {0})
  <1>1. /\ Len(p) = Len(q) - 1 /\ Len(q) \in Nat \ {0}
        /\ DOMAIN p = 1..Len(q) - 1 /\ DOMAIN q = 1..Len(q)
        /\ \A i \in 1..Len(q) - 1 : p[i] = q[i]
    BY InnerPopped
  <1>2. \A i \in DOMAIN p : i \in DOMAIN q /\ p[i] = q[i] /\ i # Len(q) /\ p[i].site \notin WaitPrimitives
    <2> HIDE DEF p
    <2> SUFFICES ASSUME NEW i \in DOMAIN p
                 PROVE  i \in DOMAIN q /\ p[i] = q[i] /\ i # Len(q) /\ p[i].site \notin WaitPrimitives
      OBVIOUS
    <2>1. i \in DOMAIN q /\ p[i] = q[i] /\ i < Len(q) /\ i # Len(q) /\ Len(q) \in DOMAIN q
      BY <1>1
    <2>2. MayNest(q[i].site, s)
      BY <2>1 DEF Nested
    <2> QED BY <2>1, <2>2 DEF MayNest, WaitPrimitives
  <1>3. \A i \in DOMAIN q : i = Len(q) \/ (i \in DOMAIN p /\ p[i] = q[i])
    <2> HIDE DEF p
    <2> QED BY <1>1
  <1>4. Len(q) \in DOMAIN q
    BY <1>1
  <1>5. L \subseteq M /\ L \subseteq N /\ (f.id # 0 => f.id \in N)
    OBVIOUS
  <1>6. \A x \in R : x.site = s => x.id = f.id \/ x.id \in M
    OBVIOUS
  <1>7. f.site = s
    OBVIOUS
  <1>8. \A x \in W : FALSE
    <2> HIDE DEF p, M, N
    <2>1. \A i \in DOMAIN q : q[i].site \notin WaitPrimitives
      BY <1>2, <1>3, <1>7
    <2> QED BY <2>1 DEF Agree
  <1>9. \A i \in DOMAIN p : p[i].id # 0 => p[i].id # f.id
    <2> HIDE DEF p, M, N
    <2> QED BY <1>2, <1>4, <1>7 DEF Agree
  <1> HIDE DEF p, M, N
  <1>10. Agree(p, R \ here, M, c, W)
    <2>1. \A i \in DOMAIN p : p[i].site \notin WaitPrimitives /\ p[i].id # 0 =>
            /\ p[i].id <= c
            /\ p[i].id \in M \/ [id |-> p[i].id, site |-> p[i].site] \in R \ here
      <3> SUFFICES ASSUME NEW i \in DOMAIN p, p[i].id # 0, p[i].id \notin M
                   PROVE  [id |-> p[i].id, site |-> p[i].site] \in R \ here
        BY <1>2 DEF Agree
      <3> DEFINE r == [id |-> p[i].id, site |-> p[i].site]
      <3>1. r \in R
        BY <1>2, <1>5 DEF Agree
      <3>2. r.id # f.id /\ r.id \notin M
        BY <1>9
      <3> HIDE DEF r
      <3>3. r \notin here
        BY <3>1, <3>2, <1>6
      <3> QED BY <3>1, <3>3 DEF r
    <2>2. \A x \in R \ here : x.id \in M \/ \E i \in DOMAIN p : p[i].site = x.site /\ p[i].id = x.id
      <3> SUFFICES ASSUME NEW x \in R \ here, x.id \notin M
                   PROVE  \E i \in DOMAIN p : p[i].site = x.site /\ p[i].id = x.id
        OBVIOUS
      <3>1. PICK i \in DOMAIN q : q[i].site = x.site /\ q[i].id = x.id
        BY <1>5 DEF Agree
      <3>2. x.site # s
        OBVIOUS
      <3>3. i # Len(q)
        BY <3>1, <3>2
      <3> QED BY <3>1, <3>3, <1>3
    <2>3. \A i, j \in DOMAIN p : p[i].id = p[j].id /\ p[i].id # 0 => i = j
      BY <1>2 DEF Agree
    <2> QED BY <2>1, <2>2, <2>3, <1>2, <1>8 DEF Agree
  <1>11. Agree(p, R, N, c, W)
    <2>1. \A x \in R : x.id \in N \/ \E i \in DOMAIN p : p[i].site = x.site /\ p[i].id = x.id
      <3> SUFFICES ASSUME NEW x \in R, x.id \notin N
                   PROVE  \E i \in DOMAIN p : p[i].site = x.site /\ p[i].id = x.id
        OBVIOUS
      <3>1. PICK i \in DOMAIN q : q[i].site = x.site /\ q[i].id = x.id
        BY <1>5 DEF Agree
      <3> QED BY <3>1, <1>3, <1>5
    <2>2. \A i \in DOMAIN p : p[i].site \notin WaitPrimitives /\ p[i].id # 0 =>
            /\ p[i].id <= c
            /\ p[i].id \in N \/ [id |-> p[i].id, site |-> p[i].site] \in R
      BY <1>2, <1>5 DEF Agree
    <2>3. \A i, j \in DOMAIN p : p[i].id = p[j].id /\ p[i].id # 0 => i = j
      BY <1>2 DEF Agree
    <2> QED BY <2>1, <2>2, <2>3, <1>2, <1>8 DEF Agree
  <1> QED BY <1>10, <1>11 DEF p, M, N

LEMMA SitesDistinct == DOMAIN CallSites \cap WaitPrimitives = {}
  BY DEF CallSites, WaitPrimitives, Traps

\* Anchors, boundaries, dispatches and entries: at most the thread is selected.
LEMMA SbArms ==
    ASSUME SbInv, UNCHANGED <<calls, returns, activeCalls, frames, lost>>,
           traced' = traced \/ (traced = NoThread /\ traced' \in Threads),
           waits' = waits \/ waits' = WaitsOn(waits, TRUE),
           pendingTrace' = pendingTrace \/ pendingTrace' = Deepest(activeCalls)
    PROVE  SbInv'
  <1>1. waits' \in [on : BOOLEAN, root : Nat, controls : Nat, seq : Nat,
                    open : SUBSET [seq : Nat, lr : WaitPrimitives]] /\ waits'.open = waits.open
    BY DEF SbInv, SbType, WaitsOn
  <1>2. SbType'
    BY <1>1 DEF SbInv, SbType
  <1>3. OpenWaits' = OpenWaits
    BY <1>1 DEF OpenWaits
  <1>4. Records'
    BY DEF SbInv, Records
  <1>5. CASE traced' = traced
    BY <1>1, <1>2, <1>3, <1>4, <1>5 DEF SbInv, Records
  <1>6. CASE traced = NoThread /\ traced' \in Threads
    <2>1. traced' # NoThread
      BY <1>6, LldbAssumption
    <2>2. \A t \in Threads : \A i \in DOMAIN frames[t] : frames[t][i].id = 0
      BY <1>6, LldbAssumption DEF SbInv
    <2>3. returns = {} /\ OpenWaits = {}
      BY <1>6 DEF SbInv, OpenWaits
    <2> DEFINE q == frames[traced']
    <2>4. q \in Seq(CallFrames) /\ \A i \in DOMAIN q : q[i].id = 0
      BY <1>6, <2>2 DEF SbInv, SbType
    <2> HIDE DEF q
    <2>6. Agree(q, returns, lost, calls, OpenWaits)
      BY <2>3, <2>4 DEF Agree
    <2> QED BY <1>2, <1>3, <1>4, <1>6, <2>1, <2>2, <2>6 DEF SbInv, Records, q
  <1> QED BY <1>5, <1>6

LEMMA FramesPushed ==
    ASSUME frames \in [Threads -> Seq(CallFrames)], WaitsNest(frames), NEW t \in Threads, NEW f \in CallFrames,
           frames' = [frames EXCEPT ![t] = Append(@, f)],
           \A i \in DOMAIN frames[t] : MayNest(frames[t][i].site, f.site)
    PROVE  /\ frames' \in [Threads -> Seq(CallFrames)] /\ frames'[t] = Append(frames[t], f)
           /\ \A u \in Threads \ {t} : frames'[u] = frames[u]
           /\ WaitsNest(frames')
           /\ f.id = 0 /\ (\A i \in DOMAIN frames[t] : frames[t][i].id = 0)
              => \A i \in DOMAIN frames'[t] : frames'[t][i].id = 0
  <1> DEFINE q == frames[t]
             p == Append(q, f)
  <1>1. q \in Seq(CallFrames) /\ p \in Seq(CallFrames)
    OBVIOUS
  <1>2. /\ Len(p) = Len(q) + 1 /\ DOMAIN p = 1..Len(q) + 1 /\ DOMAIN q = 1..Len(q) /\ Len(q) \in Nat
        /\ p[Len(q) + 1] = f /\ \A i \in 1..Len(q) : p[i] = q[i]
    BY <1>1
  <1>3. frames'[t] = p /\ (\A u \in Threads \ {t} : frames'[u] = frames[u]) /\ frames' \in [Threads -> Seq(CallFrames)]
    BY <1>1
  <1>4. \A i \in DOMAIN q : MayNest(q[i].site, f.site)
    OBVIOUS
  <1>5. q = frames[t]
    OBVIOUS
  <1>6. p = Append(frames[t], f)
    OBVIOUS
  <1> HIDE DEF p, q
  <1>7. Nested(p)
    <2>1. Nested(q)
      BY <1>5 DEF WaitsNest
    <2>2. \A i, j \in DOMAIN p : i < j => i \in DOMAIN q /\ p[i] = q[i]
                                        /\ (p[j] = f \/ (j \in DOMAIN q /\ p[j] = q[j]))
      BY <1>2
    <2> QED BY <1>4, <2>1, <2>2 DEF Nested
  <1>8. f.id = 0 /\ (\A i \in DOMAIN q : q[i].id = 0) => \A i \in DOMAIN p : p[i].id = 0
    BY <1>2
  <1>9. WaitsNest(frames')
    BY <1>3, <1>7 DEF WaitsNest
  <1> QED BY <1>3, <1>5, <1>6, <1>8, <1>9

LEMMA FramesPopped ==
    ASSUME frames \in [Threads -> Seq(CallFrames)], WaitsNest(frames), NEW t \in Threads, frames[t] # <<>>,
           frames' = [frames EXCEPT ![t] = SubSeq(@, 1, Len(@) - 1)]
    PROVE  /\ frames' \in [Threads -> Seq(CallFrames)]
           /\ frames'[t] = SubSeq(frames[t], 1, Len(frames[t]) - 1)
           /\ \A u \in Threads \ {t} : frames'[u] = frames[u]
           /\ WaitsNest(frames')
           /\ (\A i \in DOMAIN frames[t] : frames[t][i].id = 0)
              => \A i \in DOMAIN frames'[t] : frames'[t][i].id = 0
  <1> DEFINE q == frames[t]
             p == SubSeq(q, 1, Len(q) - 1)
  <1>1. q \in Seq(CallFrames) /\ q # <<>>
    OBVIOUS
  <1> HIDE DEF q
  <1>2. /\ p \in Seq(CallFrames) /\ Len(p) = Len(q) - 1 /\ Len(q) \in Nat \ {0}
        /\ DOMAIN p = 1..Len(q) - 1 /\ DOMAIN q = 1..Len(q)
        /\ \A i \in 1..Len(q) - 1 : p[i] = q[i]
    BY <1>1, InnerPopped
  <1>3. p = SubSeq(frames[t], 1, Len(frames[t]) - 1) /\ q = frames[t]
    BY DEF q
  <1> HIDE DEF p
  <1>4. frames'[t] = p /\ (\A u \in Threads \ {t} : frames'[u] = frames[u]) /\ frames' \in [Threads -> Seq(CallFrames)]
    BY <1>2, <1>3
  <1>5. Nested(p)
    <2>1. Nested(q)
      BY <1>3 DEF WaitsNest
    <2>2. \A i \in DOMAIN p : i \in DOMAIN q /\ p[i] = q[i]
      BY <1>2
    <2> QED BY <2>1, <2>2 DEF Nested
  <1>6. (\A i \in DOMAIN q : q[i].id = 0) => \A i \in DOMAIN p : p[i].id = 0
    <2>1. \A i \in DOMAIN p : i \in DOMAIN q /\ p[i] = q[i]
      BY <1>2
    <2> QED BY <2>1
  <1>7. WaitsNest(frames')
    BY <1>4, <1>5 DEF WaitsNest
  <1> QED BY <1>3, <1>4, <1>6, <1>7

\* A call or a wait that is not recorded.
LEMMA SbUnrecorded ==
    ASSUME SbInv, NEW t \in Threads, NEW f \in CallFrames, f.id = 0,
           frames' = [frames EXCEPT ![t] = Append(@, f)],
           \A i \in DOMAIN frames[t] : MayNest(frames[t][i].site, f.site),
           UNCHANGED <<traced, calls, returns, activeCalls, pendingTrace, waits, lost>>
    PROVE  SbInv'
  <1>1. /\ frames' \in [Threads -> Seq(CallFrames)] /\ frames'[t] = Append(frames[t], f)
        /\ \A u \in Threads \ {t} : frames'[u] = frames[u]
        /\ WaitsNest(frames')
        /\ (\A i \in DOMAIN frames[t] : frames[t][i].id = 0) => \A i \in DOMAIN frames'[t] : frames'[t][i].id = 0
    BY FramesPushed DEF SbInv, SbType, WaitsNest
  <1>2. SbType' /\ Records' /\ OpenWaits' = OpenWaits
    BY <1>1 DEF SbInv, SbType, Records, OpenWaits
  <1>3. traced # NoThread => Agree(frames'[traced], returns, lost, calls, OpenWaits)
    <2>1. CASE t = traced
      <3>1. frames[t] \in Seq(CallFrames) /\ calls \in Nat
        BY DEF SbInv, SbType
      <3>2. Agree(frames[t], returns, lost, calls, OpenWaits)
        BY <2>1, LldbAssumption DEF SbInv
      <3> QED BY <2>1, <1>1, <3>1, <3>2, AgreeUnrecorded
    <2>2. CASE t # traced
      BY <2>2, <1>1 DEF SbInv, SbType
    <2> QED BY <2>1, <2>2
  <1>4. \A u \in Threads \ {traced} : \A i \in DOMAIN frames'[u] : frames'[u][i].id = 0
    BY <1>1 DEF SbInv
  <1> QED BY <1>1, <1>2, <1>3, <1>4 DEF SbInv, WaitsNest

\* A wait of the traced thread that is recorded.
LEMMA SbWaiting ==
    ASSUME SbInv, NEW t \in Threads, t = traced, NEW s \in WaitPrimitives, NEW n, n = waits.seq + 1,
           NEW k \in Nat,
           waits' = [waits EXCEPT !.seq = n, !.open = @ \cup {[seq |-> n, lr |-> s]}, !.controls = k],
           frames' = [frames EXCEPT ![t] = Append(@, [site |-> s, id |-> n])],
           \A i \in DOMAIN frames[t] : MayNest(frames[t][i].site, s),
           UNCHANGED <<traced, calls, returns, activeCalls, pendingTrace, lost>>
    PROVE  SbInv'
  <1> DEFINE f == [site |-> s, id |-> n]
  <1>1. n \in Nat /\ n # 0 /\ f \in CallFrames /\ f.id = n /\ f.site = s
    BY DEF SbInv, SbType, CallFrames
  <1>2. frames' = [frames EXCEPT ![t] = Append(@, f)]
    OBVIOUS
  <1> HIDE DEF f
  <1>3. /\ frames' \in [Threads -> Seq(CallFrames)] /\ frames'[t] = Append(frames[t], f)
        /\ \A u \in Threads \ {t} : frames'[u] = frames[u]
        /\ WaitsNest(frames')
    BY <1>1, <1>2, FramesPushed DEF SbInv, SbType, WaitsNest
  <1>4. /\ waits' \in [on : BOOLEAN, root : Nat, controls : Nat, seq : Nat,
                       open : SUBSET [seq : Nat, lr : WaitPrimitives]]
        /\ OpenWaits' = OpenWaits \cup {[seq |-> n, lr |-> s]}
    <2> DEFINE x == [seq |-> n, lr |-> s]
    <2>1. x \in [seq : Nat, lr : WaitPrimitives] /\ x.seq = n
      BY <1>1
    <2>2. waits' = [waits EXCEPT !.seq = n, !.open = @ \cup {x}, !.controls = k]
      OBVIOUS
    <2>3. waits \in [on : BOOLEAN, root : Nat, controls : Nat, seq : Nat,
                     open : SUBSET [seq : Nat, lr : WaitPrimitives]]
      BY DEF SbInv, SbType
    <2> HIDE DEF x
    <2>4. waits'.open = waits.open \cup {x}
      BY <2>2, <2>3
    <2>5. waits.open \cup {x} \in SUBSET [seq : Nat, lr : WaitPrimitives]
      BY <2>1, <2>3
    <2>6. waits' \in [on : BOOLEAN, root : Nat, controls : Nat, seq : Nat,
                      open : SUBSET [seq : Nat, lr : WaitPrimitives]]
      BY <1>1, <2>2, <2>3, <2>5
    <2> QED BY <2>4, <2>6 DEF OpenWaits, x
  <1>5. OpenWaits' = OpenWaits \cup {[seq |-> n, lr |-> s]}
    BY <1>4
  <1>6. SbType' /\ Records'
    BY <1>3, <1>4 DEF SbInv, SbType, Records
  <1>7. frames[t] \in Seq(CallFrames) /\ calls \in Nat /\ Agree(frames[t], returns, lost, calls, OpenWaits)
    BY LldbAssumption DEF SbInv, SbType
  <1>8. Agree(Append(frames[t], f), returns, lost, calls, OpenWaits \cup {[seq |-> n, lr |-> s]})
    BY <1>1, <1>7, AgreeWait
  <1> QED BY <1>3, <1>5, <1>6, <1>8, LldbAssumption DEF SbInv, WaitsNest

\* A planted call of the traced thread.
LEMMA SbCalls ==
    ASSUME SbInv, NEW t \in Threads, t = traced, NEW s \in DOMAIN CallSites, OnCall(t, s),
           \A i \in DOMAIN frames[t] : frames[t][i].site \notin WaitPrimitives
    PROVE  SbInv'
  <1> DEFINE id == calls + 1
             r == [id |-> id, site |-> s]
             tail == CallSites[s].tail
             f == [site |-> s, id |-> id]
  <1>1. /\ calls' = id /\ UNCHANGED <<traced, lost>>
        /\ returns' = IF tail THEN returns ELSE returns \cup {r}
        /\ frames' = IF tail THEN frames ELSE [frames EXCEPT ![t] = Append(@, f)]
        /\ activeCalls' = IF tail \/ ~Watched(s) THEN activeCalls ELSE activeCalls \cup {id}
        /\ pendingTrace' = IF activeCalls' = activeCalls THEN pendingTrace ELSE Deepest(activeCalls')
    BY DEF OnCall
  <1>2. calls \in Nat /\ id \in Nat /\ id # 0 /\ calls < id
    BY DEF SbInv, SbType
  <1>3. waits' = waits \/ waits' = [waits EXCEPT !.on = TRUE, !.root = id]
    BY DEF OnCall
  <1>4. r \in [id : Nat, site : DOMAIN CallSites] /\ r.id = id /\ r.site = s
    BY <1>2
  <1>5. f \in CallFrames /\ f.id = id /\ f.site = s
    BY <1>2 DEF CallFrames
  <1>6. /\ waits' \in [on : BOOLEAN, root : Nat, controls : Nat, seq : Nat,
                       open : SUBSET [seq : Nat, lr : WaitPrimitives]]
        /\ waits'.open = waits.open
    BY <1>2, <1>3 DEF SbInv, SbType
  <1>7. OpenWaits' = OpenWaits
    BY <1>6 DEF OpenWaits
  <1>8. frames[t] \in Seq(CallFrames) /\ Agree(frames[t], returns, lost, calls, OpenWaits)
    BY LldbAssumption DEF SbInv, SbType
  <1>9. pendingTrace' = Deepest(activeCalls')
    BY <1>1 DEF SbInv, Records
  <1>10. calls' = calls + 1
    BY <1>1
  <1>11. CASE tail
    <2>1. Agree(frames[t], returns, lost, calls + 1, OpenWaits)
      BY <1>2, <1>8, AgreeNumber
    <2>2. UNCHANGED <<traced, lost, returns, frames, activeCalls>>
      BY <1>1, <1>11
    <2>3. \A x \in returns : x.id \in Nat
      BY DEF SbInv, SbType
    <2>4. Records'
      BY <1>2, <1>9, <1>10, <2>2, <2>3 DEF SbInv, Records
    <2>5. SbType'
      BY <1>1, <1>2, <1>6, <2>2 DEF SbInv, SbType
    <2> QED BY <1>7, <1>6, <1>10, <2>1, <2>2, <2>4, <2>5 DEF SbInv
  <1>12. CASE ~tail
    <2>1. returns' = returns \cup {r} /\ frames' = [frames EXCEPT ![t] = Append(@, f)]
      BY <1>1, <1>12
    <2>2. activeCalls' = IF Watched(s) THEN activeCalls \cup {id} ELSE activeCalls
      BY <1>1, <1>12
    <2>3. Agree(Append(frames[t], f), returns \cup {r}, lost, calls + 1, OpenWaits)
      BY <1>2, <1>8, AgreeCall, SitesDistinct DEF SbInv, SbType
    <2> HIDE DEF f, r, id
    <2>4. /\ frames' \in [Threads -> Seq(CallFrames)] /\ frames'[t] = Append(frames[t], f)
          /\ \A u \in Threads \ {t} : frames'[u] = frames[u]
          /\ WaitsNest(frames')
      <3>1. \A i \in DOMAIN frames[t] : MayNest(frames[t][i].site, f.site)
        BY DEF MayNest
      <3> QED BY <1>5, <2>1, <3>1, FramesPushed DEF SbInv, SbType
    <2>5. SbType'
      BY <1>1, <1>2, <1>4, <1>6, <2>1, <2>4 DEF SbInv, SbType
    <2>6. \A x \in returns : x.id \in Nat /\ x.id # 0 /\ x.id < id
      BY <1>2 DEF SbInv, SbType, Records, id
    <2>7. \A x \in returns' : x.id # 0 /\ x.id <= calls'
      BY <1>1, <1>2, <1>4, <2>1, <2>6
    <2>8. \A x, y \in returns' : x.id = y.id => x = y
      <3>1. \A x, y \in returns : x.id = y.id => x = y
        BY DEF SbInv, Records
      <3>2. \A x \in returns : x.id # r.id
        BY <1>2, <1>4, <2>6
      <3> QED BY <2>1, <3>1, <3>2
    <2>9. activeCalls' = {x.id : x \in {y \in returns' : Watched(y.site)}}
      <3>1. activeCalls = {x.id : x \in {y \in returns : Watched(y.site)}}
        BY DEF SbInv, Records
      <3> QED BY <3>1, <1>4, <2>1, <2>2
    <2>10. Records'
      BY <1>9, <2>7, <2>8, <2>9 DEF Records
    <2> QED BY <1>1, <1>7, <1>10, <2>1, <2>3, <2>4, <2>5, <2>10, LldbAssumption DEF SbInv, WaitsNest
  <1> QED BY <1>11, <1>12

\* A return of a thread that is not traced.
LEMMA SbReturnOther ==
    ASSUME SbInv, NEW t \in Threads, t # traced, NEW name \in Names(t), GuestReturns(t, name)
    PROVE  SbInv'
  <1>1. /\ frames[t] # <<>> /\ frames' = [frames EXCEPT ![t] = SubSeq(@, 1, Len(@) - 1)]
        /\ UNCHANGED <<traced, calls>>
    BY DEF GuestReturns
  <1>2. UNCHANGED <<returns, activeCalls, pendingTrace, waits, lost>>
    BY DEF GuestReturns, OnReturn, OnWaitReturn, Same, SameThreadFast
  <1>3. /\ frames' \in [Threads -> Seq(CallFrames)]
        /\ \A u \in Threads \ {t} : frames'[u] = frames[u]
        /\ WaitsNest(frames')
        /\ (\A i \in DOMAIN frames[t] : frames[t][i].id = 0) => \A i \in DOMAIN frames'[t] : frames'[t][i].id = 0
    BY <1>1, FramesPopped DEF SbInv, SbType, WaitsNest
  <1>4. SbType' /\ Records' /\ OpenWaits' = OpenWaits
    BY <1>1, <1>2, <1>3 DEF SbInv, SbType, Records, OpenWaits
  <1>5. traced # NoThread => frames'[traced] = frames[traced]
    BY <1>3 DEF SbInv, SbType
  <1>6. \A u \in Threads \ {traced} : \A i \in DOMAIN frames'[u] : frames'[u][i].id = 0
    BY <1>3 DEF SbInv
  <1> QED BY <1>1, <1>2, <1>3, <1>4, <1>5, <1>6 DEF SbInv, WaitsNest

\* A wait of the traced thread ends: the waits kept at its address go.
LEMMA SbWaitEnds ==
    ASSUME SbInv, NEW t \in Threads, t = traced, NEW name \in Names(t), GuestReturns(t, name),
           frames[t][Len(frames[t])].site \in WaitPrimitives
    PROVE  SbInv'
  <1> DEFINE q == frames[t]
             f == q[Len(q)]
  <1>1. /\ q # <<>> /\ frames' = [frames EXCEPT ![t] = SubSeq(@, 1, Len(@) - 1)]
        /\ UNCHANGED <<traced, calls, returns, activeCalls, pendingTrace, lost>>
        /\ OnWaitReturn(t, f.site)
    BY DEF GuestReturns
  <1>2. waits \in [on : BOOLEAN, root : Nat, controls : Nat, seq : Nat,
                   open : SUBSET [seq : Nat, lr : WaitPrimitives]]
    BY DEF SbInv, SbType
  <1>4. \/ waits' = waits /\ {x \in waits.open : x.lr = f.site} = {}
        \/ waits' = [waits EXCEPT !.open = @ \ {x \in waits.open : x.lr = f.site}]
    <2>1. SameThreadFast(t)
      BY DEF SameThreadFast
    <2> QED BY <1>1, <2>1 DEF OnWaitReturn
  <1>5. /\ waits' \in [on : BOOLEAN, root : Nat, controls : Nat, seq : Nat,
                       open : SUBSET [seq : Nat, lr : WaitPrimitives]]
        /\ waits'.open = {x \in waits.open : x.lr # f.site}
    BY <1>2, <1>4
  <1>6. OpenWaits' = {x \in OpenWaits : x.lr # f.site}
    BY <1>5 DEF OpenWaits
  <1>7. /\ frames' \in [Threads -> Seq(CallFrames)] /\ frames'[t] = SubSeq(q, 1, Len(q) - 1)
        /\ \A u \in Threads \ {t} : frames'[u] = frames[u]
        /\ WaitsNest(frames')
    BY <1>1, FramesPopped DEF SbInv, SbType, WaitsNest
  <1>8. SbType' /\ Records'
    BY <1>1, <1>5, <1>7 DEF SbInv, SbType, Records
  <1>9. q \in Seq(CallFrames) /\ Agree(q, returns, lost, calls, OpenWaits) /\ calls \in Nat
        /\ returns \subseteq [id : Nat, site : DOMAIN CallSites] /\ Nested(q)
    BY LldbAssumption DEF SbInv, SbType, WaitsNest
  <1>10. Agree(SubSeq(q, 1, Len(q) - 1), returns, lost, calls, {x \in OpenWaits : x.lr # f.site})
    BY <1>1, <1>9, AgreeWaitEnds, SitesDistinct
  <1> QED BY <1>1, <1>6, <1>7, <1>8, <1>10, LldbAssumption DEF SbInv, WaitsNest

\* The records without those of one return address.
LEMMA RecordsGone ==
    ASSUME Records, NEW s, NEW here, here = {x \in returns : x.site = s},
           NEW ids, ids = {x.id : x \in here},
           returns' = returns \ here, activeCalls' = activeCalls \ ids, calls' = calls,
           pendingTrace' = IF Watched(s) THEN Deepest(activeCalls \ ids) ELSE pendingTrace
    PROVE  Records'
  <1>1. \A x \in returns : x.id \in ids <=> x \in here
    BY DEF Records
  <1>2. activeCalls' = {x.id : x \in {y \in returns' : Watched(y.site)}}
    BY <1>1 DEF Records
  <1>3. ~Watched(s) => activeCalls' = activeCalls
    <2> SUFFICES ASSUME ~Watched(s) PROVE activeCalls' = activeCalls
      OBVIOUS
    <2>1. \A x \in returns : Watched(x.site) => x \notin here
      OBVIOUS
    <2>2. \A n \in activeCalls : n \notin ids
      BY <1>1, <2>1 DEF Records
    <2> QED BY <2>2
  <1>4. pendingTrace' = Deepest(activeCalls')
    BY <1>3 DEF Records
  <1>5. /\ \A x \in returns' : x.id # 0 /\ x.id <= calls'
        /\ \A x, y \in returns' : x.id = y.id => x = y
    BY DEF Records
  <1> QED BY <1>2, <1>4, <1>5 DEF Records

LEMMA RootEnds ==
    ASSUME NEW w \in [on : BOOLEAN, root : Nat, controls : Nat, seq : Nat,
                      open : SUBSET [seq : Nat, lr : WaitPrimitives]],
           NEW v, v = [w EXCEPT !.on = FALSE, !.root = 0]
    PROVE  /\ v \in [on : BOOLEAN, root : Nat, controls : Nat, seq : Nat,
                     open : SUBSET [seq : Nat, lr : WaitPrimitives]]
           /\ v.open = w.open
  OBVIOUS

\* A call of the traced thread returns.
LEMMA SbCallReturns ==
    ASSUME SbInv, NEW t \in Threads, t = traced, Prog[t] = "SpringBoard", NEW name \in Names(t),
           GuestReturns(t, name), frames[t][Len(frames[t])].site \notin WaitPrimitives
    PROVE  SbInv'
  <1> DEFINE q == frames[t]
             f == q[Len(q)]
             s == f.site
             here == {x \in returns : x.site = s}
             ids == {x.id : x \in here}
             others == {x.id : x \in {y \in returns : y.site = s /\ y.id # f.id}}
  <1>1. /\ q # <<>> /\ frames' = [frames EXCEPT ![t] = SubSeq(@, 1, Len(@) - 1)]
        /\ UNCHANGED <<traced, calls>> /\ OnReturn(t, name, s)
        /\ lost' = IF name = Unreadable THEN lost \cup ({f.id} \ {0}) ELSE lost \cup others
    BY DEF GuestReturns
  <1>2. Same(t, name) <=> name # Unreadable
    BY DEF Same, SameThreadFast, Names, Unreadable
  <1>3. /\ frames' \in [Threads -> Seq(CallFrames)] /\ frames'[t] = SubSeq(q, 1, Len(q) - 1)
        /\ \A u \in Threads \ {t} : frames'[u] = frames[u]
        /\ WaitsNest(frames')
    BY <1>1, FramesPopped DEF SbInv, SbType, WaitsNest
  <1>4. q \in Seq(CallFrames) /\ Agree(q, returns, lost, calls, OpenWaits) /\ calls \in Nat
        /\ (\A x \in returns : x.id # 0) /\ Records /\ Nested(q)
    BY LldbAssumption DEF SbInv, SbType, Records, WaitsNest
  <1>5. /\ Agree(SubSeq(q, 1, Len(q) - 1), returns \ here, lost \cup others, calls, OpenWaits)
        /\ Agree(SubSeq(q, 1, Len(q) - 1), returns, lost \cup ({f.id} \ {0}), calls, OpenWaits)
    BY <1>1, <1>4, AgreeReturns
  <1>6. waits \in [on : BOOLEAN, root : Nat, controls : Nat, seq : Nat,
                   open : SUBSET [seq : Nat, lr : WaitPrimitives]]
    BY DEF SbInv, SbType
  <1>7. /\ waits' \in [on : BOOLEAN, root : Nat, controls : Nat, seq : Nat,
                       open : SUBSET [seq : Nat, lr : WaitPrimitives]]
        /\ waits'.open = waits.open
    <2>1. waits' = waits \/ waits' = [waits EXCEPT !.on = FALSE, !.root = 0]
      BY <1>1 DEF OnReturn
    <2>2. CASE waits' = waits
      BY <1>6, <2>2
    <2>3. CASE waits' = [waits EXCEPT !.on = FALSE, !.root = 0]
      BY <1>6, <2>3, RootEnds
    <2> QED BY <2>1, <2>2, <2>3
  <1>8. OpenWaits' = OpenWaits
    BY <1>7 DEF OpenWaits
  <1>9. /\ Records'
        /\ returns' \subseteq returns
        /\ Agree(SubSeq(q, 1, Len(q) - 1), returns', lost', calls, OpenWaits)
    <2>1. CASE name = Unreadable
      <3>1. UNCHANGED <<returns, activeCalls, pendingTrace>>
        BY <1>1, <1>2, <2>1 DEF OnReturn
      <3>2. Records'
        BY <1>1, <1>4, <3>1 DEF Records
      <3> QED BY <1>1, <1>5, <2>1, <3>1, <3>2
    <2>2. CASE name # Unreadable /\ here = {}
      <3>1. UNCHANGED <<returns, activeCalls, pendingTrace>>
        BY <1>1, <2>2 DEF OnReturn
      <3>2. Records'
        BY <1>1, <1>4, <3>1 DEF Records
      <3> QED BY <1>1, <1>5, <2>2, <3>1, <3>2
    <2>3. CASE name # Unreadable /\ here # {}
      <3>1. /\ returns' = returns \ here /\ activeCalls' = activeCalls \ ids
            /\ pendingTrace' = IF Watched(s) THEN Deepest(activeCalls \ ids) ELSE pendingTrace
        BY <1>1, <1>2, <2>3 DEF OnReturn
      <3>2. Records'
        BY <1>1, <1>4, <3>1, RecordsGone
      <3> QED BY <1>1, <1>5, <2>3, <3>1, <3>2
    <2> QED BY <2>1, <2>2, <2>3
  <1>10. SbType'
    BY <1>1, <1>3, <1>7, <1>9 DEF SbInv, SbType
  <1> QED BY <1>1, <1>3, <1>8, <1>9, <1>10, LldbAssumption DEF SbInv, WaitsNest

LEMMA SbExecutes ==
    ASSUME SbInv, NEW t \in Threads, NEW name \in Names(t), Prog[t] = "SpringBoard", Executes(t, name)
    PROVE  SbInv'
  <1>1. ASSUME NEW s \in DOMAIN CallSites, GuestCalls(t, name, s) PROVE SbInv'
    <2>0. s \notin Traps
      BY SitesDistinct DEF WaitPrimitives
    <2>1. \A i \in DOMAIN frames[t] : frames[t][i].site \notin WaitPrimitives
      BY <1>1, <2>0 DEF GuestCalls, MayCall, MayNest
    <2>2. CASE planted[s].on /\ Same(t, name) /\ calls < MaxCalls
      <3>1. OnCall(t, s) /\ t = traced
        BY <1>1, <2>2 DEF GuestCalls, Same, SameThreadFast
      <3> QED BY <2>1, <3>1, SbCalls
    <2>3. CASE ~(planted[s].on /\ Same(t, name) /\ calls < MaxCalls)
      <3> DEFINE f == [site |-> s, id |-> 0]
      <3>1. /\ frames' = [frames EXCEPT ![t] = Append(@, f)]
            /\ UNCHANGED <<traced, calls, returns, activeCalls, pendingTrace, waits, lost>>
        BY <1>1, <2>3 DEF GuestCalls
      <3>2. f \in CallFrames /\ f.id = 0
        BY DEF CallFrames
      <3>3. \A i \in DOMAIN frames[t] : MayNest(frames[t][i].site, f.site)
        BY <2>1 DEF MayNest
      <3> HIDE DEF f
      <3> QED BY <3>1, <3>2, <3>3, SbUnrecorded
    <2> QED BY <2>2, <2>3
  <1>2. ASSUME GuestReturns(t, name) PROVE SbInv'
    BY <1>2, SbReturnOther, SbWaitEnds, SbCallReturns
  <1>3. ASSUME NEW s \in WaitPrimitives, GuestWaits(t, s) PROVE SbInv'
    <2> DEFINE seeing == waits.on /\ SameThreadFast(t)
                         /\ ~(waits.root = 0 /\ waits.controls >= MaxWaitControls)
               n == waits.seq + 1
               k == IF waits.root = 0 THEN waits.controls + 1 ELSE waits.controls
    <2>1. \A i \in DOMAIN frames[t] : MayNest(frames[t][i].site, s)
      BY <1>3 DEF GuestWaits, MayCall
    <2>2. UNCHANGED <<traced, calls, returns, activeCalls, pendingTrace, lost>>
      BY <1>3 DEF GuestWaits
    <2>3. CASE seeing
      <3>1. /\ waits' = [waits EXCEPT !.seq = n, !.open = @ \cup {[seq |-> n, lr |-> s]},
                                      !.controls = IF waits.root = 0 THEN @ + 1 ELSE @]
            /\ frames' = [frames EXCEPT ![t] = Append(@, [site |-> s, id |-> n])]
        BY <1>3, <2>3 DEF GuestWaits
      <3>2. waits' = [waits EXCEPT !.seq = n, !.open = @ \cup {[seq |-> n, lr |-> s]}, !.controls = k]
        BY <3>1 DEF SbInv, SbType
      <3>3. t = traced /\ k \in Nat /\ n = waits.seq + 1
        BY <2>3 DEF SameThreadFast, SbInv, SbType
      <3> HIDE DEF n, k
      <3> QED BY <2>1, <2>2, <3>1, <3>2, <3>3, SbWaiting
    <2>4. CASE ~seeing
      <3> DEFINE f == [site |-> s, id |-> 0]
      <3>1. frames' = [frames EXCEPT ![t] = Append(@, f)] /\ UNCHANGED waits
        BY <1>3, <2>4 DEF GuestWaits
      <3>2. f \in CallFrames /\ f.id = 0 /\ f.site = s
        BY DEF CallFrames
      <3> HIDE DEF f
      <3> QED BY <2>1, <2>2, <3>1, <3>2, SbUnrecorded
    <2> QED BY <2>3, <2>4
  <1>4. ASSUME NEW b \in BOOLEAN, OnObjcDispatch(t, b) PROVE SbInv'
    BY <1>4, SbArms DEF OnObjcDispatch
  <1>5. ASSUME NEW b \in BOOLEAN, NEW x \in DOMAIN entries, OnTargetEntry(t, name, x, b) PROVE SbInv'
    BY <1>5, SbArms DEF OnTargetEntry
  <1> QED BY <1>1, <1>2, <1>3, <1>4, <1>5 DEF Executes

LEMMA SbInitially == Init => SbInv
  <1> SUFFICES ASSUME Init PROVE SbInv
    OBVIOUS
  <1>1. SbInit
    BY DEF Init
  <1>2. /\ calls = 0 /\ returns = {} /\ activeCalls = {} /\ pendingTrace = 0 /\ lost = {}
        /\ frames = [t \in Threads |-> <<>>]
        /\ waits = [on |-> traced # NoThread, root |-> 0, controls |-> 0, seq |-> 0, open |-> {}]
    BY <1>1 DEF SbInit
  <1>3. traced \in Threads \cup {NoThread}
    BY <1>1, SpringboardAssumption DEF SbInit
  <1>4. (traced # NoThread) \in BOOLEAN
    OBVIOUS
  <1>5. SbType /\ waits.open = {}
    BY <1>2, <1>3, <1>4 DEF SbType
  <1>6. Records
    BY <1>2 DEF Records, Deepest
  <1>7. OpenWaits = {}
    BY <1>5 DEF OpenWaits
  <1>8. \A t \in Threads : frames[t] = <<>>
    BY <1>2
  <1>9. Agree(<<>>, returns, lost, calls, OpenWaits)
    BY <1>2, <1>7 DEF Agree
  <1>10. WaitsNest(frames)
    BY <1>8 DEF WaitsNest, Nested
  <1> QED BY <1>3, <1>5, <1>6, <1>8, <1>9, <1>10, <1>2 DEF SbInv

LEMMA SbStep == SbInv /\ [Next]_vars => SbInv'
  <1> SUFFICES ASSUME SbInv, [Next]_vars PROVE SbInv'
    OBVIOUS
  <1>1. CASE UNCHANGED sbVars
    <2>1. UNCHANGED <<calls, returns, activeCalls, frames, lost, traced, waits, pendingTrace>>
      BY <1>1 DEF sbVars
    <2> QED BY <2>1, SbArms
  <1>2. ASSUME NEW t \in SbThreads, NEW name \in Names(t), OnAnchor(t, name) PROVE SbInv'
    <2>1. t \in Threads
      BY SpringboardAssumption
    <2>2. traced' = traced \/ (traced = NoThread /\ traced' \in Threads)
      BY <1>2, <2>1 DEF OnAnchor, Arm
    <2> QED BY <1>2, <2>2, SbArms DEF OnAnchor
  <1>3. ASSUME NEW t \in SbThreads, NEW name \in Names(t), NEW label, NEW root, NEW wanted,
               OnBoundary(t, name, label, root, wanted)
        PROVE SbInv'
    <2>1. t \in Threads
      BY SpringboardAssumption
    <2>2. traced' = traced \/ (traced = NoThread /\ traced' \in Threads)
      BY <1>3, <2>1 DEF OnBoundary
    <2>3. waits' = waits \/ waits' = WaitsOn(waits, TRUE)
      BY <1>3 DEF OnBoundary
    <2>4. UNCHANGED <<calls, returns, activeCalls, frames, lost, pendingTrace>>
      BY <1>3 DEF OnBoundary
    <2> QED BY <2>2, <2>3, <2>4, SbArms
  <1>4. ASSUME NEW t \in SbThreads \cup Workers, NEW name \in Names(t), Prog[t] = "SpringBoard",
               Executes(t, name)
        PROVE SbInv'
    BY <1>4, SbExecutes, SpringboardAssumption
  <1>5. CASE SbNext
    BY <1>1, <1>2, <1>3, <1>4, <1>5 DEF SbNext
  <1>6. SbNext \/ UNCHANGED sbVars
    BY DEF Next, vars
  <1> QED BY <1>1, <1>5, <1>6

LEMMA StallConclusion == SbInv => StallNamed
  <1> SUFFICES ASSUME SbInv PROVE StallNamed
    OBVIOUS
  <1> DEFINE open == IF traced = NoThread THEN {} ELSE
                    {frames[traced][i] : i \in DOMAIN frames[traced]}
             calling == {f.id : f \in {g \in open : g.site \notin WaitPrimitives}} \ {0}
             waiting == {f.id : f \in {g \in open : g.site \in WaitPrimitives}} \ {0}
             watching == {f.id : f \in {g \in open : g.site \notin WaitPrimitives /\ Watched(g.site)}}
  <1>1. \A x \in returns : x.id # 0 /\ x.site \notin WaitPrimitives
    BY SitesDistinct DEF SbInv, SbType, Records
  <1>2. \A x \in returns : x.id \in lost \/ \E f \in open : f.site = x.site /\ f.id = x.id
    <2>1. CASE traced = NoThread
      BY <2>1 DEF SbInv
    <2>2. CASE traced # NoThread
      BY <2>2 DEF SbInv, Agree
    <2> QED BY <2>1, <2>2
  <1>3. \A f \in open : f.site \notin WaitPrimitives /\ f.id # 0 /\ f.id \notin lost =>
           \E x \in returns : x.id = f.id /\ x.site = f.site
    <2> SUFFICES ASSUME NEW f \in open, f.site \notin WaitPrimitives, f.id # 0, f.id \notin lost
                 PROVE  \E x \in returns : x.id = f.id /\ x.site = f.site
      OBVIOUS
    <2>1. traced # NoThread /\ \E i \in DOMAIN frames[traced] : f = frames[traced][i]
      OBVIOUS
    <2>2. [id |-> f.id, site |-> f.site] \in returns
      BY <2>1 DEF SbInv, Agree
    <2> QED BY <2>2
  <1>4. /\ \A x \in waits.open : /\ x.seq # 0
                                  /\ \E f \in open : f.site \in WaitPrimitives /\ f.id = x.seq
        /\ \A f \in open : f.site \in WaitPrimitives /\ f.id # 0 =>
              \E x \in waits.open : x.seq = f.id
    <2>1. CASE traced = NoThread
      BY <2>1 DEF SbInv
    <2>2. CASE traced # NoThread
      <3>1. Agree(frames[traced], returns, lost, calls, waits.open)
        BY <2>2 DEF SbInv, OpenWaits
      <3>2. \A x \in waits.open : /\ x.seq # 0
                                  /\ \E f \in open : f.site \in WaitPrimitives /\ f.id = x.seq
        BY <2>2, <3>1 DEF Agree
      <3>3. ASSUME NEW f \in open, f.site \in WaitPrimitives, f.id # 0
            PROVE  \E x \in waits.open : x.seq = f.id
        <4>1. [seq |-> f.id, lr |-> f.site] \in waits.open
          BY <2>2, <3>1, <3>3 DEF Agree
        <4> QED BY <4>1
      <3> QED BY <3>2, <3>3
    <2> QED BY <2>1, <2>2
  <1> HIDE DEF open
  <1>5. {x.id : x \in returns} \ lost = calling \ lost
    BY <1>1, <1>2, <1>3
  <1>6. activeCalls \ lost = watching \ ({0} \cup lost)
    <2>1. activeCalls = {x.id : x \in {y \in returns : Watched(y.site)}}
      BY DEF SbInv, Records
    <2> QED BY <1>1, <1>2, <1>3, <2>1
  <1>7. {x.seq : x \in waits.open} = waiting
    BY <1>4
  <1>8. pendingTrace = Deepest(activeCalls)
    BY DEF SbInv, Records
  <1> QED BY <1>5, <1>6, <1>7, <1>8 DEF StallNamed, open

\* "The last call without a matching return identifies the next bounded startup
\* stall": whatever the limits and the other threads do, the pending records of
\* springboard_startup_trace are the open calls and waits of the traced thread,
\* and the pending file names the deepest.
THEOREM StallIsNamed == Spec => []StallNamed
  BY SbInitially, SbStep, StallConclusion, PTL DEF Spec

=============================================================================
