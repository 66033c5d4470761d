---------------------------- MODULE NativeCalls ----------------------------
(***************************************************************************)
(* The LLDB scripts that borrow a guest thread (three power diagnostics,   *)
(* the touch bridge and the helper's bootstrap): at a boundary of the      *)
(* target program's main thread they save the registers, point pc at a     *)
(* native function with the boundary itself as return address, and restore *)
(* everything when the thread is back.  The boundary is a system call stub *)
(* that every thread executes, and that the native functions execute too:  *)
(* the return is recognised by tpidr_el1 and the exact stack pointer.      *)
(***************************************************************************)
EXTENDS Lldb

CONSTANT TouchCap   \* length of touch_bridge.QUEUE (8 in the code)

VARIABLES
    call,      \* CALL, STATE: NoCall or [tp, phase, index, token, published]
    done,      \* DONE, POSTED
    boundary,  \* the breakpoint at the boundary is enabled
    publish,   \* DIAGNOSTIC_STATE is given (power_percent)
    regs,      \* guest: thread -> "own" or "borrowed" register contents
    slot,      \* guest: thread -> "own" or "borrowed" stack bytes
    tokens,    \* guest: notification tokens registered and not cancelled
    arrays,    \* guest: objects, mappings and port rights created and not released
    timer,     \* touch_bridge.TIMER
    gestures,  \* completed gestures in touch_bridge.QUEUE
    faulted    \* ghost: the script could not give something back, and ended as if
               \* it had: notify_cancel failed, or the array's slot was unreadable

natVars == <<call, done, boundary, publish, regs, slot, tokens, arrays, timer, gestures, faulted>>

PlanTools == {"touch", "spawn"}
NativeTools == {"notify", "iops", "percent"} \cup PlanTools

NoCall == [tp |-> NoThread, phase |-> "idle", index |-> 1, token |-> FALSE,
           published |-> FALSE]

\* The daemon of bootstrap_helper is launchd.
Target == CASE tool = "percent" -> {"SpringBoard", "daemon"}
            [] tool = "spawn" -> {"daemon"}
            [] OTHER -> {"SpringBoard"}

\* The first native function of each script.
FirstPhase == CASE tool = "notify" -> "post"
                [] tool = "iops" -> "copy"
                [] OTHER -> "percent"

\* STATE['steps'] of the two scripts that run a list of native calls: what each
\* call adds to the guest's obligations.  gesture_steps makes an event stream and
\* playback options and releases both.
GesturePlan == <<1, 0, 0, 1, 0, 0, -1, -1>>

\* steps() of bootstrap_helper maps memory, initialises file actions, looks up
\* ports, initialises spawn attributes, spawns, and undoes the four.
SpawnPlan == <<1, 1, 0, 1, 1, 0, -1, -1, -1, -1>>

\* "timer" and "idle-reset" are single calls.
Plan(phase) ==
    CASE phase = "gesture" -> GesturePlan [] phase = "spawn" -> SpawnPlan [] OTHER -> <<0>>

\* poll: completed gestures are queued while there is room, else dropped.
Poll(n) == IF gestures + n > TouchCap THEN TouchCap ELSE gestures + n

\* What the boundary callback of touch_bridge begins.
TouchBegins(q) == IF ~timer THEN "timer" ELSE IF q > 0 THEN "gesture" ELSE "idle-reset"

\* begin: registers are saved, the thread runs the first call of the plan.  For
\* bootstrap_helper any thread of launchd that is at EL0 will do (main).
BeginPlan(t, name, main) ==
    /\ tool \in PlanTools /\ ~paused /\ boundary
    /\ call = NoCall /\ ~done /\ name \in Target /\ main
    /\ \E n \in 0..TouchCap :
         LET q == IF tool = "touch" /\ timer THEN Poll(n) ELSE gestures
             phase == IF tool = "touch" THEN TouchBegins(q) ELSE "spawn" IN
         /\ call' = [NoCall EXCEPT !.tp = t, !.phase = phase]
         /\ gestures' = IF phase = "gesture" THEN q - 1 ELSE q
    /\ regs' = [regs EXCEPT ![t] = "borrowed"]
    /\ UNCHANGED <<tool, paused, done, boundary, publish, slot, tokens, arrays, timer, faulted>>

\* _on_observer, _on_mach_msg, boundary: no call under way, none done, the
\* target program, its main stack.  x0.. and pc are set, lr is the boundary.
Borrow(t, name, main) ==
    /\ tool \in NativeTools \ PlanTools /\ ~paused /\ boundary
    /\ call = NoCall /\ ~done /\ name \in Target /\ main
    /\ call' = [NoCall EXCEPT !.tp = t, !.phase = FirstPhase]
    /\ boundary' = FALSE
    /\ regs' = [regs EXCEPT ![t] = "borrowed"]
    /\ slot' = IF tool = "notify" THEN slot ELSE [slot EXCEPT ![t] = "borrowed"]
    /\ UNCHANGED <<tool, paused, done, publish, tokens, arrays, timer, gestures, faulted>>

\* The checks before anything is borrowed raise, which leaves the guest stopped:
\* bootstrap_helper's for a thread of launchd above EL0 (~main), the others' for
\* mapped code or a literal that is not the expected one.
BorrowRefused(t, name, main) ==
    /\ tool \in NativeTools \ {"touch"} /\ ~paused /\ boundary
    /\ call = NoCall /\ ~done /\ name \in Target /\ (main <=> tool # "spawn")
    /\ paused' = TRUE
    /\ UNCHANGED <<tool, natVars>>

\* The callbacks' tests: is this the thread, and the frame, of the call?
MineMutant(t, atSp) == call.tp = t
Mine(t, atSp) == atSp /\ call.tp = t

Restored ==
    /\ regs' = [regs EXCEPT ![call.tp] = "own"]
    /\ slot' = [slot EXCEPT ![call.tp] = "own"]
    /\ call' = NoCall /\ done' = (tool # "touch")

\* A register or the stack bytes that cannot be written back raise: the guest
\* stays stopped, CALL is kept, and some registers are still the borrowed ones.
\* That session is over, which phase "raised" stands for.
Raises ==
    /\ slot' \in {slot, [slot EXCEPT ![call.tp] = "own"]}
    /\ call' = [call EXCEPT !.phase = "raised"]
    /\ paused' = TRUE
    /\ UNCHANGED <<done, regs>>

\* stop: the callback asks for the guest to stay stopped.
Restore(stop) == (Restored /\ paused' = stop) \/ Raises

Invoke(p) == call' = [call EXCEPT !.phase = p] /\ UNCHANGED <<done, regs, slot, paused>>

\* power_notify._on_native_return.
NotifyReturns == tool = "notify" /\ Restore(FALSE) /\ UNCHANGED <<tokens, arrays, faulted>>

\* power_iops_liveness._return: copy, count, release; ok is a zero IOReturn
\* with an array, read: its slot can be read.  An array whose slot cannot be
\* read counts as none, and is not released.  Only a function that is really
\* back (atSp) has had its effect on the guest.
IopsReturns(ok, read, atSp) ==
    /\ tool = "iops"
    /\ \/ /\ call.phase = "copy" /\ ~(ok /\ read) /\ Restore(FALSE)
          /\ arrays' = IF ok /\ atSp THEN arrays + 1 ELSE arrays
          /\ faulted' = (faulted \/ ok)
       \/ /\ call.phase = "copy" /\ ok /\ read
          /\ Invoke("count") /\ arrays' = IF atSp THEN arrays + 1 ELSE arrays
          /\ UNCHANGED faulted
       \/ call.phase = "count" /\ Invoke("release") /\ UNCHANGED <<arrays, faulted>>
       \/ /\ call.phase = "release" /\ Restore(FALSE)
          /\ arrays' = IF atSp THEN arrays - 1 ELSE arrays
          /\ UNCHANGED faulted
    /\ UNCHANGED tokens

\* power_percent.returned: percent, register, state, [set, post, percent],
\* cancel; ok is a zero result of the phase that returned, read: the scratch
\* bytes can be read.  The result of notify_cancel is not looked at.
AfterState(ok) == IF ok /\ publish THEN "set" ELSE "cancel"
AfterSet(ok) == IF ok THEN "post" ELSE "cancel"
Granted(ok) ==
    CASE call.phase = "register" /\ ok -> 1 [] call.phase = "cancel" /\ ok -> -1 [] OTHER -> 0

PercentReturns(ok, read, atSp) ==
    /\ tool = "percent"
    /\ tokens' = IF atSp THEN tokens + Granted(ok) ELSE tokens
    /\ faulted' = (faulted \/ (call.phase = "cancel" /\ ~ok))
    /\ \/ ~read /\ Raises
       \/ /\ read /\ call.phase = "percent"
          /\ Invoke(IF call.published THEN "cancel" ELSE "register")
       \/ /\ read /\ call.phase = "register" /\ ok
          /\ call' = [call EXCEPT !.phase = "state", !.token = TRUE]
          /\ UNCHANGED <<done, regs, slot, paused>>
       \/ read /\ call.phase = "state" /\ Invoke(AfterState(ok))
       \/ read /\ call.phase = "set" /\ Invoke(AfterSet(ok))
       \/ /\ read /\ call.phase = "post"
          /\ call' = [call EXCEPT !.phase = "percent", !.published = TRUE]
          /\ UNCHANGED <<done, regs, slot, paused>>
       \/ /\ read /\ ((call.phase = "register" /\ ~ok) \/ call.phase = "cancel")
          /\ Restore(TRUE)
    /\ UNCHANGED arrays

\* touch_bridge.on_observer and bootstrap_helper.callback: the next call of the
\* plan; a step that cannot be prepared (a failed read, a failed native call)
\* leaves the guest stopped in the middle of the plan; the last one restores.
PlanReturns(ok, atSp) ==
    /\ tool \in PlanTools
    /\ arrays' = IF atSp THEN arrays + Plan(call.phase)[call.index] ELSE arrays
    /\ IF call.index < Len(Plan(call.phase))
       THEN /\ call' = [call EXCEPT !.index = @ + 1]
            /\ paused' = ~ok
            /\ UNCHANGED <<done, regs, slot, timer>>
       ELSE /\ Restore(FALSE)
            /\ timer' = (timer \/ (call.phase = "timer" /\ call' = NoCall))
    /\ UNCHANGED <<tokens, faulted>>

\* The spawn is the only plan of bootstrap_helper; its breakpoint is disabled.
StaysArmed == tool = "spawn" => ~done'

\* A thread executes the boundary address while a call is under way.  atSp:
\* with the stack pointer of the call.  Only the native function's own return
\* has both the thread and the stack pointer.
AtBoundary(t, atSp) ==
    /\ tool \in NativeTools /\ ~paused /\ call # NoCall /\ call.phase # "raised"
    /\ IF Mine(t, atSp)
       THEN \E ok, read \in BOOLEAN :
               \/ /\ NotifyReturns \/ IopsReturns(ok, read, atSp) \/ PercentReturns(ok, read, atSp)
                  /\ UNCHANGED timer
               \/ PlanReturns(ok, atSp)
       ELSE UNCHANGED <<call, done, regs, slot, tokens, arrays, timer, paused, faulted>>
    /\ boundary' = (boundary /\ StaysArmed)
    /\ UNCHANGED <<tool, publish, gestures>>

NativeInit ==
    /\ call = NoCall /\ done = FALSE /\ boundary = TRUE /\ publish \in {FALSE, tool = "percent"}
    /\ regs = [t \in Threads |-> "own"] /\ slot = [t \in Threads |-> "own"]
    /\ tokens = 0 /\ arrays = 0 /\ timer = FALSE /\ gestures = 0 /\ faulted = FALSE

\* The operator continues a guest that was stopped at the end of a call.  One
\* that a failed step has stopped in the middle of a plan, or a failed restore
\* at its end, still runs on borrowed registers: that session is over.
NativeNext ==
    \/ \E t \in Threads, main \in BOOLEAN : \E name \in Names(t) : Borrow(t, name, main)
    \/ \E t \in Threads, main \in BOOLEAN : \E name \in Names(t) : BeginPlan(t, name, main)
    \/ \E t \in Threads, main \in BOOLEAN : \E name \in Names(t) : BorrowRefused(t, name, main)
    \/ \E t \in Threads, atSp \in BOOLEAN : AtBoundary(t, atSp)
    \/ tool \in NativeTools /\ call = NoCall /\ Continue /\ UNCHANGED <<tool, natVars>>

-----------------------------------------------------------------------------
(* Correctness. *)

\* "restores every touched register before execution resumes", "restores them
\* and the complete register set after cancelling its notification token": a
\* thread runs on borrowed registers or stack bytes only while its own call is
\* under way, and when no call is under way the guest owes nothing: every
\* token is cancelled and every array released, unless notify_cancel failed
\* (its result is not looked at) or the slot of the array could not be read.
BorrowedReturned ==
    /\ \A t \in Threads : regs[t] = "borrowed" \/ slot[t] = "borrowed" => call.tp = t
    /\ call # NoCall => regs[call.tp] = "borrowed"
    /\ call = NoCall /\ ~faulted => tokens = 0 /\ arrays = 0

=============================================================================
