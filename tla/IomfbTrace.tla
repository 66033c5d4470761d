----------------------------- MODULE IomfbTrace -----------------------------
(***************************************************************************)
(* tools/re/iomfb_calltrace.py ("iomfb"): a trace of bounded duration that *)
(* runs LLDB itself.  It attaches asynchronously, so the state changes of  *)
(* the guest arrive on a listener queue, later than they happen, while     *)
(* LLDB resumes the guest after every breakpoint callback on its own.      *)
(***************************************************************************)
EXTENDS Lldb, SequencesExt

CONSTANTS
    SiteCap,     \* --site-cap, for every site
    MaxEvents    \* bound on the listener queue

ASSUME IomfbAssumption == SiteCap \in Nat \ {0} /\ MaxEvents \in Nat \ {0}

VARIABLES
    phase,     \* run_live: "start", "loop", "checked" (inside continue_guest), "done"
    result,    \* "none", "ok", "refused", "no_control" (A401 never hit), "error"
    guest,     \* the guest: "stopped", "running", "gone"
    view,      \* process.GetState()
    resuming,  \* LLDB owes the resume of a callback that returned False
    queue,     \* the listener's events
    amap,      \* the address map given
    emitted,   \* CallTracer.emitted
    d120Seen,  \* CallTracer.d120_seen
    owners     \* _BREAKPOINT_OWNERS holds this session's breakpoints

iomfbVars == <<phase, result, guest, view, resuming, queue, amap, emitted, d120Seen, owners>>

IomfbTools == {"iomfb"}
Sites == {"a401", "d120_entry", "post_check"}

\* Maps an operator may give with --map: complete, or wrong in one entry.
Maps == {[s \in Sites |-> "kernel"], [s \in {"a401"} |-> "kernel"],
         [s \in Sites \cup {"typo"} |-> "kernel"]}
        \cup {[s \in Sites |-> IF s = x THEN bad ELSE "kernel"] :
                 x \in Sites, bad \in {"low", "unaligned"}}

\* validate_address_map
ValidMap(m) == DOMAIN m = Sites /\ \A s \in Sites : m[s] = "kernel"

Post(e) == queue' = Append(queue, e)
Room == Len(queue) < MaxEvents

-----------------------------------------------------------------------------
(* The session. *)

\* offline_main and run_live to the first continue_guest.  QEMU's stub reports
\* "invalid" for a while; the stop of the attach is then still to be posted.
\* A guest that LLDB takes for crashed is handed to continue_guest too, which
\* skips everything that is not "stopped".
Attach ==
    /\ phase = "start"
    /\ IF ~ValidMap(amap)
       THEN /\ phase' = "done" /\ result' = "refused"
            /\ UNCHANGED <<guest, view, queue, owners>>
       ELSE /\ owners' = TRUE
            /\ guest' = "stopped" /\ view' \in {"stopped", "crashed", "invalid"}
            /\ queue' \in IF view' = "invalid" THEN {<<>>} ELSE {<<>>, <<view'>>}
            /\ phase' = IF view' = "stopped" THEN "checked" ELSE "loop"
            /\ UNCHANGED result
    /\ UNCHANGED <<resuming, amap, emitted, d120Seen>>

\* The finally clause: the stub resumes a detached guest.  A Detach that fails
\* is not noticed, and leaves the guest as it is.
Finish(r) ==
    /\ phase' = "done" /\ result' = r /\ owners' = FALSE
    /\ \/ view' = "detached" /\ guest' = IF guest = "gone" THEN guest ELSE "running"
       \/ view' = "undetached" /\ UNCHANGED guest
    /\ resuming' = FALSE /\ queue' = <<>>

Control == IF emitted["a401"] = 0 THEN "no_control" ELSE "ok"

\* continue_guest's test of GetState, at the event's turn.
ContinueOnMutant(e) == e = "connected" /\ view = "stopped"
ContinueOn(e) == e = "stopped" /\ view = "stopped"

TakeEvent ==
    /\ phase = "loop" /\ queue # <<>>
    /\ LET e == Head(queue)
       IN IF e = "exited" THEN Finish(Control)
          ELSE /\ queue' = Tail(queue)
               /\ phase' = IF ContinueOn(e) THEN "checked" ELSE "loop"
               /\ UNCHANGED <<result, guest, view, resuming, owners>>
    /\ UNCHANGED <<amap, emitted, d120Seen>>

\* continue_guest's request.  The guest may have been resumed since the test:
\* "already running" is no failure, any other error ends the trace.
RequestContinue(ok) ==
    /\ phase = "checked" /\ Room
    /\ \/ /\ ok /\ guest = "stopped"
          /\ guest' = "running" /\ view' = "running" /\ Post("running")
          /\ phase' = "loop" /\ UNCHANGED <<result, resuming, owners>>
       \/ /\ ok /\ guest = "running"
          /\ phase' = "loop" /\ UNCHANGED <<result, guest, view, resuming, queue, owners>>
       \/ ~ok /\ Finish("error")
    /\ UNCHANGED <<amap, emitted, d120Seen>>

\* --duration has passed, or (zero) the operator interrupts.
Deadline(interrupted) ==
    /\ phase = "loop" \/ (interrupted /\ phase = "checked")
    /\ Finish(IF interrupted THEN "error" ELSE Control)
    /\ UNCHANGED <<amap, emitted, d120Seen>>

-----------------------------------------------------------------------------
(* The guest and LLDB's own thread. *)

\* lldb_breakpoint_callback and handle_hit; a capture that fails still counts.
\* The callback returns False: LLDB will resume the guest.
Hit(s) ==
    /\ guest = "running" /\ owners /\ Room
    /\ guest' = "stopped" /\ view' = "stopped" /\ Post("stopped")
    /\ resuming' = TRUE
    /\ d120Seen' = (d120Seen \/ s = "d120_entry")
    /\ emitted' = IF emitted[s] < SiteCap THEN [emitted EXCEPT ![s] = @ + 1] ELSE emitted
    /\ UNCHANGED <<phase, result, amap, owners>>

AutoResume ==
    /\ resuming /\ Room
    /\ resuming' = FALSE
    /\ IF guest = "stopped"
       THEN guest' = "running" /\ view' = "running" /\ Post("running")
       ELSE UNCHANGED <<guest, view, queue>>
    /\ UNCHANGED <<phase, result, amap, emitted, d120Seen, owners>>

\* The stub leaves the "invalid" of the attach.
Settle ==
    /\ view = "invalid" /\ Room
    /\ view' = "stopped" /\ Post("stopped")
    /\ UNCHANGED <<phase, result, guest, resuming, amap, emitted, d120Seen, owners>>

\* A stop that is not ours (a monitor command, another breakpoint, one whose
\* signal LLDB takes for a crash), or the end of QEMU.
OtherChange ==
    /\ owners /\ Room
    /\ \/ guest = "running" /\ guest' = "stopped" /\ view' \in {"stopped", "crashed"} /\ Post(view')
       \/ guest \in {"running", "stopped"} /\ guest' = "gone" /\ view' = "exited" /\ Post("exited")
    /\ UNCHANGED <<phase, result, resuming, amap, emitted, d120Seen, owners>>

IomfbInit ==
    /\ phase = "start" /\ result = "none" /\ guest = "stopped" /\ view = "none"
    /\ resuming = FALSE /\ queue = <<>> /\ d120Seen = FALSE /\ owners = FALSE
    /\ amap \in IF tool = "iomfb" THEN Maps ELSE {[s \in Sites |-> "kernel"]}
    /\ emitted = [s \in Sites |-> 0]

IomfbNext ==
    /\ tool = "iomfb" /\ UNCHANGED <<tool, paused>>
    /\ \/ Attach \/ Settle \/ TakeEvent \/ AutoResume \/ OtherChange
       \/ \E ok \in BOOLEAN : RequestContinue(ok)
       \/ \E interrupted \in BOOLEAN : Deadline(interrupted)
       \/ \E s \in Sites : Hit(s)

-----------------------------------------------------------------------------
(* Correctness. *)

\* "immediately continues the guest", "without leaving the VM paused": whenever
\* the guest is stopped during the trace, something that will resume it is
\* already under way: LLDB's own resume, continue_guest, or a stop event still
\* in the queue while GetState says stopped.  Excepted is a guest that LLDB
\* takes for crashed: continue_guest skips it, and it waits for the end of the
\* trace.  After the trace the guest is stopped only where Detach failed, which
\* the finally clause swallows.
NeverLeftStopped ==
    /\ phase \in {"loop", "checked"} /\ guest = "stopped" =>
          \/ resuming
          \/ phase = "checked"
          \/ view \in {"invalid", "crashed"}
          \/ view = "stopped" /\ \E i \in DOMAIN queue : queue[i] = "stopped"
    /\ phase = "done" /\ view = "detached" => guest # "stopped"

=============================================================================
