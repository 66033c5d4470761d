----------------------------- MODULE WarmProbe -----------------------------
(***************************************************************************)
(* The probes that boot a disk and judge the guest by its growing logs:    *)
(*   "boot"     tools/warm_boot_probe.py                                   *)
(*   "smp"      tools/re/smp_warm_probe.py                                 *)
(*   "observe"  tools/re/observe_warm_boot.py, which resumes a guest that  *)
(*              warm_boot_probe.py has left behind                         *)
(* One log stands for the serial log and QEMU's stderr.  A line reaches it *)
(* in three parts, the two halves of its marker and its end: bytes 3i-2,   *)
(* 3i-1 and 3i stand for line i.                                           *)
(***************************************************************************)
EXTENDS HostProgram, Integers, Sequences

CONSTANT MaxLines     \* bound on the lines of the log

VARIABLES
    probe,     \* the probe of this moment
    keep,      \* --keep-paused
    wpc,       \* its place; "done": it came to its end, "cut": out of its finally block
    vm,        \* "none", "running", "paused", "ended"
    lines,     \* the log: "plain", "milestone", "failure", or a failure in a "txm" error line
    written,   \* bytes in the log
    offset,    \* where in the log the probe started
    got,       \* where it has read up to
    tail,      \* pending: how many bytes of an unfinished line it holds
    noted,     \* markers in report["events"]
    reason,    \* report["stop_reason"]
    kept,      \* report["kept_paused"]
    mishaps    \* what went wrong: "monitor", "write", "interrupt" (a signal in the
               \* try block), "signal" (one elsewhere) (history)

logVars == <<lines, written>>
readVars == <<offset, got, tail>>
reportVars == <<noted, reason, kept>>
warmVars == <<probe, keep, wpc, vm, logVars, readVars, reportVars, mishaps>>

Watching == {"monitor", "poll", "judge"}
Finally == {"freeze", "reap", "report"}
LineKinds == {"plain", "milestone", "failure", "txm"}
Marker(k) == IF k = "txm" THEN "failure" ELSE k

WarmInit ==
    /\ probe \in {"boot"} \cup (IF program = "warm" THEN {"smp"} ELSE {})
    /\ keep \in {FALSE} \cup (IF program = "warm" THEN {probe = "boot"} ELSE {})
    /\ wpc = "launch" /\ vm = "none" /\ lines = <<>> /\ written = 0
    /\ offset = 0 /\ got = 0 /\ tail = 0
    /\ noted = {} /\ reason = "deadline" /\ kept = FALSE /\ mishaps = {}

Goto(p) == program = "warm" /\ wpc' = p /\ UNCHANGED <<program, probe, keep>>

\* Where an exception of the try block leads: smp_warm_probe writes its result
\* before it stops and reaps QEMU, the other two write it last.
FinallyOf(p) == IF p = "smp" THEN "report" ELSE "freeze"
\* The try block of smp_warm_probe begins only after the PID file is written.
InTry == ~(probe = "smp" /\ wpc = "monitor")
AfterFreeze == IF probe = "observe" THEN "report" ELSE "reap"
AfterReap == IF probe = "smp" THEN "done" ELSE "report"
AfterReport == IF probe = "smp" THEN "freeze" ELSE "done"

\* Checks, mkdir, qemu-img, Popen.
LaunchVm ==
    /\ wpc = "launch"
    /\ \/ Goto("monitor") /\ vm' = "running"
       \/ Goto("done") /\ UNCHANGED vm
    /\ UNCHANGED <<logVars, readVars, reportVars, mishaps>>

\* observe_warm_boot, for a launch of the recorded format: the status (paused,
\* or running for --already-running), and a seek to the end of the logs.
Observe ==
    /\ program = "warm" /\ wpc \in {"done", "cut"}
    /\ probe # "smp" /\ vm \in {"paused", "running"}
    /\ probe' = "observe" /\ wpc' = "monitor" /\ offset' = written /\ got' = written
    /\ tail' = 0 /\ noted' = {} /\ reason' = "deadline" /\ kept' = FALSE /\ mishaps' = {}
    /\ UNCHANGED <<program, keep, vm, logVars>>

\* warm_boot_probe waits for the monitor, observe_warm_boot continues the guest,
\* smp_warm_probe writes the PID file.
MonitorUp ==
    /\ wpc = "monitor" /\ Goto("poll")
    /\ vm' = IF probe = "observe" /\ vm = "paused" THEN "running" ELSE vm
    /\ UNCHANGED <<logVars, readVars, reportVars, mishaps>>

\* One read of the logs.  pending + read(), split at the newlines: what follows
\* the last one is kept.  smp_warm_probe reads the whole log every time.
TextStart == got - tail
UnfinishedMutant == 0
Unfinished ==
    LET lastEnd == 3 * (written \div 3) IN
    written - (IF TextStart > lastEnd THEN TextStart ELSE lastEnd)

\* The lines whose marker is in the text: whole lines, for warm_boot_probe without
\* the errors of TXM; smp_warm_probe looks into an unfinished line too.
Matched ==
    {j \in 1..Len(lines) :
        /\ lines[j] # "plain"
        /\ \/ probe = "smp" /\ 3 * j - 1 <= written
           \/ probe # "smp" /\ TextStart <= 3 * (j - 1) /\ 3 * j <= written
        /\ probe = "boot" => lines[j] # "txm"}

Poll ==
    /\ wpc = "poll" /\ Goto("judge")
    /\ got' = written /\ tail' = IF probe = "smp" THEN 0 ELSE Unfinished
    /\ noted' = noted \cup {Marker(lines[j]) : j \in Matched}
    /\ UNCHANGED <<vm, logVars, offset, reason, kept, mishaps>>

\* What the loop makes of the markers: a failure before a milestone, but for
\* observe_warm_boot, which calls either a "matched milestone".
Verdict ==
    IF probe = "observe" THEN (IF noted = {} THEN "none" ELSE "milestone")
    ELSE IF "failure" \in noted THEN "failure"
    ELSE IF "milestone" \in noted /\ probe = "boot" THEN "milestone"
    ELSE IF vm = "ended" THEN "exited" ELSE "none"

\* A verdict ends the loop; without one it goes on, or the deadline has come.
Judge ==
    /\ wpc = "judge"
    /\ \/ Verdict # "none" /\ Goto(FinallyOf(probe)) /\ reason' = Verdict
       \/ Verdict = "none" /\ Goto("poll") /\ UNCHANGED reason
       \/ Verdict = "none" /\ Goto(FinallyOf(probe)) /\ UNCHANGED reason
    /\ UNCHANGED <<vm, logVars, readVars, noted, kept, mishaps>>

\* A monitor that does not come up or does not answer (a screendump, cont), or
\* a signal: only warm_boot_probe writes down that this was the reason.
ReasonOf(p) == IF p = "boot" THEN "error" ELSE reason

MonitorFails ==
    /\ (wpc \in Watching /\ probe = "boot") \/ (wpc = "monitor" /\ probe = "observe")
    /\ Goto(FinallyOf(probe))
    /\ reason' = ReasonOf(probe) /\ mishaps' = mishaps \cup {"monitor"}
    /\ UNCHANGED <<vm, logVars, readVars, noted, kept>>

\* A signal that becomes an exception of the try block.
Interrupted ==
    /\ wpc \in Watching /\ InTry
    /\ Goto(FinallyOf(probe))
    /\ reason' = ReasonOf(probe) /\ mishaps' = mishaps \cup {"interrupt"}
    /\ UNCHANGED <<vm, logVars, readVars, noted, kept>>

\* One that does not: observe_warm_boot has no handler for SIGTERM, which ends it
\* on the spot.
Terminated ==
    /\ wpc \in Watching /\ (probe = "observe" \/ ~InTry)
    /\ Goto("cut") /\ mishaps' = mishaps \cup {"signal"}
    /\ UNCHANGED <<vm, logVars, readVars, reportVars>>

\* stop and the captures.  A monitor that fails ends observe_warm_boot; the
\* others go on to reap their QEMU.
Freeze ==
    /\ wpc = "freeze"
    /\ \/ vm # "ended" /\ vm' = "paused" /\ Goto(AfterFreeze) /\ UNCHANGED mishaps
       \/ vm # "ended" /\ vm' \in {vm, "paused"} /\ mishaps' = mishaps \cup {"monitor"}
          /\ Goto(IF probe = "observe" THEN "cut" ELSE "reap")
       \/ vm = "ended" /\ Goto(IF probe = "observe" THEN "cut" ELSE "reap")
          /\ UNCHANGED <<vm, mishaps>>
    /\ UNCHANGED <<logVars, readVars, reportVars>>

\* terminate, wait, kill.
ReapedMutant == IF keep THEN vm ELSE IF vm = "running" THEN "ended" ELSE vm
Reaped == IF keep THEN vm ELSE "ended"

Reap ==
    /\ wpc = "reap" /\ Goto(AfterReap)
    /\ vm' = Reaped
    /\ UNCHANGED <<logVars, readVars, reportVars, mishaps>>

\* result.json, which may not be writable.
WarmReport ==
    /\ wpc = "report"
    /\ \/ Goto(AfterReport) /\ kept' = (probe = "boot" /\ vm # "ended") /\ UNCHANGED mishaps
       \/ Goto("cut") /\ mishaps' = mishaps \cup {"write"} /\ UNCHANGED kept
    /\ UNCHANGED <<vm, logVars, readVars, noted, reason>>

\* A signal in the finally block.  One during the captures still ends in the
\* inner finally.
InterruptedLate ==
    /\ wpc \in Finally
    /\ Goto(IF wpc = "freeze" /\ probe # "observe" THEN "reap" ELSE "cut")
    /\ mishaps' = mishaps \cup {"signal"}
    /\ UNCHANGED <<vm, logVars, readVars, reportVars>>

\* The guest writes a part of a line.
GuestWrites ==
    /\ program = "warm" /\ vm = "running" /\ written < 3 * MaxLines
    /\ written' = written + 1
    /\ IF written % 3 = 0
       THEN \E k \in LineKinds : lines' = Append(lines, k)
       ELSE UNCHANGED lines
    /\ UNCHANGED <<program, probe, keep, wpc, vm, readVars, reportVars, mishaps>>

VmExits ==
    /\ program = "warm" /\ vm \in {"running", "paused"} /\ vm' = "ended"
    /\ UNCHANGED <<program, probe, keep, wpc, logVars, readVars, reportVars, mishaps>>

WarmNext ==
    \/ LaunchVm \/ Observe \/ MonitorUp \/ Poll \/ Judge \/ MonitorFails \/ Interrupted
    \/ Terminated \/ Freeze \/ Reap \/ WarmReport \/ InterruptedLate \/ GuestWrites \/ VmExits

-----------------------------------------------------------------------------
(* Correctness. *)

\* "Leaves the owned VM paused ... only when --keep-paused is requested"
\* (warm_boot_probe.py:5), "Always freeze the owned VM on exit"
\* (observe_warm_boot.py:4): whichever way a probe ends, QEMU is left running only
\* after a signal that no try block sees or that cuts a finally block short
\* (SIGTERM to observe_warm_boot is one), by smp_warm_probe also when it cannot
\* write its result, and, where the probe does not kill QEMU, when the monitor
\* failed; and it is left paused only where that was asked for, or by such a signal.
WarmSettled ==
    wpc \in {"done", "cut"} =>
        /\ vm = "running" => \/ "signal" \in mishaps
                             \/ probe = "smp" /\ "write" \in mishaps
                             \/ (keep \/ probe = "observe") /\ "monitor" \in mishaps
        /\ vm = "paused" => keep \/ probe = "observe" \/ "signal" \in mishaps
        /\ kept => keep

\* "Only new log bytes count", "stops on SKS rejection or kernel panic": the
\* markers in a probe's report are those of the lines that began after it did and
\* that it has read to their end (smp_warm_probe: to the end of the marker), in
\* however many reads they came, but for the TXM errors that warm_boot_probe skips.
\* A deadline is reported over no failure that was read, and a milestone neither,
\* except by observe_warm_boot, whose "matched milestone" may be a panic.
Readable(i) ==
    /\ offset <= 3 * (i - 1) /\ (IF probe = "smp" THEN 3 * i - 1 ELSE 3 * i) <= got
    /\ probe = "boot" => lines[i] # "txm"
VerdictTrue ==
    /\ noted = {Marker(lines[i]) : i \in {j \in 1..Len(lines) : lines[j] # "plain" /\ Readable(j)}}
    /\ (wpc \in Finally \cup {"done"} /\ "interrupt" \notin mishaps) =>
          /\ reason = "deadline" => "failure" \notin noted
          /\ reason = "milestone" /\ probe # "observe" => "failure" \notin noted

=============================================================================
