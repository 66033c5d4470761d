--------------------------- MODULE InstallHelpers ---------------------------
(***************************************************************************)
(* tools/re/install_staged_helpers.py: a fresh qcow2 child of an immutable *)
(* parent is booted from a prepared restore ramdisk, the installer script  *)
(* in the ramdisk is started over the serial console, and the child is     *)
(* sealed when the guest itself has announced success.  The script writes  *)
(* into the guest's page cache; only sync is sure to bring it to the disk. *)
(***************************************************************************)
EXTENDS HostProgram

CONSTANT Files     \* what the installer script writes

VARIABLES
    ipc,       \* main's place
    onFailure, \* --on-failure
    owned,     \* the variable proc holds the QEMU process
    qemu,      \* "none", "running", "paused", "ended" (code 0), "died" (another code)
    child,     \* "none", "writable", "sealed"
    cached,    \* files the guest has written
    stored,    \* files on the child disk
    script,    \* the guest: "boot", "shell", "run", "synced", "marked", "broken"
    success,   \* result["success"]
    outcome    \* result["outcome"] in result.json

instVars == <<ipc, onFailure, owned, qemu, child, cached, stored, script, success, outcome>>

Waiting == {"monitor", "shell", "send", "marker"}
Active == {"pin", "create", "launch", "quit", "seal", "report"} \cup Waiting

InstallInit ==
    /\ ipc = "pin" /\ onFailure \in {"quit"} \cup (IF program = "install" THEN {"pause"} ELSE {})
    /\ owned = FALSE /\ qemu = "none" /\ child = "none" /\ cached = {} /\ stored = {} /\ script = "boot"
    /\ success = FALSE /\ outcome = "none"

-----------------------------------------------------------------------------
(* The host. *)

\* pin_inputs: a missing input raises.
Pin ==
    /\ program = "install" /\ ipc = "pin" /\ ipc' \in {"create", "failing"}
    /\ UNCHANGED <<program, onFailure, owned, qemu, child, cached, stored, script, success, outcome>>

\* qemu-img create.
CreateChild ==
    /\ program = "install" /\ ipc = "create"
    /\ \/ ipc' = "launch" /\ child' = "writable"
       \/ ipc' = "failing" /\ UNCHANGED child
    /\ UNCHANGED <<program, onFailure, owned, qemu, cached, stored, script, success, outcome>>

\* boot_command and its checks, launch.json, Popen.
Launch ==
    /\ program = "install" /\ ipc = "launch"
    /\ \/ ipc' = "monitor" /\ qemu' = "running" /\ owned' = TRUE
       \/ ipc' = "failing" /\ UNCHANGED <<qemu, owned>>
    /\ UNCHANGED <<program, onFailure, child, cached, stored, script, success, outcome>>

\* wait_for_file, wait_for_serial and the serial client.  A client that ends
\* well says only that the command was echoed, not that the script has run.
AwaitMonitor == ipc = "monitor" /\ ipc' = "shell" /\ UNCHANGED script
AwaitShell == ipc = "shell" /\ script = "shell" /\ ipc' = "send" /\ UNCHANGED script
SendCommand == ipc = "send" /\ script = "shell" /\ ipc' = "marker" /\ script' \in {"shell", "run"}

\* wait_for_serial looks for the guest's own marker.
MarkerSeenMutant == TRUE
MarkerSeen == script = "marked"
AwaitMarker == ipc = "marker" /\ MarkerSeen /\ ipc' = "quit" /\ UNCHANGED script

Await ==
    /\ program = "install" /\ qemu = "running"
    /\ AwaitMonitor \/ AwaitShell \/ SendCommand \/ AwaitMarker
    /\ UNCHANGED <<program, onFailure, owned, qemu, child, cached, stored, success, outcome>>

\* quit_cleanly: the monitor fails, QEMU ignores the command, or ends with one
\* code or another; proc is cleared only after code 0.
QuitCleanly ==
    /\ program = "install" /\ ipc = "quit"
    /\ \/ qemu = "running" /\ qemu' = "ended" /\ ipc' = "seal" /\ owned' = FALSE
       \/ qemu = "running" /\ qemu' \in {"running", "died"} /\ ipc' = "failing" /\ UNCHANGED owned
       \/ qemu = "died" /\ ipc' = "failing" /\ UNCHANGED <<qemu, owned>>
    /\ UNCHANGED <<program, onFailure, child, cached, stored, script, success, outcome>>

\* child.chmod, then the result.
Seal ==
    /\ program = "install" /\ ipc = "seal"
    /\ child' = "sealed" /\ success' = TRUE /\ ipc' = "report"
    /\ UNCHANGED <<program, onFailure, owned, qemu, cached, stored, script, outcome>>

Report ==
    /\ program = "install" /\ ipc = "report"
    /\ outcome' = "installed" /\ ipc' = "done"
    /\ UNCHANGED <<program, onFailure, owned, qemu, child, cached, stored, script, success>>

\* The deadline, an interrupt, a full disk, or the end of QEMU noticed while
\* waiting: any exception of the try block.
Fail ==
    /\ program = "install" /\ ipc \in Active
    /\ ipc' = "failing"
    /\ UNCHANGED <<program, onFailure, owned, qemu, child, cached, stored, script, success, outcome>>

\* retain_failure: stop or quit over the monitor; when that fails or QEMU stays,
\* terminate and kill.
Retained ==
    IF ~owned \/ qemu # "running" THEN {qemu}
    ELSE IF onFailure = "pause" THEN {"paused", "died"} ELSE {"ended", "died"}

RetainFailure ==
    /\ program = "install" /\ ipc = "failing"
    /\ qemu' \in Retained
    /\ outcome' = "failed-child-retained" /\ ipc' = "done"
    /\ UNCHANGED <<program, onFailure, owned, child, cached, stored, script, success>>

\* An exception in it that nothing catches, at any of its steps: hmp.log cannot be
\* written, a second interrupt, a QEMU that outlives the kill by five seconds.  Or
\* the result cannot be written after it.
RetainRaises ==
    /\ program = "install" /\ ipc = "failing" /\ ipc' = "raised"
    /\ qemu' \in {qemu} \cup Retained
    /\ UNCHANGED <<program, onFailure, owned, child, cached, stored, script, success, outcome>>

-----------------------------------------------------------------------------
(* The guest, while QEMU runs. *)

GuestRuns == program = "install" /\ qemu = "running"

GuestBoots ==
    /\ GuestRuns /\ script = "boot" /\ script' = "shell"
    /\ UNCHANGED <<program, ipc, onFailure, owned, qemu, child, cached, stored, success, outcome>>

\* cp, chmod, chown, test: one file of the script.
Copies(f) ==
    /\ GuestRuns /\ script = "run" /\ f \notin cached
    /\ cached' = cached \cup {f}
    /\ UNCHANGED <<program, ipc, onFailure, owned, qemu, child, stored, script, success, outcome>>

\* The guest writes a page back.
WritesBack(f) ==
    /\ GuestRuns /\ f \in cached \ stored
    /\ stored' = stored \cup {f}
    /\ UNCHANGED <<program, ipc, onFailure, owned, qemu, child, cached, script, success, outcome>>

\* set -e: a failed test or copy ends the script.
Breaks ==
    /\ GuestRuns /\ script = "run" /\ script' = "broken"
    /\ UNCHANGED <<program, ipc, onFailure, owned, qemu, child, cached, stored, success, outcome>>

Syncs ==
    /\ GuestRuns /\ script = "run" /\ cached = Files
    /\ stored' = cached /\ script' = "synced"
    /\ UNCHANGED <<program, ipc, onFailure, owned, qemu, child, cached, success, outcome>>

\* echo DVM_GRAPHICS_PROBE_INSTALLED
Announces ==
    /\ GuestRuns /\ script = "synced" /\ script' = "marked"
    /\ UNCHANGED <<program, ipc, onFailure, owned, qemu, child, cached, stored, success, outcome>>

QemuDies ==
    /\ GuestRuns /\ qemu' = "died"
    /\ UNCHANGED <<program, ipc, onFailure, owned, child, cached, stored, script, success, outcome>>

InstallNext ==
    \/ Pin \/ CreateChild \/ Launch \/ Await \/ QuitCleanly \/ Seal \/ Report \/ Fail
    \/ RetainFailure \/ RetainRaises
    \/ GuestBoots \/ Breaks \/ Syncs \/ Announces \/ QemuDies
    \/ \E f \in Files : Copies(f) \/ WritesBack(f)

-----------------------------------------------------------------------------
(* Correctness. *)

\* "Success requires the guest's own marker in QEMU's serial log; a successful
\* serial-client process is not sufficient": a result that says success stands
\* for a sealed child with every file on it and a QEMU that has ended, and a
\* child is sealed in no other case, however the run ends.  A run whose
\* retain_failure came to its end leaves no QEMU running, and a paused one only
\* under --on-failure pause; one that raised in there may leave it running.
InstallSettled ==
    /\ success \/ child = "sealed" =>
          child = "sealed" /\ stored = Files /\ qemu = "ended"
    /\ ipc = "done" => qemu # "running"
    /\ onFailure = "quit" => qemu # "paused"

=============================================================================
