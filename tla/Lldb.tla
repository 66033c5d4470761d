-------------------------------- MODULE Lldb --------------------------------
(***************************************************************************)
(* What every LLDB script of tools/re has in common.  A session attached   *)
(* to QEMU's gdbstub runs one script; the script's callbacks run while the *)
(* vCPU is stopped at a breakpoint, so they are atomic for the guest, and  *)
(* the value a callback returns says whether the guest stays stopped.      *)
(***************************************************************************)
EXTENDS Integers, Sequences, FiniteSets

CONSTANTS
    Threads,   \* guest threads (tpidr_el1 values)
    Prog       \* [Threads -> Programs]: the program a thread belongs to

\* "daemon" is the small process a script is written for (powerd, lsd,
\* runningboardd, datamigrator, migrationpluginwrapper, fairplayd ...).
Programs == {"SpringBoard", "backboardd", "Setup", "daemon", "other"}
Unreadable == "<read-error>"
NoThread == "none"

ASSUME LldbAssumption ==
    /\ Prog \in [Threads -> Programs]
    /\ NoThread \notin Threads

VARIABLES
    tool,      \* the script this session runs
    paused     \* the guest is left stopped by a callback

\* progname(): ___progname_pointer is read through the user mapping of the
\* running thread, and any of the three reads may fail.
Names(t) == {Prog[t], Unreadable}

\* The operator resumes a guest that a callback left stopped.
Continue == paused /\ paused' = FALSE

=============================================================================
