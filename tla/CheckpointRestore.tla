-------------------------- MODULE CheckpointRestore --------------------------
(***************************************************************************)
(* tools/restore_checkpoint.py: invocations that restore checkpoints, each *)
(* into a QEMU of its own.  An invocation knows its child by PID, but it   *)
(* commands it through a monitor socket whose path is made of --tag alone, *)
(* while its output directory is the one --out names, or else made of the  *)
(* manifest and --tag.                                                     *)
(*                                                                         *)
(* A child is named by the invocation that spawned it.  The monitor, UART  *)
(* and QMP sockets of a tag are one path.  Hashes, the captured argv and   *)
(* the text of the report are abstracted.                                  *)
(***************************************************************************)
EXTENDS Naturals

CONSTANTS Tools,      \* invocations of restore_checkpoint.py
          Manifests,  \* checkpoints
          Tags,       \* --tag
          Outs,       \* directories named with --out
          None

ASSUME NoneAssumption == None \notin Tools \cup Tags \cup Manifests

VARIABLES
    at,        \* where each invocation is
    job,       \* its manifest, --tag, output directory and --leave-paused
    reported,  \* invocations whose restore-report.json is written
    dirs,      \* output directories that exist
    path,      \* external: who bound the tag's socket path; None: no such path
    qemu,      \* external: the child of each invocation
    exact,     \* external: the child's guest has the PC of the manifest
    active,    \* external: the child's block nodes are active
    ran,       \* external: the child's guest has executed since the restore
    ruledBy    \* history: who stopped, continued or ended each child

vars == <<at, job, reported, dirs, path, qemu, exact, active, ran, ruledBy>>
childVars == <<qemu, exact, active, ran, ruledBy>>

\* --out, or restores/<tag> beside the manifest.
Dirs == (Manifests \X Tags) \cup Outs
Jobs == {j \in [manifest : Manifests, tag : Tags, out : Dirs, paused : BOOLEAN] :
            j.out \in Outs \cup {<<j.manifest, j.tag>>}}
NoJob == [manifest |-> None, tag |-> None, out |-> None, paused |-> FALSE]
Out(t) == job[t].out

Prepare == {"start", "sockets", "mkdir", "disk", "popen", "pidfile"}
\* The steps in the try block of main().
Restore == {"wait", "load", "pc", "activate", "recheck", "resume", "observe",
            "stop", "report", "finish", "quit", "quitting", "terminated"}
Reaping == {"except", "reap"}
Ends == {"done", "panicked", "error", "abandoned"}

TypeOK ==
    /\ at \in [Tools -> Prepare \cup Restore \cup Reaping \cup Ends]
    /\ job \in [Tools -> Jobs \cup {NoJob}]
    /\ reported \subseteq Tools
    /\ dirs \subseteq Dirs
    /\ path \in [Tags -> Tools \cup {None}]
    /\ qemu \in [Tools -> {"none", "starting", "loading", "paused", "running",
                           "quitting", "exited"}]
    /\ exact \in [Tools -> BOOLEAN]
    /\ active \in [Tools -> BOOLEAN]
    /\ ran \in [Tools -> BOOLEAN]
    /\ ruledBy \in [Tools -> SUBSET Tools]

Init ==
    /\ at = [t \in Tools |-> "start"]
    /\ job = [t \in Tools |-> NoJob]
    /\ reported = {} /\ dirs = {}
    /\ path = [g \in Tags |-> None]
    /\ qemu = [t \in Tools |-> "none"]
    /\ exact \in [Tools -> BOOLEAN]
    /\ active = [t \in Tools |-> FALSE]
    /\ ran = [t \in Tools |-> FALSE]
    /\ ruledBy = [t \in Tools |-> {}]

Goto(t, step) == at' = [at EXCEPT ![t] = step]
Quiet == UNCHANGED <<job, reported, dirs, path, childVars>>

\* The QEMU that answers on the monitor path of t.
Live(u) == qemu[u] \in {"loading", "paused", "running"}
Answers(t, u) == path[job[t].tag] = u /\ u # None /\ Live(u)

\* A monitor command of t that takes the QEMU u to a state.
Rule(t, u, s) ==
    /\ qemu' = [qemu EXCEPT ![u] = s]
    /\ ruledBy' = [ruledBy EXCEPT ![u] = @ \cup {t}]
-----------------------------------------------------------------------------
(* Before the child exists: main() up to Popen.                            *)

\* The manifest, the state, the disk and its backing chain are as recorded.
Verify(t, j) ==
    /\ at[t] = "start"
    /\ job' = [job EXCEPT ![t] = j]
    /\ Goto(t, "sockets")
    /\ UNCHANGED <<reported, dirs, path, childVars>>

\* "refusing to reuse existing socket path"; then QEMU and its inputs are hashed.
CheckSockets(t) ==
    /\ at[t] = "sockets"
    /\ path[job[t].tag] = None
    /\ Goto(t, "mkdir") /\ Quiet

\* Mutant of MakeDir: exist_ok=True.
MakeDirExistOk(t) ==
    /\ at[t] = "mkdir"
    /\ dirs' = dirs \cup {Out(t)}
    /\ Goto(t, "disk")
    /\ UNCHANGED <<job, reported, path, childVars>>

\* out.mkdir(exist_ok=False).
MakeDir(t) ==
    /\ at[t] = "mkdir"
    /\ Out(t) \notin dirs
    /\ dirs' = dirs \cup {Out(t)}
    /\ Goto(t, "disk")
    /\ UNCHANGED <<job, reported, path, childVars>>

\* The qcow2 child, argv, environment and launch.json.
CreateDisk(t) == at[t] = "disk" /\ Goto(t, "popen") /\ Quiet

Popen(t) ==
    /\ at[t] = "popen"
    /\ qemu' = [qemu EXCEPT ![t] = "starting"]
    /\ Goto(t, "pidfile")
    /\ UNCHANGED <<job, reported, dirs, path, exact, active, ran, ruledBy>>

WritePid(t) == at[t] = "pidfile" /\ Goto(t, "wait") /\ Quiet

\* Whatever fails before Popen leaves no child.
PrepareFails(t) ==
    /\ at[t] \in Prepare \ {"pidfile"}
    /\ Goto(t, "error") /\ Quiet

\* Outside try, or not an Exception (an interrupt): nobody reaps the child.
Abandon(t) ==
    /\ at[t] \in {"pidfile"} \cup Restore \cup Reaping
    /\ Goto(t, "abandoned") /\ Quiet
-----------------------------------------------------------------------------
(* The try block.                                                          *)

WaitForPath(t) ==
    /\ at[t] = "wait"
    /\ path[job[t].tag] # None
    /\ Goto(t, "load") /\ Quiet

\* The child runs, the monitor says paused and completed.
PollMigration(t) ==
    /\ at[t] = "load"
    /\ qemu[t] # "exited"
    /\ \E u \in Tools : Answers(t, u) /\ qemu[u] = "paused"
    /\ Goto(t, "pc") /\ Quiet

\* Mutant of CheckPc: the registers are recorded and not compared.
CheckPcUnread(t) ==
    /\ at[t] = "pc"
    /\ \E u \in Tools : Answers(t, u)
    /\ Goto(t, IF job[t].paused THEN "activate" ELSE "resume") /\ Quiet

\* The witness CPU and its PC.
CheckPc(t) ==
    /\ at[t] = "pc"
    /\ \E u \in Tools : Answers(t, u) /\ exact[u] /\ ~ran[u] /\ qemu[u] # "loading"
    /\ Goto(t, IF job[t].paused THEN "activate" ELSE "resume") /\ Quiet

\* Mutant of Activate: a paused child needs no block activation.
ActivateSkipped(t) == at[t] = "activate" /\ Goto(t, "recheck") /\ Quiet

\* activate_paused_disks.
Activate(t) ==
    /\ at[t] = "activate"
    /\ \E u \in Tools :
         /\ Answers(t, u)
         /\ active' = [active EXCEPT ![u] = TRUE]
    /\ Goto(t, "recheck")
    /\ UNCHANGED <<job, reported, dirs, path, qemu, exact, ran, ruledBy>>

\* "guest advanced during paused block activation".
Recheck(t) ==
    /\ at[t] = "recheck"
    /\ \E u \in Tools : Answers(t, u) /\ qemu[u] # "running" /\ exact[u] /\ ~ran[u]
    /\ Goto(t, "observe") /\ Quiet

\* cont: the block nodes are activated and the guest runs.
Continue(t, u) ==
    /\ Rule(t, u, IF qemu[u] = "paused" THEN "running" ELSE qemu[u])
    /\ active' = [active EXCEPT ![u] = @ \/ qemu[u] = "paused"]
    /\ ran' = [ran EXCEPT ![u] = @ \/ qemu[u] = "paused"]

Resume(t) ==
    /\ at[t] = "resume"
    /\ \E u \in Tools : Answers(t, u) /\ Continue(t, u)
    /\ Goto(t, "observe")
    /\ UNCHANGED <<job, reported, dirs, path, exact>>

\* The loop until --observe-seconds or a panic in the serial log.
Observe(t) == at[t] = "observe" /\ Goto(t, "stop") /\ Quiet

Stop(t) ==
    /\ at[t] = "stop"
    /\ \E u \in Tools :
         /\ Answers(t, u)
         /\ Rule(t, u, IF qemu[u] = "running" THEN "paused" ELSE qemu[u])
    /\ Goto(t, "report")
    /\ UNCHANGED <<job, reported, dirs, path, exact, active, ran>>

\* The registers, the logs, restore-report.json; a panic may have been found.
Report(t) ==
    /\ at[t] = "report"
    /\ \E u \in Tools : Answers(t, u)
    /\ reported' = reported \cup {t}
    /\ \E s \in {"finish", "quit"} : Goto(t, s)
    /\ UNCHANGED <<job, dirs, path, childVars>>

\* Mutant of Finish: the last cont does not look at --leave-paused.
FinishRuns(t) ==
    /\ at[t] = "finish"
    /\ \E u \in Tools : Answers(t, u) /\ Continue(t, u)
    /\ Goto(t, "done")
    /\ UNCHANGED <<job, reported, dirs, path, exact>>

\* The guest is left running, or paused if --leave-paused.
Finish(t) ==
    /\ at[t] = "finish"
    /\ \/ job[t].paused /\ UNCHANGED childVars
       \/ /\ ~job[t].paused
          /\ \E u \in Tools : Answers(t, u) /\ Continue(t, u)
          /\ UNCHANGED exact
    /\ Goto(t, "done")
    /\ UNCHANGED <<job, reported, dirs, path>>

\* A panicked child is told to quit, waited for and terminated.
PanicQuit(t) ==
    /\ at[t] = "quit"
    /\ \E u \in Tools : Answers(t, u) /\ Rule(t, u, "quitting")
    /\ Goto(t, "quitting")
    /\ UNCHANGED <<job, reported, dirs, path, exact, active, ran>>

PanicTerminate(t) ==
    /\ at[t] = "quitting"
    /\ qemu[t] # "exited"
    /\ Rule(t, t, "quitting")
    /\ Goto(t, "terminated")
    /\ UNCHANGED <<job, reported, dirs, path, exact, active, ran>>

PanicReaped(t) ==
    /\ at[t] \in {"quitting", "terminated"}
    /\ qemu[t] = "exited"
    /\ Goto(t, "panicked") /\ Quiet

\* A deadline, an unreachable monitor, a failed check or write.
Raise(t) == at[t] \in Restore \ {"quitting"} /\ Goto(t, "except") /\ Quiet
-----------------------------------------------------------------------------
(* except Exception: reap the child.                                       *)

ExceptExited(t) ==
    /\ at[t] = "except"
    /\ qemu[t] = "exited"
    /\ Goto(t, "error") /\ Quiet

\* quit, to whichever QEMU answers on the path.
ExceptQuit(t) ==
    /\ at[t] = "except"
    /\ qemu[t] # "exited"
    /\ \E u \in Tools : Answers(t, u) /\ Rule(t, u, "quitting")
    /\ Goto(t, "reap")
    /\ UNCHANGED <<job, reported, dirs, path, exact, active, ran>>

\* No answer, or none in 5 seconds.
ExceptTerminate(t) ==
    /\ at[t] = "except"
    /\ qemu[t] # "exited"
    /\ Rule(t, t, "quitting")
    /\ Goto(t, "reap")
    /\ UNCHANGED <<job, reported, dirs, path, exact, active, ran>>

Reaped(t) ==
    /\ at[t] = "reap"
    /\ qemu[t] = "exited"
    /\ Goto(t, "error") /\ Quiet

\* Mutant of ReapKill: wait(timeout=10) is the last attempt.
ReapGivesUp(t) ==
    /\ at[t] = "reap"
    /\ qemu[t] # "exited"
    /\ Goto(t, "error") /\ Quiet

\* Ten seconds later: SIGKILL, and wait() for as long as it takes.
ReapKill(t) ==
    /\ at[t] = "reap"
    /\ qemu[t] # "exited"
    /\ Rule(t, t, "exited")
    /\ Goto(t, "error")
    /\ UNCHANGED <<job, reported, dirs, path, exact, active, ran>>

Tool(t) ==
    \/ \E j \in Jobs : Verify(t, j)
    \/ CheckSockets(t) \/ MakeDir(t) \/ CreateDisk(t) \/ Popen(t) \/ WritePid(t)
    \/ PrepareFails(t) \/ Abandon(t)
    \/ WaitForPath(t) \/ PollMigration(t) \/ CheckPc(t) \/ Activate(t) \/ Recheck(t)
    \/ Resume(t) \/ Observe(t) \/ Stop(t) \/ Report(t) \/ Finish(t)
    \/ PanicQuit(t) \/ PanicTerminate(t) \/ PanicReaped(t) \/ Raise(t)
    \/ ExceptExited(t) \/ ExceptQuit(t) \/ ExceptTerminate(t)
    \/ Reaped(t) \/ ReapKill(t)
-----------------------------------------------------------------------------
(* External: the children.                                                 *)

Files == UNCHANGED <<at, job, reported, dirs, exact, active, ran, ruledBy>>

\* QEMU unlinks the path before it binds it.
Bind(u) ==
    /\ qemu[u] = "starting"
    /\ path' = [path EXCEPT ![job[u].tag] = u]
    /\ qemu' = [qemu EXCEPT ![u] = "loading"]
    /\ Files

\* -incoming with -S: the state is loaded and the guest stays paused.
Load(u) ==
    /\ qemu[u] = "loading"
    /\ qemu' = [qemu EXCEPT ![u] = "paused"]
    /\ UNCHANGED path
    /\ Files

\* It ends, as told or on its own; a clean exit removes the path, whoever's it is.
Exit(u) ==
    /\ qemu[u] \notin {"none", "exited"}
    /\ qemu' = [qemu EXCEPT ![u] = "exited"]
    /\ \/ UNCHANGED path
       \/ qemu[u] # "starting" /\ path' = [path EXCEPT ![job[u].tag] = None]
    /\ Files

Next == \E t \in Tools : Tool(t) \/ Bind(t) \/ Load(t) \/ Exit(t)

Spec == Init /\ [][Next]_vars
-----------------------------------------------------------------------------
(***************************************************************************)
(* Properties                                                              *)
(***************************************************************************)

\* Every invocation under the tag of t asks for the output directory of t, so
\* that mkdir lets only one of them through: so it is for all restores of one
\* manifest that name no --out.  The socket paths do not depend on the directory.
SameOut(jobs, t) == \A u \in Tools : jobs[u].tag = jobs[t].tag => jobs[u].out = jobs[t].out
OneDirectory(t) == SameOut(job, t)

\* "Reap only the exact child this invocation created": what is sent to the
\* monitor path, in the except block as in the try block, reaches no child of
\* another invocation.
ReapsExactChild == \A u \in Tools : ruledBy[u] \subseteq {u}

\* The same where the tag has one output directory: the exclusive mkdir between
\* the check of the socket paths and their use then makes the paths exclusive.
OwnChildOnly == \A u \in Tools : OneDirectory(u) => ruledBy[u] \subseteq {u}

\* An invocation that ends with an error, or with a panic it reported, leaves
\* no QEMU behind, in whatever order exceptions and exits come.
NoChildLeft ==
    \A t \in Tools : at[t] \in {"error", "panicked"} => qemu[t] \in {"none", "exited"}

\* Where the tag has one output directory, the report's exact_pc_before_resume
\* is about the reporting invocation's own child, not about another that
\* answered on its path.
ReportTrue == \A t \in reported : OneDirectory(t) => exact[t]

\* --leave-paused: "load and verify the exact checkpoint PC without executing";
\* without it no instruction runs before the PC is verified.  Again for a tag
\* with one output directory: a cont of another invocation comes by the path.
HeldUntilResume ==
    \A t \in Tools :
        /\ OneDirectory(t)
        /\ \/ at[t] \in {"pidfile", "wait", "load", "pc", "activate", "recheck", "resume"}
           \/ job[t].paused
        => ~ran[t]

\* A child left paused for a debugger owns its disks: a first continue from the
\* gdbstub does not abort on inactive block nodes (a tag with one output
\* directory, as above).
LeftPausedActive ==
    \A t \in Tools : OneDirectory(t) /\ at[t] = "done" /\ job[t].paused => active[t]
=============================================================================
