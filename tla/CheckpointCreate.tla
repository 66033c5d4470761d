-------------------------- MODULE CheckpointCreate --------------------------
(***************************************************************************)
(* tools/create_checkpoint.py: invocations that turn one running QEMU into *)
(* a checkpoint, a migration stream paired with the frozen ANS disk.  The  *)
(* tool drives QEMU through its monitor, so every command is a step at     *)
(* which QEMU, the guest, an operator or another invocation may interfere. *)
(*                                                                         *)
(* The guest is the number of instants it has run: RAM, PC and disk all    *)
(* belong to the current one.  A stream holds the instant it captured.     *)
(* Hashes, evidence files and the text of the monitor are abstracted.      *)
(***************************************************************************)
EXTENDS Naturals

CONSTANTS Tools,       \* invocations of create_checkpoint.py
          Tags,        \* the output directories: --out, or the one --tag names
          MaxInstant,  \* how long the guest runs
          None,        \* no tag, no stream, no manifest
          Partial      \* a stream that holds less than an instant

ASSUME MaxInstantAssumption == MaxInstant \in Nat
ASSUME NoneAssumption == None \notin Tags \cup Nat
ASSUME PartialAssumption == Partial \notin Nat \cup {None}

VARIABLES
    vm,          \* external: the source QEMU
    now,         \* external: the guest's instant
    migration,   \* external: status of the last migration and its target
    stream,      \* <tag>/vmstate.bin: None, Partial or the instant captured
    dirs,        \* output directories that exist
    diskMode,    \* permission of the ANS disk
    manifest,    \* <tag>/manifest.json: the source_pc it records, or None
    at,          \* where each invocation is
    tag,         \* its --tag
    pc,          \* the PC it read
    failedTags,  \* history: directories whose migration failed
    resumed      \* history: those of an invocation under whose hands the guest
                 \* was resumed after its pause was checked

vars == <<vm, now, migration, stream, dirs, diskMode, manifest, at, tag, pc,
          failedTags, resumed>>
toolVars == <<at, tag, pc>>
fileVars == <<dirs, diskMode, manifest>>
qemuVars == <<vm, now, migration, stream, failedTags, resumed>>

Instants == 0..MaxInstant
Captured(g) == stream[g] \in Instants

\* The steps at which the guest is meant to be held, and all of them.
Held == {"inspect", "migrate", "poll", "state", "quit", "exit", "freeze", "check", "manifest"}
Steps == {"mkdir", "stop", "status"} \cup Held

TypeOK ==
    /\ vm \in {"running", "paused", "postmigrate", "quitting", "gone"}
    /\ now \in Instants
    /\ migration \in [status : {"none", "active", "completed", "failed"},
                      tag : Tags \cup {None}]
    /\ stream \in [Tags -> {None, Partial} \cup Instants]
    /\ dirs \subseteq Tags
    /\ diskMode \in {"rw", "ro"}
    /\ manifest \in [Tags -> Instants \cup {None}]
    /\ at \in [Tools -> Steps \cup {"start", "done", "error"}]
    /\ tag \in [Tools -> Tags \cup {None}]
    /\ pc \in [Tools -> Instants]
    /\ failedTags \subseteq Tags /\ resumed \subseteq Tags

Init ==
    /\ vm = "running" /\ now = 0
    /\ migration = [status |-> "none", tag |-> None]
    /\ stream = [g \in Tags |-> None]
    /\ dirs = {} /\ diskMode = "rw"
    /\ manifest = [g \in Tags |-> None]
    /\ at = [t \in Tools |-> "start"]
    /\ tag = [t \in Tools |-> None]
    /\ pc = [t \in Tools |-> 0]
    /\ failedTags = {} /\ resumed = {}

Alive == vm # "gone"
\* The monitor answers; a QEMU that is quitting may or may not.
Answers == vm \notin {"gone", "quitting"}
-----------------------------------------------------------------------------
(* One invocation.                                                         *)

Goto(t, step) == at' = [at EXCEPT ![t] = step]

\* An exception: main() ends, whatever it did so far stays.
Raise(t) == Goto(t, "error") /\ UNCHANGED <<tag, pc, fileVars, qemuVars>>

\* Everything that is verified before the tag is consumed: the process, its
\* argv and environment, monitor and disk, qemu-img.
Validate(t, g) ==
    /\ at[t] = "start"
    /\ Alive
    /\ tag' = [tag EXCEPT ![t] = g]
    /\ Goto(t, "mkdir")
    /\ UNCHANGED <<pc, fileVars, qemuVars>>

ValidateFails(t) == at[t] = "start" /\ Raise(t)

\* Mutant of MakeDir: exist_ok=True.
MakeDirExistOk(t) ==
    /\ at[t] = "mkdir"
    /\ dirs' = dirs \cup {tag[t]}
    /\ Goto(t, "stop")
    /\ UNCHANGED <<tag, pc, diskMode, manifest, qemuVars>>

\* out.mkdir(exist_ok=False).
MakeDir(t) ==
    /\ at[t] = "mkdir"
    /\ tag[t] \notin dirs
    /\ dirs' = dirs \cup {tag[t]}
    /\ Goto(t, "stop")
    /\ UNCHANGED <<tag, pc, diskMode, manifest, qemuVars>>

MakeDirFails(t) == at[t] = "mkdir" /\ tag[t] \in dirs /\ Raise(t)

\* stop; its answer is not read.
Stop(t) ==
    /\ at[t] = "stop"
    /\ Answers
    /\ vm' = IF vm = "running" THEN "paused" ELSE vm
    /\ Goto(t, "status")
    /\ UNCHANGED <<tag, pc, fileVars, now, migration, stream, failedTags, resumed>>

\* Mutant of CheckPaused: the status is not looked at.
CheckPausedIgnored(t) ==
    /\ at[t] = "status"
    /\ Answers
    /\ Goto(t, "inspect")
    /\ UNCHANGED <<tag, pc, fileVars, qemuVars>>

\* info status: "paused" is also part of "paused (postmigrate)".
CheckPaused(t) ==
    /\ at[t] = "status"
    /\ Answers /\ vm # "running"
    /\ Goto(t, "inspect")
    /\ UNCHANGED <<tag, pc, fileVars, qemuVars>>

NotPaused(t) == at[t] = "status" /\ vm = "running" /\ Raise(t)

\* info registers and the inventory, then the guest marker in the serial log.
Inspect(t) ==
    /\ at[t] = "inspect"
    /\ Answers
    /\ pc' = [pc EXCEPT ![t] = now]
    /\ Goto(t, "migrate")
    /\ UNCHANGED <<tag, fileVars, qemuVars>>

MarkerAbsent(t) == at[t] = "inspect" /\ Answers /\ Raise(t)

\* flush, migrate -d: QEMU refuses while another migration is active or after
\* one completed, and the tool does not read the answer.
Migrate(t) ==
    /\ at[t] = "migrate"
    /\ Answers
    /\ IF migration.status = "active" \/ vm = "postmigrate"
         THEN UNCHANGED <<migration, stream>>
         ELSE /\ migration' = [status |-> "active", tag |-> tag[t]]
              /\ stream' = [stream EXCEPT ![tag[t]] = Partial]
    /\ Goto(t, "poll")
    /\ UNCHANGED <<tag, pc, fileVars, vm, now, failedTags, resumed>>

\* info migrate says completed, of whichever migration was the last.
PollCompleted(t) ==
    /\ at[t] = "poll"
    /\ Answers
    /\ migration.status = "completed"
    /\ Goto(t, "state")
    /\ UNCHANGED <<tag, pc, fileVars, qemuVars>>

PollFailed(t) ==
    /\ at[t] = "poll" /\ Answers /\ migration.status = "failed" /\ Raise(t)

\* --timeout passes first; the migration goes on.
PollTimeout(t) ==
    /\ at[t] = "poll" /\ Answers /\ migration.status # "failed" /\ Raise(t)

\* Mutant of CheckState: "completed" is taken at its word.
CheckStateTrusts(t) ==
    /\ at[t] = "state"
    /\ Goto(t, "quit")
    /\ UNCHANGED <<tag, pc, fileVars, qemuVars>>

\* The state file must exist and hold 4096 bytes: so does a complete stream,
\* and a partial one may.
CheckState(t) ==
    /\ at[t] = "state"
    /\ stream[tag[t]] # None
    /\ Goto(t, "quit")
    /\ UNCHANGED <<tag, pc, fileVars, qemuVars>>

StateMissing(t) ==
    at[t] = "state" /\ stream[tag[t]] \in {None, Partial} /\ Raise(t)

Quit(t) ==
    /\ at[t] = "quit"
    /\ Alive
    /\ vm' = "quitting"
    /\ Goto(t, "exit")
    /\ UNCHANGED <<tag, pc, fileVars, now, migration, stream, failedTags, resumed>>

\* The monitor is gone, or does not answer, in the middle of the protocol.
MonitorGone(t) ==
    /\ at[t] \in {"stop", "status", "inspect", "migrate", "poll", "quit"}
    /\ ~Answers
    /\ Raise(t)

\* Mutant of WaitExit: the result of wait_pid_exit is not looked at.
WaitExitIgnored(t) ==
    /\ at[t] = "exit"
    /\ Goto(t, "freeze")
    /\ UNCHANGED <<tag, pc, fileVars, qemuVars>>

WaitExit(t) ==
    /\ at[t] = "exit"
    /\ ~Alive
    /\ Goto(t, "freeze")
    /\ UNCHANGED <<tag, pc, fileVars, qemuVars>>

\* wait_pid_exit gives up after 30 seconds.
WaitTimeout(t) == at[t] = "exit" /\ Alive /\ Raise(t)

Freeze(t) ==
    /\ at[t] = "freeze"
    /\ diskMode' = "ro"
    /\ Goto(t, "check")
    /\ UNCHANGED <<tag, pc, dirs, manifest, qemuVars>>

\* qemu-img check, the backing chain and the hashes.
CheckDisk(t) ==
    /\ at[t] = "check"
    /\ Goto(t, "manifest")
    /\ UNCHANGED <<tag, pc, fileVars, qemuVars>>

CheckDiskFails(t) == at[t] = "check" /\ Raise(t)

WriteManifest(t) ==
    /\ at[t] = "manifest"
    /\ manifest' = [manifest EXCEPT ![tag[t]] = pc[t]]
    /\ Goto(t, "done")
    /\ UNCHANGED <<tag, pc, dirs, diskMode, qemuVars>>

Tool(t) ==
    \/ \E g \in Tags : Validate(t, g)
    \/ ValidateFails(t) \/ MakeDir(t) \/ MakeDirFails(t) \/ Stop(t)
    \/ CheckPaused(t) \/ NotPaused(t) \/ Inspect(t) \/ MarkerAbsent(t) \/ Migrate(t) \/ PollCompleted(t) \/ PollFailed(t)
    \/ PollTimeout(t) \/ CheckState(t) \/ StateMissing(t) \/ Quit(t)
    \/ MonitorGone(t) \/ WaitExit(t) \/ WaitTimeout(t) \/ Freeze(t)
    \/ CheckDisk(t) \/ CheckDiskFails(t) \/ WriteManifest(t)
-----------------------------------------------------------------------------
(* External: QEMU, the guest and the operator.                             *)

GuestRuns ==
    /\ vm = "running" /\ now < MaxInstant
    /\ now' = now + 1
    /\ UNCHANGED <<toolVars, fileVars, vm, migration, stream, failedTags, resumed>>

\* A migration that completes stops the guest and captures that instant.
MigrationCompletes ==
    /\ Answers /\ migration.status = "active"
    /\ migration' = [migration EXCEPT !.status = "completed"]
    /\ stream' = [stream EXCEPT ![migration.tag] = now]
    /\ vm' = "postmigrate"
    /\ UNCHANGED <<toolVars, fileVars, now, failedTags, resumed>>

MigrationFails ==
    /\ Answers /\ migration.status = "active"
    /\ migration' = [migration EXCEPT !.status = "failed"]
    /\ failedTags' = failedTags \cup {migration.tag}
    /\ UNCHANGED <<toolVars, fileVars, vm, now, stream, resumed>>

QemuExits ==
    /\ Alive
    /\ vm' = "gone"
    /\ UNCHANGED <<toolVars, fileVars, now, migration, stream, failedTags, resumed>>

\* An operator resumes the guest: one that an aborted invocation left paused,
\* or, since the monitor serves anyone, one that an invocation is working on.
OperatorResumes ==
    /\ vm \in {"paused", "postmigrate"}
    /\ vm' = "running"
    /\ resumed' = resumed \cup {tag[t] : t \in {u \in Tools : at[u] \in Held}}
    /\ UNCHANGED <<toolVars, fileVars, now, migration, stream, failedTags>>

Next ==
    \/ \E t \in Tools : Tool(t)
    \/ GuestRuns \/ MigrationCompletes \/ MigrationFails \/ QemuExits
    \/ OperatorResumes

Spec == Init /\ [][Next]_vars
-----------------------------------------------------------------------------
(***************************************************************************)
(* Properties                                                              *)
(***************************************************************************)
Manifests == {g \in Tags : manifest[g] # None}

\* "a RAM/device migration stream paired with an immutable ANS disk": where a
\* manifest exists the source is gone and its disk is frozen; the stream is
\* complete, and belongs to the last instant of the guest, as does the PC that
\* a restore compares.  Excepted are an invocation that another one made miss
\* the failure of its own migration, and, for the instant, one that checked the
\* pause once and had the guest resumed behind its back.
ManifestSound ==
    \A g \in Manifests :
        /\ vm = "gone" /\ diskMode = "ro"
        /\ g \notin failedTags => Captured(g)
        /\ g \notin failedTags \cup resumed => stream[g] = now /\ manifest[g] = now

\* "Freeze the disk generation immediately after the verified source exits":
\* the disk never loses its write permission under a live guest.
FrozenAfterExit == diskMode = "ro" => vm = "gone"

\* Of any number of invocations on one source at most one gets a manifest: the
\* others miss the failure of their own migration, or the resume of a guest
\* they hold.
OneManifest == \A g, h \in Manifests \ (failedTags \cup resumed) : g = h

\* A stream that was captured is never overwritten by a later invocation.
StreamKept == [][\A g \in Tags : Captured(g) => stream'[g] = stream[g]]_vars
=============================================================================
