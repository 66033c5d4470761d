----------------------- MODULE CheckpointCreateProofs -----------------------
(***************************************************************************)
(* Proofs about CheckpointCreate for any number of invocations, tags and   *)
(* guest instants.  What a manifest says is true because, from the moment  *)
(* its invocation saw the guest paused, no interleaving with the others    *)
(* can let the guest run, give its directory away or start a second        *)
(* stream, unless an operator resumes the guest (resumed); IInv says so    *)
(* for every step of every invocation.                                     *)
(***************************************************************************)
EXTENDS CheckpointCreate, TLAPS

Owning == {"stop", "status", "done"} \cup Held
Stopped == Held \cup {"done"}
Inspected == Stopped \ {"inspect"}
Ending == {"quit", "exit", "freeze", "check", "manifest", "done"}
Exited == {"freeze", "check", "manifest", "done"}

\* An output directory belongs to one invocation.
Directories ==
    /\ \A t \in Tools : at[t] \in Owning \cup {"mkdir"} => tag[t] \in Tags
    /\ \A t \in Tools : at[t] \in Owning => tag[t] \in dirs
    /\ \A t, u \in Tools :
         at[t] \in Owning /\ at[u] \in Owning /\ tag[t] = tag[u] => t = u
    /\ \A g \in Tags : stream[g] # None => g \in dirs
    /\ \A g \in Tags : manifest[g] # None =>
         \E t \in Tools : at[t] = "done" /\ tag[t] = g

\* A stream is begun once, by its owner, and only the active one is unfinished.
Streams ==
    /\ \A t \in Tools :
         at[t] \in {"stop", "status", "inspect", "migrate"} => stream[tag[t]] = None
    /\ migration.status = "active" =>
         /\ migration.tag \in Tags
         /\ stream[migration.tag] = Partial
         /\ vm # "postmigrate"
    /\ \A g \in Tags : stream[g] = Partial /\ g \notin failedTags =>
         migration.status = "active" /\ migration.tag = g
    /\ \A t \in Tools : at[t] \in Ending \cup {"state"} =>
         ~(migration.status = "active" /\ migration.tag = tag[t])

\* While an invocation holds the guest, and nobody resumes it, the guest keeps
\* its instant.
Holds(t) == tag[t] \notin resumed

GuestHeld ==
    /\ \A t \in Tools : at[t] \in Stopped /\ Holds(t) => vm # "running"
    /\ \A t \in Tools : at[t] \in Inspected /\ Holds(t) => pc[t] = now
    /\ \A t \in Tools : at[t] \in Inspected /\ Holds(t) /\ Captured(tag[t]) =>
         stream[tag[t]] = now /\ vm \in {"postmigrate", "quitting", "gone"}
    /\ \A t, u \in Tools :
         /\ at[t] \in Inspected /\ Holds(t) /\ Captured(tag[t])
         /\ at[u] \in Inspected /\ Holds(u) /\ Captured(tag[u])
         => t = u

\* What the last steps of an invocation rely on.
Endings ==
    /\ \A t \in Tools : at[t] \in Ending => tag[t] \in failedTags \/ Captured(tag[t])
    /\ \A t \in Tools : at[t] \in Exited => vm = "gone"
    /\ \A t \in Tools : at[t] \in Exited \ {"freeze"} => diskMode = "ro"

IInv ==
    /\ TypeOK
    /\ Directories
    /\ Streams
    /\ GuestHeld
    /\ Endings
    /\ FrozenAfterExit
    /\ ManifestSound

USE MaxInstantAssumption, NoneAssumption, PartialAssumption
USE DEF Instants

\* Before the first invocation there is nothing to keep.
LEMMA InitInv == Init => IInv
<1> SUFFICES ASSUME Init PROVE IInv
  OBVIOUS
<1> USE DEF Init
<1>1. TypeOK
  BY DEF TypeOK, Steps, Held
<1>2. Directories /\ Streams /\ GuestHeld /\ Endings
  BY DEF Directories, Streams, GuestHeld, Endings, Owning, Stopped, Inspected,
         Ending, Exited, Captured, Held, Holds
<1>3. FrozenAfterExit /\ ManifestSound
  BY DEF FrozenAfterExit, ManifestSound, Manifests
<1> QED
  BY <1>1, <1>2, <1>3 DEF IInv

\* Every step of an invocation, of QEMU, of the guest and of the operator keeps
\* the invariant.  The failing steps all end in Raise.
LEMMA StepInv == IInv /\ [Next]_vars => IInv'
<1> SUFFICES ASSUME IInv, [Next]_vars PROVE IInv'
  OBVIOUS
<1> USE DEF IInv, TypeOK, Directories, Streams, GuestHeld, Endings, FrozenAfterExit,
            ManifestSound, Manifests, Owning, Stopped, Inspected, Ending, Exited,
            Captured, Steps, Held, Holds, Goto, Alive, Answers, toolVars, fileVars, qemuVars, vars
<1>1. ASSUME NEW t \in Tools, at[t] # "done", Raise(t) PROVE IInv'
  BY <1>1 DEF Raise
<1>2. ASSUME NEW t \in Tools, NEW g \in Tags, Validate(t, g) PROVE IInv'
  BY <1>2 DEF Validate
<1>3. ASSUME NEW t \in Tools, MakeDir(t) PROVE IInv'
  BY <1>3 DEF MakeDir
<1>4. ASSUME NEW t \in Tools, Stop(t) PROVE IInv'
  BY <1>4 DEF Stop
<1>20. ASSUME NEW t \in Tools, CheckPaused(t) PROVE IInv'
  BY <1>20 DEF CheckPaused
<1>5. ASSUME NEW t \in Tools, Inspect(t) PROVE IInv'
  BY <1>5 DEF Inspect
<1>6. ASSUME NEW t \in Tools, Migrate(t) PROVE IInv'
  BY <1>6 DEF Migrate
<1>7. ASSUME NEW t \in Tools, PollCompleted(t) PROVE IInv'
  BY <1>7 DEF PollCompleted
<1>8. ASSUME NEW t \in Tools, CheckState(t) PROVE IInv'
  BY <1>8 DEF CheckState
<1>9. ASSUME NEW t \in Tools, Quit(t) PROVE IInv'
  BY <1>9 DEF Quit
<1>10. ASSUME NEW t \in Tools, WaitExit(t) PROVE IInv'
  BY <1>10 DEF WaitExit
<1>11. ASSUME NEW t \in Tools, Freeze(t) PROVE IInv'
  BY <1>11 DEF Freeze
<1>12. ASSUME NEW t \in Tools, CheckDisk(t) PROVE IInv'
  BY <1>12 DEF CheckDisk
<1>13. ASSUME NEW t \in Tools, WriteManifest(t) PROVE IInv'
  BY <1>13 DEF WriteManifest
<1>14. CASE GuestRuns
  BY <1>14 DEF GuestRuns
<1>15. CASE MigrationCompletes
  BY <1>15 DEF MigrationCompletes
<1>16. CASE MigrationFails
  BY <1>16 DEF MigrationFails
<1>17. CASE QemuExits
  BY <1>17 DEF QemuExits
<1>18. CASE OperatorResumes
  BY <1>18 DEF OperatorResumes
<1>19. CASE UNCHANGED vars
  BY <1>19
<1> QED
  BY <1>1, <1>2, <1>3, <1>4, <1>5, <1>6, <1>7, <1>8, <1>9, <1>10, <1>11, <1>12, <1>13, <1>14, <1>15, <1>16, <1>17, <1>18, <1>19, <1>20
  DEF NotPaused, Next, Tool, ValidateFails, MakeDirFails, MarkerAbsent, PollFailed, PollTimeout, StateMissing, MonitorGone, WaitTimeout, CheckDiskFails

LEMMA InvAlways == Spec => []IInv
<1> QED
  BY InitInv, StepInv, PTL DEF Spec

\* The state of create_checkpoint.py, QEMU and the files stays well formed.
THEOREM CreateTypeCorrect == Spec => []TypeOK
<1>1. IInv => TypeOK
  BY DEF IInv
<1> QED
  BY <1>1, InvAlways, PTL

\* A manifest that atomic_json wrote pairs a complete stream with the frozen
\* disk of the same instant, whatever the other invocations do, unless an
\* operator resumed the guest during its own invocation.
THEOREM ManifestIsSound == Spec => []ManifestSound
<1>1. IInv => ManifestSound
  BY DEF IInv
<1> QED
  BY <1>1, InvAlways, PTL

\* disk.chmod(0o444) never happens under a live guest.
THEOREM FrozenOnlyAfterExit == Spec => []FrozenAfterExit
<1>1. IInv => FrozenAfterExit
  BY DEF IInv
<1> QED
  BY <1>1, InvAlways, PTL

\* Two manifests would need two captures of one stopped guest.
THEOREM AtMostOneManifest == Spec => []OneManifest
<1>1. ASSUME IInv PROVE OneManifest
  <2> SUFFICES ASSUME NEW g \in Tags, manifest[g] # None, g \notin failedTags \cup resumed,
                      NEW h \in Tags, manifest[h] # None, h \notin failedTags \cup resumed
               PROVE  g = h
    BY DEF OneManifest, Manifests
  <2>1. PICK t \in Tools : at[t] = "done" /\ tag[t] = g
    BY <1>1 DEF IInv, Directories
  <2>2. PICK u \in Tools : at[u] = "done" /\ tag[u] = h
    BY <1>1 DEF IInv, Directories
  <2>3. Captured(tag[t]) /\ Captured(tag[u])
    BY <1>1, <2>1, <2>2 DEF IInv, Endings, Ending
  <2>4. t = u
    BY <1>1, <2>1, <2>2, <2>3 DEF IInv, GuestHeld, Holds, Inspected, Stopped
  <2> QED
    BY <2>1, <2>2, <2>4
<1> QED
  BY <1>1, InvAlways, PTL

\* migrate -d never names the file of a stream that was captured before.
THEOREM CapturedStreamIsKept == Spec => StreamKept
<1>1. ASSUME IInv, [Next]_vars
      PROVE  [\A g \in Tags : Captured(g) => stream'[g] = stream[g]]_vars
  <2> SUFFICES ASSUME NEW g \in Tags, Captured(g), Next
               PROVE  stream'[g] = stream[g]
    BY <1>1
  <2>1. ASSUME NEW t \in Tools, Migrate(t) PROVE stream'[g] = stream[g]
    BY <1>1, <2>1 DEF Migrate, IInv, TypeOK, Streams, Captured
  <2>2. CASE MigrationCompletes
    BY <1>1, <2>2 DEF MigrationCompletes, IInv, TypeOK, Streams, Captured
  <2>3. ASSUME NEW t \in Tools, Tool(t), ~Migrate(t) PROVE UNCHANGED stream
    BY <2>3 DEF Tool, Raise, Validate, ValidateFails, MakeDir, MakeDirFails, Stop,
       CheckPaused, NotPaused, Inspect, MarkerAbsent, PollCompleted, PollFailed, PollTimeout, CheckState,
       StateMissing, Quit, MonitorGone, WaitExit, WaitTimeout, Freeze, CheckDisk,
       CheckDiskFails, WriteManifest, qemuVars
  <2>4. CASE GuestRuns \/ MigrationFails \/ QemuExits \/ OperatorResumes
    BY <2>4 DEF GuestRuns, MigrationFails, QemuExits, OperatorResumes
  <2> QED
    BY <2>1, <2>2, <2>3, <2>4 DEF Next
<1> QED
  BY <1>1, InvAlways, PTL DEF Spec, StreamKept
=============================================================================
