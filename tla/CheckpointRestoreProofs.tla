----------------------- MODULE CheckpointRestoreProofs -----------------------
(***************************************************************************)
(* Proofs about CheckpointRestore for any number of invocations and tags.  *)
(*                                                                         *)
(* NoChildLeft needs nothing but the shape of the except block.  The other *)
(* properties are about whom a monitor path leads to, and speak of tags    *)
(* with one output directory (OneDirectory): that directory, and with it   *)
(* the socket path, belongs to one invocation.  The run restore_same_tag   *)
(* shows what happens without it.                                          *)
(***************************************************************************)
EXTENDS CheckpointRestore, TLAPS

Spawned == {"pidfile"} \cup Restore \cup Reaping
Held == {"pidfile", "wait", "load", "pc", "activate", "recheck", "resume"}
Verified == {"activate", "recheck", "resume", "observe", "stop", "report",
             "finish", "quit", "quitting", "terminated", "done", "panicked"}
Activated == {"recheck", "observe", "stop", "report", "finish", "done"}

\* A child exists from Popen on.
Children ==
    /\ \A t \in Tools : at[t] = "start" => job[t] = NoJob
    /\ \A t \in Tools : at[t] \in {"sockets", "mkdir"} => job[t] \in Jobs
    /\ \A t \in Tools : at[t] \in Prepare \ {"pidfile"} => qemu[t] = "none"
    /\ \A t \in Tools : at[t] \in Spawned => qemu[t] # "none"
    /\ \A t \in Tools : at[t] \in {"done", "abandoned"} => qemu[t] # "none"

USE NoneAssumption

\* What the except block needs: an exited child stays exited.
ReapInv == TypeOK /\ Children /\ NoChildLeft

\* Children and the directories they were given.
Owner(t) == at[t] \in {"disk", "popen"} \/ qemu[t] # "none"

Ownership ==
    /\ \A t \in Tools : Owner(t) => job[t] \in Jobs
    /\ \A t \in Tools : Owner(t) => Out(t) \in dirs
    /\ \A t, u \in Tools : Owner(t) /\ Owner(u) /\ Out(t) = Out(u) => t = u
    /\ \A g \in Tags : path[g] # None => qemu[path[g]] # "none" /\ job[path[g]].tag = g

\* What an invocation knows of its own child.
Knowledge ==
    /\ \A t \in Tools : OneDirectory(t) /\ at[t] \in Verified => exact[t]
    /\ \A t \in Tools : qemu[t] \in {"none", "starting", "loading"} => ~ran[t]
    /\ \A t \in Tools : qemu[t] = "none" => t \notin reported /\ ruledBy[t] = {}
    /\ \A t \in Tools : job[t].paused => at[t] # "resume"
    /\ \A t \in Tools : OneDirectory(t) /\ at[t] \in Activated /\ job[t].paused => active[t]

OwnInv ==
    /\ ReapInv
    /\ Ownership
    /\ Knowledge
    /\ OwnChildOnly
    /\ ReportTrue
    /\ HeldUntilResume
    /\ LeftPausedActive

-----------------------------------------------------------------------------
\* No invocation has begun.
LEMMA ReapInit == Init => ReapInv
BY DEF Init, ReapInv, TypeOK, Children, NoChildLeft, Spawned, Prepare, Restore,
       Reaping, Ends

\* Only Popen makes a child, and no command revives one that has exited.
LEMMA ReapStep == ReapInv /\ [Next]_vars => ReapInv'
<1> SUFFICES ASSUME ReapInv, [Next]_vars PROVE ReapInv'
  OBVIOUS
<1> USE DEF ReapInv, TypeOK, Children, NoChildLeft, Spawned, Prepare, Restore,
            Reaping, Ends, Jobs, NoJob, Out, Goto, Quiet, Live, Answers, childVars, vars
<1>1. ASSUME NEW t \in Tools, NEW j \in Jobs, Verify(t, j) PROVE ReapInv'
  BY <1>1 DEF Verify
<1>2. ASSUME NEW t \in Tools, CheckSockets(t) PROVE ReapInv'
  BY <1>2 DEF CheckSockets
<1>3. ASSUME NEW t \in Tools, MakeDir(t) PROVE ReapInv'
  BY <1>3 DEF MakeDir
<1>4. ASSUME NEW t \in Tools, CreateDisk(t) PROVE ReapInv'
  BY <1>4 DEF CreateDisk
<1>5. ASSUME NEW t \in Tools, Popen(t) PROVE ReapInv'
  BY <1>5 DEF Popen
<1>6. ASSUME NEW t \in Tools, WritePid(t) PROVE ReapInv'
  BY <1>6 DEF WritePid
<1>7. ASSUME NEW t \in Tools, PrepareFails(t) PROVE ReapInv'
  BY <1>7 DEF PrepareFails
<1>8. ASSUME NEW t \in Tools, Abandon(t) PROVE ReapInv'
  BY <1>8 DEF Abandon
<1>9. ASSUME NEW t \in Tools, WaitForPath(t) PROVE ReapInv'
  BY <1>9 DEF WaitForPath
<1>10. ASSUME NEW t \in Tools, PollMigration(t) PROVE ReapInv'
  BY <1>10 DEF PollMigration
<1>11. ASSUME NEW t \in Tools, CheckPc(t) PROVE ReapInv'
  BY <1>11 DEF CheckPc
<1>12. ASSUME NEW t \in Tools, Activate(t) PROVE ReapInv'
  BY <1>12 DEF Activate
<1>13. ASSUME NEW t \in Tools, Recheck(t) PROVE ReapInv'
  BY <1>13 DEF Recheck
<1>14. ASSUME NEW t \in Tools, Resume(t) PROVE ReapInv'
  BY <1>14 DEF Resume, Continue, Rule
<1>15. ASSUME NEW t \in Tools, Observe(t) PROVE ReapInv'
  BY <1>15 DEF Observe
<1>16. ASSUME NEW t \in Tools, Stop(t) PROVE ReapInv'
  BY <1>16 DEF Stop, Rule
<1>17. ASSUME NEW t \in Tools, Report(t) PROVE ReapInv'
  BY <1>17 DEF Report
<1>18. ASSUME NEW t \in Tools, Finish(t) PROVE ReapInv'
  <2>0. at[t] = "finish" /\ Goto(t, "done") /\ UNCHANGED <<job, reported, dirs, path>>
    BY <1>18 DEF Finish
  <2>1. CASE UNCHANGED childVars
    BY <2>0, <2>1
  <2>2. ASSUME NEW u \in Tools, Answers(t, u), Continue(t, u), UNCHANGED exact
        PROVE  ReapInv'
    BY <2>0, <2>2 DEF Continue, Rule
  <2> QED
    BY <1>18, <2>1, <2>2 DEF Finish
<1>19. ASSUME NEW t \in Tools, PanicQuit(t) PROVE ReapInv'
  BY <1>19 DEF PanicQuit, Rule
<1>20. ASSUME NEW t \in Tools, PanicTerminate(t) PROVE ReapInv'
  BY <1>20 DEF PanicTerminate, Rule
<1>21. ASSUME NEW t \in Tools, PanicReaped(t) PROVE ReapInv'
  BY <1>21 DEF PanicReaped
<1>22. ASSUME NEW t \in Tools, Raise(t) PROVE ReapInv'
  BY <1>22 DEF Raise
<1>23. ASSUME NEW t \in Tools, ExceptExited(t) PROVE ReapInv'
  BY <1>23 DEF ExceptExited
<1>24. ASSUME NEW t \in Tools, ExceptQuit(t) PROVE ReapInv'
  BY <1>24 DEF ExceptQuit, Rule
<1>25. ASSUME NEW t \in Tools, ExceptTerminate(t) PROVE ReapInv'
  BY <1>25 DEF ExceptTerminate, Rule
<1>26. ASSUME NEW t \in Tools, Reaped(t) PROVE ReapInv'
  BY <1>26 DEF Reaped
<1>27. ASSUME NEW t \in Tools, ReapKill(t) PROVE ReapInv'
  BY <1>27 DEF ReapKill, Rule
<1>28. ASSUME NEW t \in Tools, Bind(t) PROVE ReapInv'
  BY <1>28 DEF Bind, Files
<1>29. ASSUME NEW t \in Tools, Load(t) PROVE ReapInv'
  BY <1>29 DEF Load, Files
<1>30. ASSUME NEW t \in Tools, Exit(t) PROVE ReapInv'
  BY <1>30 DEF Exit, Files
<1>31. CASE UNCHANGED vars
  BY <1>31
<1> QED
  BY <1>1, <1>2, <1>3, <1>4, <1>5, <1>6, <1>7, <1>8, <1>9, <1>10, <1>11, <1>12, <1>13, <1>14, <1>15, <1>16, <1>17, <1>18, <1>19, <1>20, <1>21, <1>22, <1>23, <1>24, <1>25, <1>26, <1>27, <1>28, <1>29, <1>30, <1>31 DEF Next, Tool

\* After an error or a reported panic the child of the invocation is gone: the
\* except block of main() and its panic path, without any assumption on tags.
THEOREM NoChildIsLeft == Spec => []NoChildLeft
<1>1. ReapInv => NoChildLeft
  BY DEF ReapInv
<1> QED
  BY <1>1, ReapInit, ReapStep, PTL DEF Spec

\* The state of the invocations, the files and the children stays well formed.
THEOREM RestoreTypeCorrect == Spec => []TypeOK
<1>1. ReapInv => TypeOK
  BY DEF ReapInv
<1> QED
  BY <1>1, ReapInit, ReapStep, PTL DEF Spec
-----------------------------------------------------------------------------
\* out.mkdir(exist_ok=False), before Popen, makes the path of a tag private.
LEMMA OwnAnswer ==
    ASSUME ReapInv, Ownership, NEW t \in Tools, at[t] \in Spawned,
           NEW u \in Tools, Answers(t, u), OneDirectory(t) \/ OneDirectory(u)
    PROVE  u = t
<1>1. Owner(t) /\ Owner(u)
  BY DEF ReapInv, Children, Owner, Answers, Live
<1>2. job[t].tag \in Tags /\ job[u].tag = job[t].tag
  BY <1>1 DEF Ownership, Answers, Jobs
<1>3. Out(t) = Out(u)
  BY <1>2 DEF OneDirectory, SameOut, Out
<1> QED
  BY <1>1, <1>3 DEF Ownership

\* Nothing is bound and nobody knows anything.
LEMMA OwnInit == Init => OwnInv
<1> SUFFICES ASSUME Init PROVE OwnInv
  OBVIOUS
<1>1. ReapInv
  BY ReapInit
<1>2. Ownership
  BY DEF Init, Ownership, Owner
<1>3. Knowledge /\ OwnChildOnly /\ ReportTrue /\ HeldUntilResume /\ LeftPausedActive
  BY DEF Init, Knowledge, OwnChildOnly, ReportTrue, HeldUntilResume, LeftPausedActive,
         Verified, Activated, NoJob
<1> QED
  BY <1>1, <1>2, <1>3 DEF OwnInv

\* A command of an invocation reaches its own child or nobody.
LEMMA OwnStep == OwnInv /\ [Next]_vars => OwnInv'
<1> SUFFICES ASSUME OwnInv, [Next]_vars PROVE OwnInv'
  OBVIOUS
<1>0. ReapInv'
  BY ReapStep DEF OwnInv
<1> USE <1>0
<1> USE DEF OwnInv, ReapInv, TypeOK, Children, Ownership, Owner, Knowledge, OwnChildOnly,
            ReportTrue, HeldUntilResume, LeftPausedActive, OneDirectory, Verified, Activated,
            Spawned, Prepare, Restore, Reaping, Ends, Jobs, NoJob, Out, Goto, Quiet, Live, Answers,
            childVars, vars
<1>1. ASSUME NEW t \in Tools, NEW j \in Jobs, Verify(t, j) PROVE OwnInv'
  <2>1. \A u \in Tools \ {t} : SameOut(job', u) => SameOut(job, u)
    BY <1>1 DEF Verify, SameOut
  <2>2. /\ job'[t] = j /\ j.tag \in Tags /\ at'[t] = "sockets" /\ qemu[t] = "none"
        /\ \A u \in Tools \ {t} : job'[u] = job[u] /\ at'[u] = at[u]
        /\ UNCHANGED <<reported, dirs, path, qemu, exact, active, ran, ruledBy>>
    BY <1>1 DEF Verify
  <2>3. Ownership'
    <3>1. \A u \in Tools : Owner(u)' => u # t /\ Owner(u) /\ job'[u] = job[u]
      BY <2>2
    <3>2. \A g \in Tags : path'[g] # None => path'[g] # t /\ path'[g] \in Tools
      BY <2>2
    <3>3. \A g \in Tags : path'[g] # None => qemu'[path'[g]] # "none" /\ job'[path'[g]].tag = g
      BY <2>2, <3>2
    <3> QED
      BY <2>2, <3>1, <3>3
  <2>4. Knowledge'
    BY <2>1, <2>2
  <2>5. OwnChildOnly' /\ ReportTrue'
    BY <2>1, <2>2
  <2>6. HeldUntilResume' /\ LeftPausedActive'
    BY <2>1, <2>2
  <2> QED
    BY <2>3, <2>4, <2>5, <2>6
<1>2. ASSUME NEW t \in Tools, CheckSockets(t) PROVE OwnInv'
  BY <1>2 DEF CheckSockets
<1>3. ASSUME NEW t \in Tools, MakeDir(t) PROVE OwnInv'
  BY <1>3 DEF MakeDir
<1>4. ASSUME NEW t \in Tools, CreateDisk(t) PROVE OwnInv'
  BY <1>4 DEF CreateDisk
<1>5. ASSUME NEW t \in Tools, Popen(t) PROVE OwnInv'
  BY <1>5 DEF Popen
<1>6. ASSUME NEW t \in Tools, WritePid(t) PROVE OwnInv'
  BY <1>6 DEF WritePid
<1>7. ASSUME NEW t \in Tools, PrepareFails(t) PROVE OwnInv'
  BY <1>7 DEF PrepareFails
<1>8. ASSUME NEW t \in Tools, Abandon(t) PROVE OwnInv'
  BY <1>8 DEF Abandon
<1>9. ASSUME NEW t \in Tools, WaitForPath(t) PROVE OwnInv'
  BY <1>9 DEF WaitForPath
<1>10. ASSUME NEW t \in Tools, PollMigration(t) PROVE OwnInv'
  <2>1. \A u \in Tools : Answers(t, u) /\ (OneDirectory(t) \/ OneDirectory(u)) => u = t
    BY <1>10, OwnAnswer DEF PollMigration, OwnInv, Spawned, Restore, Reaping
  <2> QED
    BY <1>10, <2>1 DEF PollMigration
<1>11. ASSUME NEW t \in Tools, CheckPc(t) PROVE OwnInv'
  <2>1. \A u \in Tools : Answers(t, u) /\ (OneDirectory(t) \/ OneDirectory(u)) => u = t
    BY <1>11, OwnAnswer DEF CheckPc, OwnInv, Spawned, Restore, Reaping
  <2> QED
    BY <1>11, <2>1 DEF CheckPc
<1>12. ASSUME NEW t \in Tools, Activate(t) PROVE OwnInv'
  <2>1. \A u \in Tools : Answers(t, u) /\ (OneDirectory(t) \/ OneDirectory(u)) => u = t
    BY <1>12, OwnAnswer DEF Activate, OwnInv, Spawned, Restore, Reaping
  <2> QED
    BY <1>12, <2>1 DEF Activate
<1>13. ASSUME NEW t \in Tools, Recheck(t) PROVE OwnInv'
  <2>1. \A u \in Tools : Answers(t, u) /\ (OneDirectory(t) \/ OneDirectory(u)) => u = t
    BY <1>13, OwnAnswer DEF Recheck, OwnInv, Spawned, Restore, Reaping
  <2> QED
    BY <1>13, <2>1 DEF Recheck
<1>14. ASSUME NEW t \in Tools, Resume(t) PROVE OwnInv'
  <2>1. \A u \in Tools : Answers(t, u) /\ (OneDirectory(t) \/ OneDirectory(u)) => u = t
    BY <1>14, OwnAnswer DEF Resume, OwnInv, Spawned, Restore, Reaping
  <2> QED
    BY <1>14, <2>1 DEF Resume, Continue, Rule
<1>15. ASSUME NEW t \in Tools, Observe(t) PROVE OwnInv'
  BY <1>15 DEF Observe
<1>16. ASSUME NEW t \in Tools, Stop(t) PROVE OwnInv'
  <2>1. \A u \in Tools : Answers(t, u) /\ (OneDirectory(t) \/ OneDirectory(u)) => u = t
    BY <1>16, OwnAnswer DEF Stop, OwnInv, Spawned, Restore, Reaping
  <2> QED
    BY <1>16, <2>1 DEF Stop, Rule
<1>17. ASSUME NEW t \in Tools, Report(t) PROVE OwnInv'
  <2>1. \A u \in Tools : Answers(t, u) /\ (OneDirectory(t) \/ OneDirectory(u)) => u = t
    BY <1>17, OwnAnswer DEF Report, OwnInv, Spawned, Restore, Reaping
  <2> QED
    BY <1>17, <2>1 DEF Report
<1>18. ASSUME NEW t \in Tools, Finish(t) PROVE OwnInv'
  <2>1. \A u \in Tools : Answers(t, u) /\ (OneDirectory(t) \/ OneDirectory(u)) => u = t
    BY <1>18, OwnAnswer DEF Finish, OwnInv, Spawned, Restore, Reaping
  <2>2. at[t] = "finish" /\ Goto(t, "done") /\ UNCHANGED <<job, reported, dirs, path>>
    BY <1>18 DEF Finish
  <2>3. CASE UNCHANGED childVars
    BY <2>2, <2>3
  <2>4. ASSUME NEW u \in Tools, Answers(t, u), Continue(t, u), ~job[t].paused, UNCHANGED exact
        PROVE  OwnInv'
    BY <2>1, <2>2, <2>4 DEF Continue, Rule
  <2> QED
    BY <1>18, <2>3, <2>4 DEF Finish
<1>19. ASSUME NEW t \in Tools, PanicQuit(t) PROVE OwnInv'
  <2>1. \A u \in Tools : Answers(t, u) /\ (OneDirectory(t) \/ OneDirectory(u)) => u = t
    BY <1>19, OwnAnswer DEF PanicQuit, OwnInv, Spawned, Restore, Reaping
  <2> QED
    BY <1>19, <2>1 DEF PanicQuit, Rule
<1>20. ASSUME NEW t \in Tools, PanicTerminate(t) PROVE OwnInv'
  BY <1>20 DEF PanicTerminate, Rule
<1>21. ASSUME NEW t \in Tools, PanicReaped(t) PROVE OwnInv'
  BY <1>21 DEF PanicReaped
<1>22. ASSUME NEW t \in Tools, Raise(t) PROVE OwnInv'
  BY <1>22 DEF Raise
<1>23. ASSUME NEW t \in Tools, ExceptExited(t) PROVE OwnInv'
  BY <1>23 DEF ExceptExited
<1>24. ASSUME NEW t \in Tools, ExceptQuit(t) PROVE OwnInv'
  <2>1. \A u \in Tools : Answers(t, u) /\ (OneDirectory(t) \/ OneDirectory(u)) => u = t
    BY <1>24, OwnAnswer DEF ExceptQuit, OwnInv, Spawned, Restore, Reaping
  <2> QED
    BY <1>24, <2>1 DEF ExceptQuit, Rule
<1>25. ASSUME NEW t \in Tools, ExceptTerminate(t) PROVE OwnInv'
  BY <1>25 DEF ExceptTerminate, Rule
<1>26. ASSUME NEW t \in Tools, Reaped(t) PROVE OwnInv'
  BY <1>26 DEF Reaped
<1>27. ASSUME NEW t \in Tools, ReapKill(t) PROVE OwnInv'
  BY <1>27 DEF ReapKill, Rule
<1>28. ASSUME NEW t \in Tools, Bind(t) PROVE OwnInv'
  BY <1>28 DEF Bind, Files
<1>29. ASSUME NEW t \in Tools, Load(t) PROVE OwnInv'
  BY <1>29 DEF Load, Files
<1>30. ASSUME NEW t \in Tools, Exit(t) PROVE OwnInv'
  BY <1>30 DEF Exit, Files
<1>31. CASE UNCHANGED vars
  BY <1>31
<1> QED
  BY <1>1, <1>2, <1>3, <1>4, <1>5, <1>6, <1>7, <1>8, <1>9, <1>10, <1>11, <1>12, <1>13, <1>14, <1>15, <1>16, <1>17, <1>18, <1>19, <1>20, <1>21, <1>22, <1>23, <1>24, <1>25, <1>26, <1>27, <1>28, <1>29, <1>30, <1>31 DEF Next, Tool

LEMMA OwnAlways == Spec => []OwnInv
<1>1. OwnInv /\ [Next]_vars => OwnInv'
  BY OwnStep
<1> QED
  BY <1>1, OwnInit, PTL DEF Spec

\* Restores of one checkpoint never command each other's QEMU, however their
\* steps interleave and whatever tags they are given.
THEOREM CommandsOwnChildOnly == Spec => []OwnChildOnly
<1>1. OwnInv => OwnChildOnly
  BY DEF OwnInv
<1> QED
  BY <1>1, OwnAlways, PTL

\* Their reports of an exact PC are about their own guests.
THEOREM ReportIsTrue == Spec => []ReportTrue
<1>1. OwnInv => ReportTrue
  BY DEF OwnInv
<1> QED
  BY <1>1, OwnAlways, PTL

\* No guest executes before its PC is verified, nor at all under --leave-paused.
THEOREM GuestIsHeld == Spec => []HeldUntilResume
<1>1. OwnInv => HeldUntilResume
  BY DEF OwnInv
<1> QED
  BY <1>1, OwnAlways, PTL

\* A guest left paused has its block nodes active.
THEOREM LeftPausedIsActive == Spec => []LeftPausedActive
<1>1. OwnInv => LeftPausedActive
  BY DEF OwnInv
<1> QED
  BY <1>1, OwnAlways, PTL
=============================================================================
