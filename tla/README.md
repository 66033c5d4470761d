# darwin-vm: TLA+ models, model checking and proofs

darwin-vm boots an iOS userland in a patched QEMU. What this repository itself
contributes is the tooling around that emulator: helpers that run inside the
guest, host tools that drive QEMU through its monitor and the guest through its
console, and builders that prepare disks, device trees and trust caches. QEMU,
Apple's frameworks and launchd are outside it and appear here only as the
environment of that code.

## 1. Inventory

| Component | Code | State it keeps | Operations | What is hard | Correct means |
|---|---|---|---|---|---|
| Guest input helper | `tools/input/dvm_hid.c` | readiness, held contact, bounded operation queue, two virtual HID services | records D M U C P B W, dispatch, service loss, recovery, EOF | four threads, writes without the lock, full queue, crash and restart | the finger the event system sees is the one the host was told of |
| Power-source publisher | `tools/re/power_pv_service.c` | published source, percentage, retry generation and delay | publish, resync, retry, shutdown | powerd restarts between two calls, delayed blocks that are superseded, partial failure | ready is true, exactly one retry pending, nothing leaked |
| Checkpoint creation | `tools/create_checkpoint.py`, `tools/checkpoint_common.py` | output directory, stream, disk permission, manifest | stop, inspect, migrate, poll, quit, freeze, check, manifest | other invocations and operators on the same monitor, timeouts, QEMU exiting | stream, disk and PC of one manifest belong to one instant |
| Checkpoint restore | `tools/restore_checkpoint.py`, `tools/checkpoint_common.py` | output directory, child process, report | spawn, load, verify PC, activate disks, resume, report, reap | a child known by PID but commanded by path, exceptions anywhere | only the own child is commanded, none is left behind |
| Serial console client | `tools/serial.py`, `tools/hmp.py` | parts in the guest, attempt counters | handshake, witnessed lines, batches, retry, upload | dropped bytes, cut witnesses, late answers, repeated lines | a returned upload delivered the file |
| Host input relay and control | `tools/input/relay.py`, `dvm_input.c`, `bootstrap_helper.py`, `native_input.py`, `boot.py`, `tools/re/touch_bridge.py` | event queue, one pending packet, sequence number; a borrowed guest thread | enqueue with coalescing, send, acknowledge, time out; save, call, restore | late replies of a relay that is gone, half a line on the wire; other hits of the return address | every edge is forwarded, an acknowledged lift is the guest's; a borrowed thread is given back |
| Data-volume bootstrap | `tools/rootfs/data_seed_helper.c`, `bootstrap_data_volume.sh`, ... | volume content, completion marker | staged seeding | crash between stages | a marked volume is complete |
| Guest file installation | `tools/re/install_staged_helpers.py`, `install_graphics_probe.sh`, `guest_file_provision.py`, ... | child disk, QEMU, result | pin inputs, boot, run the installer, wait for its marker, quit, seal | QEMU dying before data is written back, a serial client that returns too early, failure at any step | a sealed disk holds every file |
| Warm-boot tools | `tools/warm_boot_probe.py`, `tools/re/smp_warm_probe.py`, `observe_warm_boot.py`, ... | owned or resumed VM, read position, report | launch, poll the logs, judge, freeze, reap, report | lines in pieces, signals and failing monitors inside the finally block | the verdict is in the log, no VM is left running |
| Boot probes and watchers | `tools/re/probe_watch.py`, `tools/probe.sh`, ... | records of open calls as files, stop file | scan, claim by rename, wait, decide | the return that races the claim | a stop is requested for a call that has not returned, and for every call that hangs |
| LLDB tracers | `tools/re/*_callbacks.py`, `iomfb_calltrace.py`, `powerd_fault_trace.py` | breakpoint budgets, open calls by thread and address, dynamic breakpoints | entry, return, expansion, borrowed calls, continue | shared addresses, unreadable names, recursion, tail calls, late events | a report is what the guest did, limits hold, the guest is left as it was |
| Device tree, trust caches, root filesystem | `dt_fixup.py`, `build_tc.py`, `tools/rootfs/*` | files | sequential transformation | size arithmetic, ordering | output well formed |
| Launch scripts, offline analysis, guest probes, `hvf-probe` | `run.sh`, `tools/re/kmem.py`, ... | none of their own | one shot | - | - |

Interactions: `relay.py`/`native_input.py` write records to a UART that `dvm_hid.c` (or
`dvm_input.c`) reads; the LLDB scripts stop the same guest through QEMU's stub, and
write the records `probe_watch.py` judges; `create_checkpoint.py` produces the manifest,
stream and frozen disk `restore_checkpoint.py` and the warm-boot tools consume, all of
them over QEMU's monitor socket (`checkpoint_common.HMP`); `serial.py` carries helper
binaries into the restore ramdisk, where `data_seed_helper.c` seeds the volume that a
checkpoint later captures.

The hazards this leads to are listed, each at its line, in `PROJECT.json`.

## 2. Modules

| Module | Contents |
|---|---|
| `DvmHid` | `dvm_hid.c`: reader, worker, init thread, service callbacks, crash and restart |
| `MCDvmHid` | `DvmHid` with interchangeable epochs |
| `DvmHidProofs` | type correctness, `ContactAccounted` and `ReadyHasTouch` |
| `PowerPublisher` | `power_pv_service.c` with powerd and notifyd |
| `PowerPublisherProofs` | all its safety properties |
| `CheckpointCreate` | `create_checkpoint.py`, several invocations on one QEMU |
| `CheckpointCreateProofs` | all its properties |
| `CheckpointRestore` | `restore_checkpoint.py`, several invocations, a child each |
| `CheckpointRestoreProofs` | all its properties |
| `SerialUpload` | `serial.py upload` over an unreliable console |
| `SerialUploadProofs` | both its properties |
| `Lldb` | what the LLDB scripts share: threads, programs, names that may be unreadable, a guest a callback leaves stopped |
| `SiteTracers` | the scripts that record hits of fixed sites: budgets, filters by program, success events, stops |
| `ReturnTracers` | the scripts that pair an entry with a return, by thread, by program, or by a dictionary |
| `NativeCalls` | the scripts that borrow a guest thread: three power diagnostics, `touch_bridge.py`, `bootstrap_helper.py` |
| `SpringboardTrace` | `springboard_startup_trace_callbacks.py`: calls and waits of one thread, dynamic expansion |
| `DcpTrace` | `dcp_sm_dynamic_trace_callbacks.py`, `dcp_sm_machine_callbacks.py` |
| `IomfbTrace` | `iomfb_calltrace.py`, which runs its own LLDB session |
| `HostSks` | `host_sks_request_callbacks.py`, which debugs QEMU |
| `Tracers`, `MCTracers` | a session with one of these scripts; its instance |
| `TracersProofs` | all their safety properties |
| `ProbeWatch` | `probe_watch.py` against the callbacks of `display_iokit_callbacks.py` and of the SpringBoard trace |
| `StallAlarm` | the abstract specification `ProbeWatch` implements |
| `ProbeWatchProofs` | `RecordKept` and the refinement |
| `HostProgram` | the host program of a run |
| `Relay` | `relay.py` with `dvm_input.c` at the other end of the UART |
| `InstallHelpers` | `install_staged_helpers.py` with the installer it runs in the guest |
| `WarmProbe` | `warm_boot_probe.py`, `smp_warm_probe.py`, `observe_warm_boot.py` |
| `HostTools`, `HostToolsProofs` | one of these three programs; all their safety properties |

Operators named like a property's defect (`EnqueueUnbounded`, `UndoSourceOnly`,
`CheckPausedIgnored`, `RecoveryNone`, or simply `...Mutant`) are variants of the
definition that follows them, with a plausible error in it. No specification uses them:
each one documents an error that a property of the module catches.

### DvmHid

A step is what one thread does between two points at which another can
interfere: a critical section of `lock`, or one unlocked write. `handle()` is
one action per record kind, under the lock for the whole of the record, except
for its second, unlocked read of `state`, which `SecondRead` lets differ from the
first when a callback writes in between. `queue_op` refuses operations beyond
`OpQueue` one by one (`Enqueue`), the worker takes an operation, releases the
lock and posts it (`WorkerTakes`, `WorkerPosts`), and after two failures, or when
a callback asked for it, empties the queue, releases the lock and rebuilds the
services (`WorkerDiscards` to `RecoverEnds`). `cb_notify` writes `state` first and
takes the lock later (`NotifyWrites`, `NotifyLocks`); it may come as soon as the
client of a service exists, before `create_service` has stored the pointer
(`InitOpens`, `InitCreates`). At EOF the process leaves
without waiting for the worker (`ReaderEof`, `Exit`); launchd starts another one
(`Restart`). `contact` is what the event system has seen. `loss` is a history
variable: none, an operation refused, or one failed or discarded.

Not in it: coordinates, timestamps, the console's text, `--validate`.

### PowerPublisher

All handlers run on one serial queue, so only powerd, notifyd and other power
sources interleave, between two calls of one handler: `publish_source` is one
action per call (`Create`, `SetDetails`, `VerifyPublication`, `PublishPercent`,
`Undo`, `Fail`). A delayed retry is the generation that its block captured; a
resync and shutdown are actions of their own, as are the three stages of
`main()`. Any call may fail, `MaxFaults` times in all; powerd may restart
(`PowerdRestarts`) and forget every source, and a foreign source may come and go.

### CheckpointCreate and CheckpointRestore

Both are scripts whose commands go to a QEMU that others can command as well:
one action per monitor command, file operation or poll, and per early exit. The
guest is the number of instants it has run, so that "the stream, the disk and
the PC belong together" is an equation. The second read of a status, the check
that a path exists before another process creates it, and every timeout are
separate from the step that relies on them. `Raise` stands for any exception the
`try` block can meet; `Abandon` for what ends the process outside of it.
`restore_argv` and the witnesses in the acceptance part of the report are
abstracted. In `CheckpointCreate` the operator may resume the guest at any time, also
under the hands of an invocation (`OperatorResumes`; `resumed` remembers whose), and a
tag stands for an output directory (`--out` or the default). In `CheckpointRestore` an
invocation has a manifest, a tag and an output directory, which `--out` may name; the
socket paths belong to the tag.

### SerialUpload

`Script` lists the calls of `checked()` and `checked_batch()` that `upload()` makes. A
call goes through `Handshake`, `PromptSeen` (which also drains and sends), and
`Witnessed` or `WitnessMissing`; `PromptMissing` is the branch that goes on without
Ctrl-C. Reads discard what they have read, so a late witness answers whichever wait is
open when it comes in. The shell executes lines in order (`LineRuns`); the UART may
corrupt a payload (`LineGarbled`), drop bytes of a path so that the line runs on a wrong
one and may print its witness all the same (`LineStrays`, with what each of the lines
then does; `strayed` remembers them), or lose a line or its end (`LineLost`), after
which the shell swallows input until a Ctrl-C, which in turn flushes what was typed
before it (`Interrupt`). `Init` includes files that an earlier, longer upload left
behind. Checksums are assumed not to collide, no two lines lose the same characters of
the same path, and the two lines that test the size and the checksum do not become true
by losing characters.

### The LLDB scripts (Lldb to Tracers)

A callback runs while the vCPU is stopped, so one hit of a breakpoint is one
action; the guest decides which thread executes which address next. What the
scripts must get right is that addresses of the shared cache, return addresses
and kernel functions are executed by every program and thread, that the name of
the program is read through three guest pointers and may be unreadable
(`Names`), and that budgets are small.

* `SiteTracers` has one operator per script (`BksHit`, `SurfaceHit`, `PowerdHit`,
  ...) with its own order of filter, count, record and stop, and the table of the
  sites it plants with the programs each is meant for (`setup_scene` plants a set per
  launch of Setup: `LaunchSite`). `met` is the history of what the
  guest did at the sites, `log` and `ev` what the script recorded.
* `ReturnTracers` has a stack of open calls per thread (the guest) and the records
  of the script, one entry and one return operator per script. `ByName` are the
  scripts that can only tell programs apart; for them nothing is promised about
  two threads of one program. `lsd_ipc_trace_callbacks.py` is there twice: with a thread
  group (`"lsd"`), and in its default mode, where it reads the program's name at the entry
  and at the return (`"lsdname"`); `misread` says that it once could not.
* `NativeCalls` has the thread's registers and stack bytes, and what the native
  functions leave in the guest: tokens, arrays, mappings, port rights. A call returns
  when its thread arrives at the boundary with the stack pointer of the call; every
  other arrival is a foreign one. Writing the registers or the stack bytes back may
  fail: the callback raises, the guest stays stopped with the call open (`Raises`).
  `faulted` remembers a `notify_cancel` that failed, or an array whose slot could not be
  read: the scripts do not look, and something is left in the guest. `GesturePlan` and
  `SpawnPlan` are the lists of native calls of the touch bridge and the bootstrap,
  reduced to what each adds or gives back.
* `SpringboardTrace` follows one thread through planted calls, expansion of known
  ranges and of dynamic targets, `objc_msgSend`, and waits; a wait of libdispatch may be
  in one of the traps of the same table (`MayNest`). `pendingTrace` is the file
  `pending.trace.json`.
* `DcpTrace` has the kernel's call stack per thread, the pending returns, and the
  three limits. The dynamic trace follows its origin only on one vCPU: each hit of the
  thread finds it there or not (`here`). `moved` says that a script has lost sight of a
  call: the origin went to another thread, or made a call or a return on another vCPU,
  while returns were pending; or a thread entered stage 2, or a bracketed helper, again
  inside it (`Reenters`).
* `IomfbTrace` has the guest's state, LLDB's view of it and the listener queue
  apart, since the point of `continue_guest` is that they differ. LLDB may take the guest
  for crashed, and `Detach` may fail.
* `HostSks` is the request callback with its approval file.

### ProbeWatch and StallAlarm

The pending and claimed records are files; the watcher's scan, claim (`os.replace`),
wait and decision are one action each, and so are the removal, the revocation and
the return record of the callback. For `display_iokit_callbacks.py` every call has its
file; the SpringBoard trace rewrites one file with its deepest call, with a new time
also when something happens inside that call (`Progress`), and has a file per wait
(`OwnFile`). A claim of the one file may take the record of another call than the one
scanned. The stop file is written in a step of its own (`WriteStop`).

`StallAlarm` says what the pair promises. A call is open, back (the guest has returned
and the return callback begins), gone (its record is removed) or told (its claim is
revoked, or its return record is there). A call with a record of its own can be accused
only before its record is gone; one under the shared file at any time. It is condemned
only if it is not told when the watcher looks again; then it is stopped for, whatever it
does meanwhile. `KeepsPromise` is `Alarm!Spec` with these phases mapped from the
callbacks' program counters and the watcher's.

### Relay, InstallHelpers and WarmProbe

`Relay` is a sequence of relays on one UART: a relay may be killed at any point, also in
the middle of a packet, and the next one starts with what is on the wire and in the
reply direction. The guest's loop (`GuestLine`) reads lines, ignores what it cannot
parse, acts and replies; it keeps the contact and the Recap stream of an unfinished R
gesture (`stream`, `StreamAfter`). `InstallHelpers` is `main()` step by step, the
guest's installer with its page cache (`stored` is what has reached the child disk), and
QEMU, which may die; `retain_failure` may itself raise (`RetainRaises`). `WarmProbe` is
the loop and the nested `finally` blocks of the three probes; they differ in what they
do before the report, in whom they reap and in what they make of a marker. Every log
line is three bytes long, the halves of its marker and its end, so that it can be read
in pieces; `tail` is the buffer `pending`. A line may be an error of TXM, which only
`warm_boot_probe.py` skips. A probe that a signal or a failed write takes out of its
`finally` block ends in `"cut"`.

## 3. Runs

| Run | Bounds | Checks |
|---|---|---|
| `hid_contact` | queue of 1, two epochs, one callback in flight | `TypeOK`, `ContactAccounted`, `ReadyHasTouch`, `LossRebuilt`, `LossAnnounced` |
| `power` | 2 faults, 2 restarts, retry generations to 6 | `RetryArmed`, `RetrySuperseded`, `ReadyIsListed`, `PercentBacked`, `NoLeakedSource`, `Recovers` |
| `create` | 3 invocations, 2 tags, instants 0 to 2 | `ManifestSound`, `FrozenAfterExit`, `OneManifest`, `StreamKept` |
| `restore` | 2 invocations, 1 manifest, 2 tags, 1 `--out` directory | `OwnChildOnly`, `NoChildLeft`, `ReportTrue`, `HeldUntilResume`, `LeftPausedActive` |
| `serial` | 3 parts in batches of 2, the code's 3 and 8 attempts, 3 faults | `Delivered`, `OneFaultRecovers` |
| `tracers` | seven threads of five programs, 40 kinds of session, budgets of 1 or 2, call depth 2 to 3, two waits | `TargetSeen`, `EvidenceTrue`, `UnreturnedIsOpen`, `BorrowedReturned`, `StallNamed`, `DcpBounded`, `DcpPaired`, `NeverLeftStopped`, `OverrideExact` |
| `watch` | 3 calls, both scripts | `RecordKept`, `KeepsPromise`, `StallStopped` |
| `host` | relay: queue of 2, 3 states, 2 relays, Recap streams of 2 points; install: 3 files; probes: 2 log lines of 3 bytes | `EdgesKept`, `FingerLifted`, `PacketReaches`, `InstallSettled`, `WarmSettled`, `VerdictTrue` |
| `hid_stacked`, `hid_stale`, `hid_forgotten`, `restore_same_tag` | as above; two manifests for the last | one statement of the repository each, which does not hold (section 6) |

Why the bounds are enough to be interesting. One record can ask for three operations, so
a queue of 1 is full, and refuses some but not all of them, within one record, while the
worker holds another; a second epoch makes the epoch change that lifts a contact happen.
With two faults and two restarts powerd can restart during the repair of the first
restart, and a call can fail in both. Three invocations with two tags give a collision
on a tag and a third party at the same time. Two restores are what sharing a path takes,
and one `--out` directory beside the default ones lets them share a tag and not a
directory. Three faults in an upload allow a late answer, a corrupted repetition behind
it and one further error; the attempt limits are the code's own. For the tracers, two
threads of the target program and one of another are what it takes to confuse a return,
a budget of 2 to use it up before the target comes, and a depth of 2 to recurse; four
events fill the listener queue with a stop, a resume and a second stop behind them.
Three calls let the watcher hold the claim of one while a second returns and a third
enters. Two relays are one that is cut off and one that must cope; three states are a
press, a motion that may be coalesced, and a release. Two log lines are a milestone and
a failure, in either order and cut anywhere. Where there is a theorem (section 4) the
proof removes the bounds.

`CHECK_DEADLOCK FALSE` is set where the programs end: both checkpoint tools, an
upload, the publisher after SIGTERM, a debugger session whose budget is used up, the
watcher, and the three host programs. The input helper is always restarted, so
deadlock is checked there.

### Fairness

`hid_contact` and `hid_forgotten` assume weak fairness of the worker's own steps, of the
creation of services eventually succeeding (`RebuildSucceeds`: the worker retries it in
a loop, and without it no recovery can be promised), of a callback that waits for
`lock`, which is a mutex nobody holds for ever, and of launchd's restart (the job is
`KeepAlive`). Nothing is assumed of the host, the reader or the event system. `power`
assumes weak fairness of the work on the serial queue, which GCD runs while the process
lives; a delayed block fires because its timer does. `watch` assumes weak fairness of
the watcher's steps, a loop with a sleep in a process nobody stops, of a callback that
has begun, which LLDB runs to its end, and of time passing (`Age`); nothing is assumed
of the guest: a call may stay open for ever.

## 4. Proofs

TLAPS checks every theorem for all values of the constants, from the named
assumptions of the component's module (capacities are naturals, model values
are distinct from what they stand beside).

* **DvmHid.** `TypeCorrect`: `TypeOK` alone is not inductive, since two failures in
  a row are reached only on the way to the recovery that resets them
  (`FailuresBounded`). `ContactIsAccounted`: the inductive invariant says that some
  sequence of finger states fits the pending operations, from the contact the
  event system has to the one the reader holds; lemmas show that
  appending what `handle()` asks for (`EnqueueFits`), taking the first operation
  (`FitsTail`) and posting it keep such a sequence. `ReadyAlwaysHasTouch`: until the
  init thread has tried to create the touch service nothing else can have begun
  (`NotBegun`, `InitOpens` being that point), and later its pointer is NULL only during a
  rebuild or after a failed initialisation that never publishes R (`NullTouch`).
* **PowerPublisher.** `Inv` = `TypeOK`, what a handler finds when it starts and
  holds on the way (`Handler`), the generations of pending timers (`Timers`), what
  powerd knows (`Powerd`) and who owns the percentage (`PercentHeld`). One lemma
  per action shows that it keeps all of them. `RetryArmed`, `RetrySuperseded`,
  `ReadyIsListed`, `PercentBacked` and `NoLeakedSource` follow.
* **CheckpointCreate.** `IInv`: a directory has one owner (`Directories`), a stream is
  begun once and only the active one is unfinished (`Streams`), the guest keeps its
  instant while an invocation has seen it paused and nobody has resumed it (`GuestHeld`,
  `Holds`), and what the last steps rely on (`Endings`). These give `ManifestSound`,
  `FrozenAfterExit`, `OneManifest` and the action property `StreamKept`.
* **CheckpointRestore.** `NoChildIsLeft` and `RestoreTypeCorrect` hold without
  condition (`ReapInv`: an exited child stays exited). The other four speak of tags with
  one output directory (`OneDirectory`), for any manifests, tags and `--out`: there the
  directory that `mkdir` creates exclusively makes the tag, and with it the socket path,
  belong to one invocation (`Ownership`, `Knowledge`). The condition is a part of the
  properties and not an assumption on the constants, so the proof also shows that a tag
  with one directory is not disturbed by the tags around it. Without it they fail; see
  `restore_same_tag`.
* **SerialUpload.** `UploadDelivers`: lines are sorted on the wire by the order in which
  `upload()` sends their kinds, and behind a witness that was printed no line of an
  earlier kind can be waiting (`UploadInv`). So what a witness attests stays true, however
  late it is read and however often its line was sent again: a target whose checksum
  matched is not decoded again, a directory that was removed is not created again. A line
  that went astray weakens nothing here: what it should have done is attested by no later
  witness, and the size and checksum lines are about the target itself.
  `OneFaultIsSurvived` is proved under `Retries`: the file is not empty, and every call
  has a second attempt (the code gives 3 and 8; two are enough); the property itself is
  void once a line went astray. `RecoverInv` says that
  every line of an earlier call will have had its effect when the wire has run out
  (`Kept`: it is on the wire behind any Ctrl-C, or it has run and no earlier kind is
  left to undo it), and that the upload is in one of three states: no fault yet
  (`Calm`, each line at most once on the wire), a line of this call damaged (`Struck`),
  or the second attempt or a later call (`Mending`, where what is waited for will come).
  A line that finds the effects of the earlier kinds prints its witness (`RunAnswers`),
  and the one Ctrl-C flushes only lines of the call that sends them again (`CtrlCSent`).
  Without `NParts > 0` it is false: see section 5.
* **ProbeWatch.** A pending record is of a call that is open or whose callback has just
  begun, the return record of a call is there exactly when its callback is done, and a
  claim of an iokit call does not outlive its revocation (`FilesTrue`); the watcher picks
  calls that were entered and stops once (`WatcherTrue`). With `RecordKept` this is
  inductive, and it gives `WatchKeepsPromise`: every step of the watcher and the
  callbacks is a step of `StallAlarm` or leaves its variables alone. The hard steps are
  `Claim`, where a record of the call's own means that its return has not removed it, and
  `Decide`, where a claim that is still there, without a return record, means that the
  return is not told.
* **HostTools.** `RelayInv`: no number on the wire or in a reply is newer than the
  relay's own (`Numbers`), so the packet in flight is the last line on the wire, newer
  than every reply, or it has been answered and the wire is empty (`InFlight`); a lift,
  of the contact or of the Recap stream, is that packet, or done (`Lift`). `EdgeInv`:
  forwarded records stand in the order of the file and end with the latest state, and a
  queued record that `enqueue` may overwrite is not an edge (`Replaceable`), although
  whether it is one was decided against a state that may have been overwritten since.
  `WarmInv`: what is noted follows from the lines between `offset` and `got` (`LogInv`:
  what the probe holds back begins where a line does, or where it started), a verdict
  was given over what is noted (`JudgedInv`), and each place of the finally blocks says
  what may have become of the VM, and by which mishap (`VmInv`). `InstInv`: the marker
  follows the guest's sync, and the host passes the marker before it quits QEMU.
* **Tracers.** Each family changes only its own variables, so each invariant speaks of
  one module. `NatInv` says what the guest owes at each point of each kind of call
  (`Owes`, with the running sums of the two plans, `PlanSums`) and that only the call's
  thread is borrowed (`Lent`); a restore that raises keeps its call and ends the
  session. `IomfbInv` adds to `NeverLeftStopped` that GetState knows of a stopped guest
  and that nothing of a finished session can still act. `SksInv`: the override is unused
  whenever QEMU is frozen for an approval. `SitesInv`: a filtered site that its limit
  has disabled has its record. `UnreturnedInv` has a half for the scripts that watch a
  return address of a thread (`WatchedInv`: a watch belongs to an open call, a recorded
  call has its watch, and two calls of a thread share a return address only along a
  chain of tail calls) and one for those that keep a dictionary (`DictInv`: the entries
  of a thread are its open calls, one for one; by name, as long as no name was
  `misread`). `SbInv`: the active calls are the watched ones with a return record, only
  the traced thread's calls have numbers, and waits nest only as `MayNest` allows
  (`Agree`, `Records`, `WaitsNest`). `PairedInv`: the pending returns of a thread are
  the bracketed calls on its stack in their order, unless `moved`. `BoundInv`: the trace
  is stopped once the hops reach their limit.

Type correctness of the publisher and both checkpoint tools is proved and not
model-checked separately.

Only model-checked: the liveness properties (`LossRebuilt`, `LossAnnounced`,
`Recovers`, `StallStopped`), which are beyond the prover. Every safety property of the
passing runs is proved, `OneFaultRecovers` under `Retries`.

## 5. What the checks show

* As long as nothing is refused or fails, any interleaving of records, dispatch
  and callbacks keeps the event system's finger in step with the reader's, and
  contacts never stack. A service whose loss is registered before a rebuild is rebuilt
  and announced; a loss reported between the creation of the new services and the
  clearing of `need_recovery` (`dvm_hid.c:413`) is forgotten (`hid_forgotten`).
* The publisher is never silently stale, has exactly its current retry pending when
  it is not ready, and leaves nothing behind if powerd and notifyd obey. The
  exceptions in the properties are real: after `notify_set_state` succeeded and
  `notify_get_state` failed nobody withdraws the percentage, and a source that
  could not be released blocks `verify_publication` for good.
* Of any number of `create_checkpoint.py` runs on one QEMU at most one writes a
  manifest and what it says is true, unless a migration failed and another
  invocation's migration hid the failure from the poll, or somebody resumed the guest
  after the pause was checked (`create_checkpoint.py:100`), which is not looked at again.
* Restores do not disturb each other where all that use one tag ask for one output
  directory: the directory is created exclusively, the socket paths are made of the
  tag alone. The default directories of one manifest are such; another manifest, or
  `--out`, under the same tag is not (`restore_same_tag`).
* `upload` returns only when the guest holds exactly the file, even when witnesses of an
  earlier attempt are mistaken for the current one's, or a line ran on a damaged path:
  the parts may then be wrong when they are joined, and the final checksum is what
  catches it. One fault is survived if no line ran on a damaged path and it was not the
  last line's, where `rmdir` cannot be repeated. A damaged path is not: a part that went
  astray leaves the directory wrong at every further attempt to join. A second fault can
  leave the shell inside an open quote at a moment when only the branch without Ctrl-C
  is taken. An empty file can never be uploaded: it has no parts, and `cat` of the glob
  that matches nothing fails at every attempt (`serial.py:402`).
* What the LLDB scripts report is what happened, in spite of the threads and programs
  that share their addresses, with the exceptions the properties name:
  * a return that passes while the program name is unreadable or through a re-entered
    site (`springboard_startup_trace_callbacks.py:1065`), and in the default mode of
    `lsd_ipc_trace_callbacks.py`, which goes by the name, any call of a session in which
    the name was once unreadable (line 181);
  * in the `dcp_sm_*` traces, an origin that calls or returns on another vCPU
    (`dcp_sm_dynamic_trace_callbacks.py:267`) or has moved to another thread, and a
    thread that enters stage 2 or a bracketed helper again inside it, where the oldest
    pending return is taken (`dcp_sm_machine_callbacks.py:497`);
  * `iomfb_calltrace.py` leaves the guest running at its end unless LLDB takes it for
    crashed (line 819, which `continue_guest` at 778 does not resume) or `Detach` fails,
    which is swallowed (867 to 871).

  The breakpoint limit of `dcp_sm_dynamic` is passed by up to the sites of one function.
  A borrowed call gives back what it took unless a step of its plan or a restore raises,
  which leaves the guest stopped on borrowed registers, or `notify_cancel` fails or the slot
  of the array cannot be read, which the scripts do not look at.
* `probe_watch.py` claims a record before it waits and looks again after it. That is all
  that protects a call that is returning: one whose return callback outlasts the wait,
  or which returns between the second look and the stop, is still stopped for, and under
  `pending.trace.json` the claim may take the record of the caller of the call that was
  scanned. It always stops for a hanging call with a record of its own: a call of
  `display_iokit_callbacks.py`, or a wait of the SpringBoard trace. For the trace's
  other calls that is not promised: the one file is claimed for the deepest call only.
* A new relay copes with the bytes and the replies an earlier one left on the wire; a
  reply that comes late is not taken for its own because sequence numbers start at the
  clock. A half-filled Recap stream in `dvm_input.c` is another matter: it is joined to
  the next relay's R gesture, until an R lift has been acknowledged.
* `install_staged_helpers.py` seals a disk only when every file is on it. The order of
  its last lines (`success` is set before the result is written) can still report a
  success with the outcome of a failure if that write fails, and a failure inside
  `retain_failure` (line 215) leaves QEMU running.
* The warm-boot probes report what they read: `warm_boot_probe.py` skips the error lines
  of TXM, and `observe_warm_boot.py` calls a panic a "matched milestone" too. They leave
  no VM running if they reach their end and the monitor obeys. A VM is left running when
  SIGTERM ends `observe_warm_boot.py`, when a signal arrives outside `try` or inside
  `finally`, or when `smp_warm_probe.py` fails to write its result: "Always freeze the
  owned VM on exit" (`observe_warm_boot.py:4`) does not hold there. With `--keep-paused`
  and a monitor that fails, `kept_paused` is said of a VM that may be running, and
  `smp_warm_probe.py` reports a signal as its deadline.

## 6. Statements that do not hold

* `hid_stacked`: "never stack two contacts" (`dvm_hid.c:507`). A U refused by the
  full queue has already cleared `held`; a later D is posted onto the contact.
* `hid_stale`: "stale gestures die with the service" (`dvm_hid.c:439`). Between the
  emptying of the queue and the store of `I` the reader still accepts touches.
* `hid_forgotten`: "Rebuild them with fresh clients instead of staying dead"
  (`dvm_hid.c:396`). A callback that reports a new service closed before line 413 has
  its `need_recovery` cleared there, and R is announced over the closed service.
* `restore_same_tag`: "Reap only the exact child this invocation created"
  (`restore_checkpoint.py:376`). The exclusive directory is that of `--out`, or made of the
  manifest and the tag; `quit` goes to a path made of the tag alone.

A further one is kept as a hazard without a run: "The helper also releases on console
EOF" (`docs/re/native-input.md:106`). The lift is queued, but the process does not wait
for it to be posted.

## 7. Not modelled, and the plan

Next, in this order:

1. `DataSeed`: the stages of `data_seed_helper.c` and `bootstrap_data_volume.sh` with
   a crash between any two. Property: a volume with a completion marker is complete,
   and a run after a crash completes or refuses.
2. Pure operators, against reference definitions: `restore_argv`, the size
   arithmetic of `dt_fixup.py`, `merge_tc.py`, `oskcdata.py`.

Not modelled, and why:

* `native_input.py` and `boot.py` speak to QEMU's `darwin-input` device, whose source is a
  submodule that is not part of this repository; sequence numbers and epochs are kept
  there. The helper's side of that protocol is `DvmHid`.
* `guest_file_provision.py`, the `prepare_*` scripts, `decode_guest_file.py`,
  `bootstrap_profile.py`, `dt_fixup.py`, `build_tc.py` and the root filesystem builders
  transform files from beginning to end and keep no state between two steps.
* `surface_cache_probe.py` is an experiment that rewrites one argument at one address.
* Launch and download scripts (straight-line commands), guest probes and `hvf-probe`
  (their content is what frameworks and hardware answer), and offline parsers.
