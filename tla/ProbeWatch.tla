----------------------------- MODULE ProbeWatch -----------------------------
(***************************************************************************)
(* tools/re/probe_watch.py, a process of its own, and the event files of   *)
(* the LLDB script it watches.  The two share only a directory:            *)
(*   "iokit"  display_iokit_callbacks.py keeps pending.N.json per open     *)
(*            call, and its return callback removes pending.N.json, then   *)
(*            claimed.N.json, and then writes returned.N.json;             *)
(*   "trace"  springboard_startup_trace_callbacks.py keeps the deepest of  *)
(*            the nested open calls in the one file pending.trace.json,    *)
(*            and pending.wait.N.json for each wait.                       *)
(* The watcher reads a record, renames its file to claimed.N.json, waits a *)
(* moment for a return callback under way, and looks again.                *)
(***************************************************************************)
EXTENDS Integers

CONSTANT MaxCall       \* bound on the calls of a run

ASSUME WatchAssumption == MaxCall \in Nat \ {0}

Calls == 1..MaxCall

VARIABLES
    producer,  \* "iokit" or "trace"
    call,      \* call -> "idle", "open", "stuck" (never returns), "r0", "r1", "r2"
               \* (inside the return callback), "done"
    waits,     \* the calls that are waits of the trace
    pending,   \* the calls with a pending record (trace: waits and one other)
    overdue,   \* those whose record is --pending-secs old
    claimed,   \* claimed.N.json files
    returned,  \* returned.N.json files
    pc,        \* the watcher: "scan", "claim", "wait", "stop", "stopped", "expired"
    pick,      \* the call of the record it goes for
    stopFile   \* 0, the call a stop is requested for, or -1 for a matched log line

vars == <<producer, call, waits, pending, overdue, claimed, returned, pc, pick, stopFile>>
scriptVars == <<producer, call, waits>>
watcherVars == <<pc, pick, stopFile>>

TypeOK ==
    /\ producer \in {"iokit", "trace"}
    /\ call \in [Calls -> {"idle", "open", "stuck", "r0", "r1", "r2", "done"}]
    /\ waits \subseteq Calls
    /\ pending \subseteq Calls /\ overdue \subseteq pending
    /\ claimed \subseteq Calls /\ returned \subseteq Calls
    /\ pc \in {"scan", "claim", "wait", "stop", "stopped", "expired"}
    /\ pick \in Calls \cup {0} /\ stopFile \in Calls \cup {0, -1}
    /\ pc \in {"claim", "wait", "stop"} => pick \in Calls

Init ==
    /\ producer \in {"iokit", "trace"}
    /\ call = [c \in Calls |-> "idle"]
    /\ waits = {} /\ pending = {} /\ overdue = {} /\ claimed = {} /\ returned = {}
    /\ pc = "scan" /\ pick = 0 /\ stopFile = 0

-----------------------------------------------------------------------------
(* The script.  Its callbacks run while the guest is stopped, one at a time, *)
(* but not atomically for the watcher.                                       *)

Active == {c \in Calls : call[c] \in {"open", "stuck"}}
NoCallback == \A c \in Calls : call[c] \notin {"r0", "r1", "r2"}

\* The file of a call is its own, or pending.trace.json.
OwnFile(c) == producer = "iokit" \/ c \in waits
Deepest(S) == {c \in S : \A b \in S : b <= c}

\* _refresh_pending: one record, of the deepest of these calls, with a new time.
Refresh(S) ==
    /\ pending' = (pending \cap waits) \cup Deepest(S \ waits)
    /\ overdue' = overdue \cap waits

\* _plant_return, on_call of a nested call of the traced thread, or
\* on_wait_primitive, which writes the record of the wait.
EnterCall(c) ==
    /\ NoCallback /\ call[c] = "idle" /\ \A b \in Calls : b < c => call[b] # "idle"
    /\ producer = "trace" => \A b \in Active : call[b] = "open"
    /\ call' = [call EXCEPT ![c] = "open"]
    /\ \/ /\ producer = "iokit" /\ pending' = pending \cup {c}
          /\ UNCHANGED <<waits, overdue>>
       \/ producer = "trace" /\ Refresh(Active \cup {c}) /\ UNCHANGED waits
       \/ /\ producer = "trace" /\ pending' = pending \cup {c} /\ waits' = waits \cup {c}
          /\ UNCHANGED overdue
    /\ UNCHANGED <<producer, claimed, returned, watcherVars>>

\* An Objective-C dispatch or a dynamic target inside the deepest call.
Progress ==
    /\ producer = "trace" /\ NoCallback /\ Active # {} /\ \A b \in Active : call[b] = "open"
    /\ Refresh(Active)
    /\ UNCHANGED <<scriptVars, claimed, returned, watcherVars>>

\* The guest is back from the call: on_return (on_wait_return) begins to report.
ReturnBegins(c) ==
    /\ NoCallback /\ call[c] = "open"
    /\ producer = "trace" => c \in Deepest(Active)
    /\ call' = [call EXCEPT ![c] = "r0"]
    /\ UNCHANGED <<producer, waits, pending, overdue, claimed, returned, watcherVars>>

\* Its pending record is removed, or rewritten for the call around it.
ReturnRemoves(c) ==
    /\ call[c] = "r0"
    /\ call' = [call EXCEPT ![c] = "r1"]
    /\ IF OwnFile(c) THEN pending' = pending \ {c} /\ overdue' = overdue \ {c}
                     ELSE Refresh(Active)
    /\ UNCHANGED <<producer, waits, claimed, returned, watcherVars>>

\* display_iokit revokes a claim of the record.
ReturnRevokes(c) ==
    /\ producer = "iokit" /\ call[c] = "r1"
    /\ call' = [call EXCEPT ![c] = "r2"]
    /\ claimed' = claimed \ {c}
    /\ UNCHANGED <<producer, waits, pending, overdue, returned, watcherVars>>

\* The durable return record.
ReturnRecords(c) ==
    /\ call[c] = IF producer = "iokit" THEN "r2" ELSE "r1"
    /\ call' = [call EXCEPT ![c] = "done"]
    /\ returned' = returned \cup {c}
    /\ UNCHANGED <<producer, waits, pending, overdue, claimed, watcherVars>>

\* The guest never returns from the call; nested calls of the thread are over.
Hang(c) ==
    /\ call[c] = "open" /\ (producer = "trace" => c \in Deepest(Active))
    /\ call' = [call EXCEPT ![c] = "stuck"]
    /\ UNCHANGED <<producer, waits, pending, overdue, claimed, returned, watcherVars>>

\* --pending-secs pass.
Age(c) ==
    /\ c \in pending \ overdue
    /\ overdue' = overdue \cup {c}
    /\ UNCHANGED <<scriptVars, pending, claimed, returned, watcherVars>>

-----------------------------------------------------------------------------
(* The watcher: one round of main's loop. *)

\* The oldest overdue record.  (The record of a nested call has the time of its
\* last refresh, so that of the trace may be younger than that of a wait.)
Scan ==
    /\ pc = "scan" /\ pc' = "claim"
    /\ \E c \in overdue :
          /\ producer = "iokit" => \A b \in overdue : c <= b
          /\ pick' = c
    /\ UNCHANGED <<scriptVars, pending, overdue, claimed, returned, stopFile>>

\* os.replace: fails when there is no such file; pending.trace.json is taken
\* whatever call it is about by now.
ClaimedFileMutant == pending
ClaimedFile == IF OwnFile(pick) THEN pending \cap {pick} ELSE pending \ waits

Claim ==
    /\ pc = "claim"
    /\ IF ClaimedFile = {}
       THEN pc' = "scan" /\ UNCHANGED <<pending, overdue, claimed>>
       ELSE /\ pending' = pending \ ClaimedFile /\ overdue' = overdue \ ClaimedFile
            /\ claimed' = claimed \cup {pick}
            /\ pc' = "wait"
    /\ UNCHANGED <<scriptVars, returned, pick, stopFile>>

\* After the polling quantum.
RevokedMutant(c) == c \in returned
Revoked(c) == c \in returned \/ c \notin claimed

Decide ==
    /\ pc = "wait"
    /\ IF Revoked(pick)
       THEN pc' = "scan" /\ claimed' = claimed \ {pick}
       ELSE pc' = "stop" /\ UNCHANGED claimed
    /\ UNCHANGED <<scriptVars, pending, overdue, returned, pick, stopFile>>

\* write_stop: a temporary file, fsync and one rename.
WriteStop ==
    /\ pc = "stop"
    /\ stopFile' = pick /\ pc' = "stopped"
    /\ UNCHANGED <<scriptVars, pending, overdue, claimed, returned, pick>>

\* A line of a followed log matches (-1 stands for its reason).
LogMatches ==
    /\ pc = "scan"
    /\ stopFile' = -1 /\ pc' = "stopped"
    /\ UNCHANGED <<scriptVars, pending, overdue, claimed, returned, pick>>

\* --max-secs, looked at after the overdue records.
Expire ==
    /\ pc = "scan" /\ overdue = {}
    /\ pc' = "expired"
    /\ UNCHANGED <<scriptVars, pending, overdue, claimed, returned, pick, stopFile>>

-----------------------------------------------------------------------------
Callback(c) == ReturnRemoves(c) \/ ReturnRevokes(c) \/ ReturnRecords(c)
Watcher == Scan \/ Claim \/ Decide \/ WriteStop

Next ==
    \/ \E c \in Calls :
          EnterCall(c) \/ ReturnBegins(c) \/ Callback(c) \/ Hang(c) \/ Age(c)
    \/ Progress \/ Watcher \/ LogMatches \/ Expire

\* A callback that has begun comes to its end, the watcher keeps polling, and
\* time passes.
Fairness ==
    /\ WF_vars(Watcher)
    /\ \A c \in Calls : WF_vars(Callback(c)) /\ WF_vars(Age(c))

Spec == Init /\ [][Next]_vars /\ Fairness

-----------------------------------------------------------------------------
(* Correctness. *)

\* The calls as the promise sees them: the return of one is told when its claim is
\* revoked (iokit) or its return record is written (trace).
Phase == [c \in Calls |-> IF call[c] = "idle" THEN "idle"
                          ELSE IF call[c] \in {"open", "stuck"} THEN "open"
                          ELSE IF call[c] = "r0" THEN "back"
                          ELSE IF call[c] = "r1" THEN "gone" ELSE "told"]
Shared == {c \in Calls : call[c] # "idle" /\ ~OwnFile(c)}
Stage == IF pc = "wait" THEN "accused" ELSE IF pc = "stop" THEN "sure"
         ELSE IF stopFile > 0 THEN "stopped" ELSE "free"
Who == IF Stage = "free" THEN 0 ELSE pick

Alarm == INSTANCE StallAlarm WITH st <- Phase, shared <- Shared, stage <- Stage, who <- Who

\* The watcher and the script together keep the promise of StallAlarm.  For calls
\* with a record of their own it contains "if the return callback removed pending
\* first, this fails and no stop is requested" (probe_watch.py:137); under
\* pending.trace.json the claim may take the record of the call around, and only
\* the second look protects a call that is back.
KeepsPromise == Alarm!Spec

\* A call that hangs and has a record of its own, of display_iokit or a wait of the
\* trace, does end the probe: its record cannot be lost between the claims, the
\* revocations and the returns of other calls.
StallStopped ==
    \A c \in Calls : (call[c] = "stuck" /\ OwnFile(c)) ~> (pc \in {"stopped", "expired"})

\* Under the watcher's hands no such record of an open call is lost: it is pending,
\* or it is the one claim the watcher is about to judge.
RecordKept ==
    \A c \in Calls : call[c] \in {"open", "stuck"} /\ OwnFile(c) =>
        c \in pending \/ (c \in claimed /\ c = pick /\ pc \in {"wait", "stop", "stopped"})

=============================================================================
