-------------------------- MODULE ProbeWatchProofs --------------------------
(***************************************************************************)
(* The watcher and the script keep the promise of StallAlarm for any       *)
(* number of calls, and no record of an open call is lost.                 *)
(***************************************************************************)
EXTENDS ProbeWatch, TLAPS

\* What a record stands for: a call that is open; a claim that survived until
\* the watcher looks belongs to a call whose return has not revoked it.
FilesTrue ==
    /\ \A c \in pending : call[c] \in {"open", "stuck", "r0"}
    /\ \A c \in waits : call[c] # "idle"
    /\ \A c \in Calls : call[c] = "done" <=> c \in returned
    /\ producer = "iokit" => \A c \in claimed : call[c] \notin {"r2", "done"}
    /\ producer = "trace" => \A c \in Calls : call[c] # "r2"
    /\ \A c \in claimed : c = pick /\ pc \in {"wait", "stop", "stopped"}

\* The watcher goes for calls that were entered, and stops once.
WatcherTrue ==
    /\ pick # 0 => call[pick] # "idle"
    /\ pc \notin {"stopped"} => stopFile = 0
    /\ stopFile > 0 => stopFile = pick

Inv == TypeOK /\ FilesTrue /\ WatcherTrue /\ RecordKept

\* Initially there are no files and no calls.
LEMMA InitInv == Init => Inv
  BY WatchAssumption DEF Init, Inv, TypeOK, FilesTrue, WatcherTrue, RecordKept, Calls

\* The steps of the script preserve the invariant.
LEMMA ScriptInv ==
  ASSUME Inv, NEW c \in Calls,
         EnterCall(c) \/ ReturnBegins(c) \/ Callback(c) \/ Hang(c) \/ Age(c) \/ Progress
  PROVE  Inv'
  <1> USE WatchAssumption DEF Inv, Calls
  <1>1. CASE EnterCall(c)
    <2> USE <1>1 DEF EnterCall
    <2>1. pending' \subseteq pending \cup Active \cup {c} /\ overdue' \subseteq pending'
      BY DEF Refresh, Deepest, TypeOK
    <2>2. TypeOK'
      BY <2>1 DEF TypeOK, Active, watcherVars
    <2>3. FilesTrue'
      BY <2>1 DEF TypeOK, FilesTrue, Active, watcherVars
    <2>4. WatcherTrue'
      BY DEF TypeOK, WatcherTrue, watcherVars
    <2>5. RecordKept'
      <3>1. \A b \in Calls : b # c => (OwnFile(b)' <=> OwnFile(b)) /\ (OwnFile(b) /\ b \in pending => b \in pending')
        BY DEF OwnFile, Refresh
      <3>2. OwnFile(c)' => c \in pending'
        BY DEF OwnFile, FilesTrue
      <3> QED BY <3>1, <3>2 DEF TypeOK, RecordKept, watcherVars
    <2> QED BY <2>2, <2>3, <2>4, <2>5
  <1>2. CASE ReturnBegins(c)
    <2> USE <1>2 DEF ReturnBegins
    <2>1. TypeOK'
      BY DEF TypeOK, watcherVars
    <2>2. FilesTrue'
      BY DEF TypeOK, FilesTrue, watcherVars
    <2>3. WatcherTrue'
      BY DEF TypeOK, WatcherTrue, watcherVars
    <2>4. RecordKept'
      BY DEF TypeOK, RecordKept, OwnFile, watcherVars
    <2> QED BY <2>1, <2>2, <2>3, <2>4
  <1>7. CASE ReturnRemoves(c)
    <2> USE <1>7 DEF ReturnRemoves
    <2>1. /\ pending' \subseteq (pending \cup Active) /\ c \notin pending'
          /\ overdue' \subseteq pending'
      BY DEF Refresh, Deepest, TypeOK, Active, OwnFile
    <2>2. TypeOK'
      BY <2>1 DEF TypeOK, Active, watcherVars
    <2>3. FilesTrue'
      BY <2>1 DEF TypeOK, FilesTrue, Active, watcherVars
    <2>4. WatcherTrue'
      BY DEF TypeOK, WatcherTrue, watcherVars
    <2>5. RecordKept'
      <3>1. \A b \in Calls : b # c /\ OwnFile(b) /\ b \in pending => b \in pending'
        BY DEF OwnFile, Refresh
      <3> QED BY <3>1 DEF TypeOK, RecordKept, OwnFile, watcherVars
    <2> QED BY <2>2, <2>3, <2>4, <2>5
  <1>3. CASE ReturnRevokes(c)
    <2> USE <1>3 DEF ReturnRevokes
    <2>1. TypeOK'
      BY DEF TypeOK, watcherVars
    <2>2. FilesTrue'
      BY DEF TypeOK, FilesTrue, watcherVars
    <2>3. WatcherTrue'
      BY DEF TypeOK, WatcherTrue, watcherVars
    <2>4. RecordKept'
      BY DEF TypeOK, RecordKept, OwnFile, watcherVars
    <2> QED BY <2>1, <2>2, <2>3, <2>4
  <1>4. CASE ReturnRecords(c)
    <2> USE <1>4 DEF ReturnRecords
    <2>1. TypeOK'
      BY DEF TypeOK, watcherVars
    <2>2. FilesTrue'
      BY DEF TypeOK, FilesTrue, watcherVars
    <2>3. WatcherTrue'
      BY DEF TypeOK, WatcherTrue, watcherVars
    <2>4. RecordKept'
      BY DEF TypeOK, RecordKept, OwnFile, watcherVars
    <2> QED BY <2>1, <2>2, <2>3, <2>4
  <1>5. CASE Hang(c)
    <2> USE <1>5 DEF Hang
    <2>1. TypeOK'
      BY DEF TypeOK, watcherVars
    <2>2. FilesTrue'
      BY DEF TypeOK, FilesTrue, watcherVars
    <2>3. WatcherTrue'
      BY DEF TypeOK, WatcherTrue, watcherVars
    <2>4. RecordKept'
      BY DEF TypeOK, RecordKept, OwnFile, watcherVars
    <2> QED BY <2>1, <2>2, <2>3, <2>4
  <1>6. CASE Age(c)
    BY <1>6 DEF Age, TypeOK, FilesTrue, WatcherTrue, RecordKept, OwnFile, watcherVars, scriptVars
  <1>8. CASE Progress
    <2> USE <1>8 DEF Progress
    <2>1. pending' \subseteq pending \cup Active /\ overdue' \subseteq pending'
      BY DEF Refresh, Deepest, TypeOK
    <2>2. TypeOK' /\ WatcherTrue'
      BY <2>1 DEF TypeOK, WatcherTrue, Active, scriptVars, watcherVars
    <2>3. FilesTrue'
      BY <2>1 DEF TypeOK, FilesTrue, Active, scriptVars, watcherVars
    <2>4. RecordKept'
      BY DEF RecordKept, OwnFile, Refresh, scriptVars, watcherVars
    <2> QED BY <2>2, <2>3, <2>4
  <1> QED BY <1>1, <1>2, <1>3, <1>4, <1>5, <1>6, <1>7, <1>8 DEF Callback

\* The steps of the watcher preserve the invariant.
LEMMA WatcherInv ==
  ASSUME Inv, Watcher \/ LogMatches \/ Expire
  PROVE  Inv'
  <1> USE WatchAssumption DEF Inv, Calls
  <1>1. CASE Scan
    BY <1>1 DEF Scan, TypeOK, FilesTrue, WatcherTrue, RecordKept, OwnFile, scriptVars
  <1>2. CASE Claim
    <2> USE <1>2 DEF Claim
    <2>1. /\ ClaimedFile \subseteq pending
          /\ \A b \in ClaimedFile : OwnFile(b) => b = pick
          /\ OwnFile(pick) => ClaimedFile \subseteq {pick}
      BY DEF ClaimedFile, OwnFile, TypeOK
    <2>2. TypeOK'
      BY <2>1 DEF TypeOK, scriptVars
    <2>3. FilesTrue'
      <3>1. CASE ClaimedFile = {}
        BY <3>1 DEF TypeOK, FilesTrue, scriptVars
      <3>2. CASE ClaimedFile # {}
        <4>1. producer = "iokit" => pick \in pending
          BY <3>2, <2>1 DEF OwnFile
        <4> QED BY <3>2, <4>1 DEF TypeOK, FilesTrue, scriptVars
      <3> QED BY <3>1, <3>2
    <2>4. WatcherTrue'
      BY DEF TypeOK, WatcherTrue, scriptVars
    <2>5. RecordKept'
      BY <2>1 DEF TypeOK, FilesTrue, RecordKept, OwnFile, scriptVars
    <2> QED BY <2>2, <2>3, <2>4, <2>5
  <1>3. CASE Decide
    <2> USE <1>3 DEF Decide
    <2>1. TypeOK'
      BY DEF TypeOK, scriptVars
    <2>2. FilesTrue'
      <3>1. CASE Revoked(pick)
        <4>1. claimed' = {}
          BY <3>1 DEF TypeOK, FilesTrue
        <4> QED BY <4>1 DEF TypeOK, FilesTrue, scriptVars
      <3>2. CASE ~Revoked(pick)
        BY <3>2 DEF TypeOK, FilesTrue, scriptVars
      <3> QED BY <3>1, <3>2
    <2>3. WatcherTrue'
      BY DEF TypeOK, WatcherTrue, scriptVars
    <2>4. RecordKept'
      BY DEF TypeOK, FilesTrue, RecordKept, OwnFile, Revoked, scriptVars
    <2> QED BY <2>1, <2>2, <2>3, <2>4
  <1>4. CASE WriteStop
    BY <1>4 DEF WriteStop, TypeOK, FilesTrue, WatcherTrue, RecordKept, OwnFile, scriptVars
  <1>5. CASE LogMatches
    BY <1>5 DEF LogMatches, TypeOK, FilesTrue, WatcherTrue, RecordKept, OwnFile, scriptVars
  <1>6. CASE Expire
    BY <1>6 DEF Expire, TypeOK, FilesTrue, WatcherTrue, RecordKept, OwnFile, scriptVars
  <1> QED BY <1>1, <1>2, <1>3, <1>4, <1>5, <1>6 DEF Watcher

\* Every step preserves the invariant.
LEMMA NextInv == Inv /\ [Next]_vars => Inv'
  <1> SUFFICES ASSUME Inv, [Next]_vars PROVE Inv'
    OBVIOUS
  <1>0. Calls # {}
    BY WatchAssumption DEF Calls
  <1>1. CASE Next
    BY <1>0, <1>1, ScriptInv, WatcherInv DEF Next
  <1>2. CASE UNCHANGED vars
    BY <1>2 DEF Inv, vars, TypeOK, FilesTrue, WatcherTrue, RecordKept, OwnFile
  <1> QED BY <1>1, <1>2

-----------------------------------------------------------------------------
\* Every reachable state has the invariant.
THEOREM WatchInvariant == Spec => []Inv
  BY InitInv, NextInv, PTL DEF Spec

\* The state of display_iokit and the watcher is always of its type.
THEOREM WatchTypeOK == Spec => []TypeOK
  BY WatchInvariant, PTL DEF Inv

\* probe_watch.py never loses the record of an open call of display_iokit, or of
\* an open wait of the trace.
THEOREM WatchRecordKept == Spec => []RecordKept
  BY WatchInvariant, PTL DEF Inv

-----------------------------------------------------------------------------
(* The refinement. *)

\* No call was entered and no stop requested.
LEMMA RefinesInit == Init => Alarm!Init
  BY DEF Init, Alarm!Init, Phase, Shared, Stage, Who

\* A step of the script is an entry, a part of a return, or nothing, for the
\* promise.
LEMMA ScriptRefines ==
  ASSUME Inv, NEW c \in Calls,
         EnterCall(c) \/ ReturnBegins(c) \/ Callback(c) \/ Hang(c) \/ Age(c) \/ Progress
  PROVE  Alarm!Next \/ UNCHANGED Alarm!vars
  <1> USE DEF Inv, TypeOK
  <1>0. Stage' = Stage /\ Who' = Who
    BY DEF EnterCall, ReturnBegins, Callback, ReturnRemoves, ReturnRevokes, ReturnRecords, Hang,
           Age, Progress, Stage, Who, watcherVars
  <1>1. CASE EnterCall(c)
    <2>1. Phase' = [Phase EXCEPT ![c] = "open"] /\ Phase[c] = "idle"
      BY <1>1 DEF EnterCall, Phase
    <2>2. Shared' = Shared \/ Shared' = Shared \cup {c}
      <3>1. \A b \in Calls : b # c => (b \in Shared' <=> b \in Shared)
        BY <1>1 DEF EnterCall, Shared, OwnFile
      <3>2. c \notin Shared
        BY <1>1 DEF EnterCall, Shared
      <3>3. Shared \subseteq Calls /\ Shared' \subseteq Calls
        BY DEF Shared
      <3> QED BY <3>1, <3>2, <3>3
    <2> QED BY <1>0, <2>1, <2>2 DEF Alarm!Next, Alarm!Enter
  <1>2. CASE ReturnBegins(c)
    <2>1. Phase' = [Phase EXCEPT ![c] = "back"] /\ Phase[c] = "open" /\ Shared' = Shared
      BY <1>2 DEF ReturnBegins, Phase, Shared, OwnFile
    <2> QED BY <1>0, <2>1 DEF Alarm!Next, Alarm!Return, Alarm!Moves
  <1>3. CASE ReturnRemoves(c)
    <2>1. Phase' = [Phase EXCEPT ![c] = "gone"] /\ Phase[c] = "back" /\ Shared' = Shared
      BY <1>3 DEF ReturnRemoves, Phase, Shared, OwnFile
    <2> QED BY <1>0, <2>1 DEF Alarm!Next, Alarm!Return, Alarm!Moves
  <1>4. CASE ReturnRevokes(c) \/ (ReturnRecords(c) /\ producer = "trace")
    <2>1. Phase' = [Phase EXCEPT ![c] = "told"] /\ Phase[c] = "gone" /\ Shared' = Shared
      BY <1>4 DEF ReturnRevokes, ReturnRecords, Phase, Shared, OwnFile
    <2> QED BY <1>0, <2>1 DEF Alarm!Next, Alarm!Return, Alarm!Moves
  <1>5. CASE ReturnRecords(c) /\ producer = "iokit"
    BY <1>0, <1>5 DEF ReturnRecords, Phase, Shared, OwnFile, Alarm!vars
  <1>6. CASE Hang(c)
    BY <1>0, <1>6 DEF Hang, Phase, Shared, OwnFile, Alarm!vars
  <1>7. CASE Age(c) \/ Progress
    BY <1>0, <1>7 DEF Age, Progress, scriptVars, Phase, Shared, OwnFile, Alarm!vars
  <1> QED BY <1>1, <1>2, <1>3, <1>4, <1>5, <1>6, <1>7 DEF Callback

\* A claim accuses a call whose record stands, the second look acquits it or
\* makes the watcher sure, and the stop file is written for that call.
LEMMA WatcherRefines ==
  ASSUME Inv, Watcher \/ LogMatches \/ Expire
  PROVE  Alarm!Next \/ UNCHANGED Alarm!vars
  <1> USE DEF Inv, TypeOK
  <1>0. Phase' = Phase /\ Shared' = Shared
    BY DEF Watcher, Scan, Claim, Decide, WriteStop, LogMatches, Expire, scriptVars, Phase, Shared,
           OwnFile
  <1>1. CASE Claim /\ ClaimedFile # {}
    <2>1. pick \in Calls /\ pick # 0
      BY <1>1 DEF Claim, Calls
    <2>2. Phase[pick] \in (IF pick \in Shared THEN {"open", "back", "gone", "told"}
                                              ELSE {"open", "back"})
      <3>1. CASE OwnFile(pick)
        <4>1. pick \in pending
          BY <1>1, <3>1 DEF ClaimedFile
        <4> QED BY <2>1, <3>1, <4>1 DEF FilesTrue, Phase, Shared
      <3>2. CASE ~OwnFile(pick)
        <4>1. call[pick] # "idle" /\ pick \in Shared
          BY <2>1, <3>2 DEF WatcherTrue, Shared
        <4> QED BY <2>1, <4>1 DEF Phase
      <3> QED BY <3>1, <3>2
    <2>3. Stage = "free" /\ Who = 0 /\ Stage' = "accused" /\ Who' = pick
      BY <1>1 DEF Claim, Stage, Who, WatcherTrue
    <2> QED BY <1>0, <2>1, <2>2, <2>3 DEF Alarm!Next, Alarm!Accuse
  <1>2. CASE Decide /\ ~Revoked(pick)
    <2>1. pick \in Calls /\ call[pick] \notin {"r2", "done"}
      BY <1>2 DEF Decide, Revoked, FilesTrue, Calls
    <2>3. pick \in Calls /\ Phase[pick] # "told"
      BY <2>1 DEF Phase
    <2>2. Stage = "accused" /\ Who = pick /\ Stage' = "sure" /\ Who' = pick
      BY <1>2 DEF Decide, Stage, Who
    <2> QED BY <1>0, <2>3, <2>2 DEF Alarm!Next, Alarm!Condemn
  <1>3. CASE Decide /\ Revoked(pick)
    <2>1. Stage = "accused" /\ Stage' = "free" /\ Who' = 0
      BY <1>3 DEF Decide, Stage, Who, WatcherTrue
    <2> QED BY <1>0, <2>1 DEF Alarm!Next, Alarm!Acquit
  <1>4. CASE WriteStop
    <2>1. Stage = "sure" /\ Stage' = "stopped" /\ Who' = Who
      BY <1>4, WatchAssumption DEF WriteStop, Stage, Who, Calls
    <2> QED BY <1>0, <2>1 DEF Alarm!Next, Alarm!Stop
  <1>5. CASE Scan \/ (Claim /\ ClaimedFile = {}) \/ LogMatches \/ Expire
    <2>1. Stage' = Stage /\ Who' = Who
      BY <1>5 DEF Scan, Claim, LogMatches, Expire, Stage, Who, WatcherTrue
    <2> QED BY <1>0, <2>1 DEF Alarm!vars
  <1> QED BY <1>1, <1>2, <1>3, <1>4, <1>5 DEF Watcher

\* The watcher and the script together implement StallAlarm: a stop of the probe
\* is requested at most once, for a call whose record stood when it was claimed
\* and whose return was still not told at the second look.
THEOREM WatchKeepsPromise == Spec => KeepsPromise
  <1>1. Inv /\ [Next]_vars => [Alarm!Next]_(Alarm!vars)
    <2> SUFFICES ASSUME Inv, [Next]_vars PROVE Alarm!Next \/ UNCHANGED Alarm!vars
      OBVIOUS
    <2>0. Calls # {}
      BY WatchAssumption DEF Calls
    <2>1. CASE Next
      BY <2>0, <2>1, ScriptRefines, WatcherRefines DEF Next
    <2>2. CASE UNCHANGED vars
      BY <2>2 DEF vars, Alarm!vars, Phase, Shared, OwnFile, Stage, Who
    <2> QED BY <2>1, <2>2
  <1> QED BY <1>1, RefinesInit, WatchInvariant, PTL DEF Spec, KeepsPromise, Alarm!Spec

=============================================================================
