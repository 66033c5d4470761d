---------------------------- MODULE SerialUpload ----------------------------
(***************************************************************************)
(* tools/serial.py, upload(): a file is sent to the restore shell through  *)
(* its console, as numbered Base64 parts that the guest joins, decodes and *)
(* measures.  Every shell line prints a witness; checked() and             *)
(* checked_batch() send a line again, behind a Ctrl-C, when its witness    *)
(* does not show up in time.                                               *)
(*                                                                         *)
(* Lines travel to the guest, and its output back, in order but with any   *)
(* delay.  The console may corrupt a line and the kernel's log may cut a   *)
(* witness in two; MaxFaults bounds how often, together with the answers   *)
(* that come too late.  A damaged line is unreadable, writes the wrong     *)
(* bytes, or runs to its end on a path that lost characters.  Two lines    *)
(* are assumed not to lose the same characters of the same path, and the   *)
(* test of a size or a checksum not to become one that is always true.     *)
(* The text of lines and witnesses, the size of the   *)
(* parts and the local log are left out: a line is a record that says what *)
(* it does, and its witness is the same record.                            *)
(***************************************************************************)
EXTENDS Naturals, Sequences, SequencesExt

CONSTANTS
    NParts,       \* parts the file is cut into
    Batch,        \* --upload-batch
    Attempts,     \* attempts=3 of checked()
    BatchAttempts,\* attempts=8 of checked_batch()
    MaxFaults     \* bound: corrupted lines, cut witnesses, late answers

ASSUME UploadAssumption ==
    /\ NParts \in Nat /\ Batch \in Nat \ {0}
    /\ Attempts \in Nat \ {0} /\ BatchAttempts \in Nat \ {0}
    /\ MaxFaults \in Nat

VARIABLES
    at,       \* where checked() or checked_batch() is
    stage,    \* which call of them, counted from 1
    attempt,
    wire,     \* what was sent and the guest has not consumed
    console,  \* what the guest printed and serial.py has not read
    shell,    \* "ready", or "open" when it waits for the rest of a line
    partdir,  \* .upload-parts exists
    parts,    \* content of its files
    encoded,  \* content of the joined .b64 file
    target,   \* content of the uploaded file
    faults,
    strayed   \* history: the kinds of lines that ran with a damaged path

vars == <<at, stage, attempt, wire, console, shell, partdir, parts, encoded,
          target, faults, strayed>>
files == <<partdir, parts, encoded, target>>

\* What a file holds: the right bytes, too few, or as many wrong ones.
Wrong == {"short", "other"}

\* One name more than this upload uses: an earlier, longer one may be there.
Slots == 1..(NParts + 1)
EmptyDir == [n \in Slots |-> "none"]

-----------------------------------------------------------------------------
(* The calls upload() makes, in order; only a batch has more than one line. *)

Item(op) == [op |-> op, n |-> 0]
Do(op) == <<Item(op)>>
Part(n) == [op |-> "part", n |-> n]

BatchLines(b) ==
    [i \in 1..(IF b * Batch <= NParts THEN Batch ELSE NParts - (b - 1) * Batch)
        |-> Part((b - 1) * Batch + i)]

Batches == [b \in 1..((NParts + Batch - 1) \div Batch) |-> BatchLines(b)]

\* What else goes over the console.
Blank == Item("blank")
CtrlC == Item("ctrl-c")
Prompt == Item("prompt")

Setup == <<Do("mkdir"), Do("rmtarget"), Do("rmparts")>>
Closing == <<Do("join"), Do("decode"), Do("size"), Do("cksum"), Do("final")>>

\* The closing lines without the comparison of the checksum.
ScriptUnchecked ==
    Setup \o Batches \o <<Do("join"), Do("decode"), Do("size"), Do("final")>>

Script == Setup \o Batches \o Closing

Stages == 1..Len(Script)
Lines == Script[stage]
Limit == IF Lines[1].op = "part" THEN BatchAttempts ELSE Attempts

-----------------------------------------------------------------------------
Init ==
    /\ at = "handshake" /\ stage = 1 /\ attempt = 1
    /\ wire = <<>> /\ console = <<>> /\ shell = "ready" /\ faults = 0
    /\ strayed = {}
    \* what an earlier upload to the same path left
    /\ partdir \in BOOLEAN
    /\ parts \in IF partdir THEN {EmptyDir, [n \in Slots |-> "other"]} ELSE {EmptyDir}
    /\ encoded \in {"none", "other"}
    /\ target \in {"none", "other"}

-----------------------------------------------------------------------------
(* serial.py *)

\* Reading discards: k items were read when the wait ended.
Read(k) == console' = SubSeq(console, k + 1, Len(console))
Among(k) == ToSet(SubSeq(console, 1, k))

Answered(k) == ToSet(Lines) \subseteq Among(k)

\* Running out of time is a fault only when something was still to come.
TimesOut(came) ==
    /\ faults' = IF came \/ wire # <<>> THEN faults + 1 ELSE faults
    /\ faults' <= MaxFaults

\* The call has no attempt left.
Exhausted == attempt = Limit

\* What restores a command boundary before the next attempt.
RecoveryNone == UNCHANGED wire
Recovery == wire' = Append(wire, CtrlC)

\* wait_for_prompt: two newlines; the drain removes the second's prompt.
Handshake ==
    /\ at = "handshake"
    /\ at' = "prompt"
    /\ wire' = Append(wire, Blank)
    /\ UNCHANGED <<stage, attempt, console, shell, files, faults, strayed>>

\* A prompt, whoever it answers, then drain and send_command(_batch).
PromptSeen ==
    /\ at = "prompt"
    /\ \E k \in 1..Len(console) : Prompt \in Among(k) /\ Read(k)
    /\ at' = "witness"
    /\ wire' = wire \o Lines
    /\ UNCHANGED <<stage, attempt, shell, files, faults, strayed>>

\* No prompt: the next attempt, without a Ctrl-C.
PromptMissing ==
    /\ at = "prompt"
    /\ \E k \in 0..Len(console) : Prompt \notin Among(k) /\ Read(k)
    /\ TimesOut(Prompt \in ToSet(console))
    /\ IF Exhausted
       THEN at' = "failed" /\ UNCHANGED attempt
       ELSE at' = "handshake" /\ attempt' = attempt + 1
    /\ UNCHANGED <<stage, wire, shell, files, strayed>>

\* wait_for_text, wait_for_markers: every witness was read; then drain.
Witnessed ==
    /\ at = "witness"
    /\ \E k \in 1..Len(console) : Answered(k) /\ Read(k)
    /\ attempt' = 1
    /\ IF stage = Len(Script)
       THEN at' = "done" /\ UNCHANGED stage
       ELSE at' = "handshake" /\ stage' = stage + 1
    /\ UNCHANGED <<wire, shell, files, faults, strayed>>

\* A witness is missing: Ctrl-C, drain, again; the drain may eat a late one.
WitnessMissing ==
    /\ at = "witness"
    /\ \E k \in 0..Len(console) : Read(k)
    /\ TimesOut(Answered(Len(console)))
    /\ IF Exhausted
       THEN at' = "failed" /\ UNCHANGED <<attempt, wire>>
       ELSE /\ at' = "handshake"
            /\ attempt' = attempt + 1
            /\ Recovery
    /\ UNCHANGED <<stage, shell, files, strayed>>

\* recv and send fail once QEMU closes the socket.
Closed ==
    /\ at \in {"handshake", "prompt", "witness"}
    /\ at' = "closed"
    /\ UNCHANGED <<stage, attempt, wire, console, shell, files, faults, strayed>>

-----------------------------------------------------------------------------
(* The restore shell and its terminal: not code of the repository. *)

Fault == faults < MaxFaults /\ faults' = faults + 1
Says(out) == console' = console \o out

\* Files after line l ran to its end, and whether it prints its witness.
Whole == \A n \in Slots : parts[n] = IF n <= NParts THEN "good" ELSE "none"

Runs(l, answers) ==
    \/ /\ l.op = "mkdir"
       /\ partdir' = TRUE /\ answers = TRUE
       /\ UNCHANGED <<parts, encoded, target>>
    \/ /\ l.op = "rmtarget"
       /\ target' = "none" /\ encoded' = "none" /\ answers = TRUE
       /\ UNCHANGED <<partdir, parts>>
    \/ /\ l.op = "rmparts"
       /\ parts' = EmptyDir /\ answers = TRUE
       /\ UNCHANGED <<partdir, encoded, target>>
    \/ /\ l.op = "part"
       /\ answers = partdir
       /\ parts' = IF partdir THEN [parts EXCEPT ![l.n] = "good"] ELSE parts
       /\ UNCHANGED <<partdir, encoded, target>>
    \/ /\ l.op = "join"
       /\ answers = (parts # EmptyDir)
       /\ encoded' \in IF Whole THEN {"good"} ELSE Wrong
       /\ UNCHANGED <<partdir, parts, target>>
    \/ /\ l.op = "decode"
       /\ answers \in IF encoded = "good" THEN {TRUE} ELSE BOOLEAN
       /\ target' \in IF encoded = "good" THEN {"good"} ELSE Wrong
       /\ UNCHANGED <<partdir, parts, encoded>>
    \/ /\ l.op = "size"
       /\ answers = (target \in {"good", "other"})
       /\ UNCHANGED files
    \/ /\ l.op = "cksum"
       /\ answers = (target = "good")
       /\ UNCHANGED files
    \/ /\ l.op = "final"
       /\ answers = partdir
       /\ encoded' = "none" /\ parts' = EmptyDir /\ partdir' = FALSE
       /\ UNCHANGED target

\* Files after line l was stopped half-way.
Stopped(l) ==
    /\ parts' = CASE l.op = "part" /\ partdir -> [parts EXCEPT ![l.n] = "short"]
                  [] l.op = "final" -> EmptyDir
                  [] OTHER -> parts
    /\ encoded' = CASE l.op = "join" -> "short"
                    [] l.op = "final" -> "none"
                    [] OTHER -> encoded
    /\ target' = IF l.op = "decode" THEN "short" ELSE target
    /\ UNCHANGED partdir

IsLine(x) == x \notin {Blank, CtrlC}
Taken == wire' = Tail(wire) /\ UNCHANGED <<at, stage, attempt>>

\* The next thing sent is an intact line; kernel log may cut the witness.
LineRuns ==
    /\ wire # <<>> /\ IsLine(Head(wire)) /\ shell = "ready"
    /\ \E answers \in BOOLEAN :
        /\ Runs(Head(wire), answers)
        /\ \/ Says(IF answers THEN <<Head(wire), Prompt>> ELSE <<Prompt>>)
              /\ UNCHANGED faults
           \/ answers /\ Says(<<Prompt>>) /\ Fault
    /\ Taken /\ UNCHANGED <<shell, strayed>>

\* Bytes of a payload were dropped, or a source is not found: what the line
\* writes is wrong, and it does not answer.
LineGarbled ==
    /\ wire # <<>> /\ IsLine(Head(wire)) /\ shell = "ready"
    /\ \/ /\ Head(wire).op = "part" /\ partdir
          /\ \E c \in Wrong : parts' = [parts EXCEPT ![Head(wire).n] = c]
          /\ UNCHANGED <<partdir, encoded, target>>
       \/ Stopped(Head(wire))
    /\ Says(<<Prompt>>) /\ Fault /\ Taken
    /\ UNCHANGED <<shell, strayed>>

\* Files after line l ran with a path that lost characters, and whether it
\* prints its witness all the same.  What it should have made, read or
\* removed there is as it was; only a part can go astray inside the directory
\* that join reads.  A size or a checksum of a wrong path has no witness.
Strays(l, answers) ==
    \/ /\ l.op = "mkdir"
       /\ answers = TRUE
       /\ UNCHANGED files
    \/ /\ l.op = "rmtarget"
       /\ answers = TRUE
       /\ \/ target' = "none" /\ UNCHANGED encoded
          \/ encoded' = "none" /\ UNCHANGED target
          \/ UNCHANGED <<encoded, target>>
       /\ UNCHANGED <<partdir, parts>>
    \/ /\ l.op = "rmparts"
       /\ answers = TRUE
       /\ UNCHANGED files
    \/ /\ l.op = "part"
       /\ answers = (partdir /\ parts[l.n] = "good")
       /\ \/ partdir /\ parts' = [parts EXCEPT ![NParts + 1] = "other"]
          \/ UNCHANGED parts
       /\ UNCHANGED <<partdir, encoded, target>>
    \/ /\ l.op = "join"
       /\ answers = (parts # EmptyDir)
       /\ target' \in {target, "other"}
       /\ UNCHANGED <<partdir, parts, encoded>>
    \/ /\ l.op = "decode"
       /\ answers \in BOOLEAN
       /\ target' \in {target, "short"}
       /\ UNCHANGED <<partdir, parts, encoded>>
    \/ /\ l.op = "final"
       /\ answers = partdir
       /\ parts' = EmptyDir /\ partdir' = FALSE
       /\ UNCHANGED <<encoded, target>>

LineStrays ==
    /\ wire # <<>> /\ IsLine(Head(wire)) /\ shell = "ready"
    /\ \E answers \in BOOLEAN :
        /\ Strays(Head(wire), answers)
        /\ Says(IF answers THEN <<Head(wire), Prompt>> ELSE <<Prompt>>)
    /\ strayed' = strayed \cup {Head(wire).op}
    /\ Fault /\ Taken /\ UNCHANGED shell

\* The command itself is unreadable, or its end is missing.
LineLost ==
    /\ wire # <<>> /\ IsLine(Head(wire)) /\ shell = "ready"
    /\ \/ Says(<<Prompt>>) /\ UNCHANGED shell
       \/ shell' = "open" /\ UNCHANGED console
    /\ Fault /\ Taken
    /\ UNCHANGED <<files, strayed>>

\* An open quote takes in lines and newlines alike.
Swallow ==
    /\ wire # <<>> /\ Head(wire) # CtrlC /\ shell = "open"
    /\ Taken
    /\ UNCHANGED <<console, shell, files, faults, strayed>>

Newline ==
    /\ wire # <<>> /\ Head(wire) = Blank /\ shell = "ready"
    /\ Says(<<Prompt>>) /\ Taken
    /\ UNCHANGED <<shell, files, faults, strayed>>

\* Ctrl-C flushes what was typed before it and stops what is running, half-
\* way or just before its witness.
Interrupt ==
    /\ \E j \in 1..Len(wire) :
        /\ wire[j] = CtrlC
        /\ wire' = SubSeq(wire, j + 1, Len(wire))
    /\ \/ UNCHANGED files
       \/ /\ IsLine(Head(wire)) /\ shell = "ready"
          /\ Stopped(Head(wire)) \/ \E answers \in BOOLEAN : Runs(Head(wire), answers)
    /\ shell' = "ready"
    /\ Says(<<Prompt>>)
    /\ UNCHANGED <<at, stage, attempt, faults, strayed>>

Host == Handshake \/ PromptSeen \/ PromptMissing \/ Witnessed \/ WitnessMissing \/ Closed
Guest == LineRuns \/ LineGarbled \/ LineStrays \/ LineLost \/ Swallow \/ Newline \/ Interrupt

Next == Host \/ Guest

Spec == Init /\ [][Next]_vars

-----------------------------------------------------------------------------
(* Properties *)

\* An upload() that returns has put exactly the file at its path and taken
\* its transport files away: although a witness may be a late one of an
\* earlier attempt whose line is already being written over again, and
\* although lines may have answered from a wrong path.  The joined file stays
\* only if the last line itself went astray: nothing looks at it afterwards.
Delivered ==
    at = "done" =>
        /\ target = "good"
        /\ encoded = "none" \/ "final" \in strayed
        /\ parts = EmptyDir /\ ~partdir

\* One lost, garbled or late line does not make upload() give up, as checked()
\* says, with two exceptions.  The last line removes a directory and cannot
\* be repeated (line 412).  And a line that ran on a damaged path may print
\* its witness (352 to 357, 402, 404) or leave a file that join then reads
\* (386): what it should have done is not done again.
OneFaultRecovers ==
    at = "failed" /\ faults <= 1 /\ strayed = {} => stage = Len(Script)
=============================================================================
