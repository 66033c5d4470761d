----------------------------- MODULE StallAlarm -----------------------------
(***************************************************************************)
(* What the pair of an LLDB script and tools/re/probe_watch.py promises: a *)
(* stop of the probe is requested at most once, for a call that was        *)
(* accused and, when the watcher looked again, not known to have returned. *)
(*                                                                         *)
(* The guest is back from a call before anybody is told: its return        *)
(* callback is at work for a while, removes the record of the call on the  *)
(* way and only then makes the return visible.  A call whose record is     *)
(* removed cannot be accused any more, unless it shares its record with    *)
(* others.  A call that comes back between the second look and the stop is *)
(* stopped for all the same.                                               *)
(***************************************************************************)
EXTENDS Naturals

CONSTANT Calls     \* call numbers, in the order of their entries

VARIABLES
    st,       \* call -> "idle", "open", "back" (from the call), "gone" (its
              \* record too), "told" (its return can be seen)
    shared,   \* the calls whose record other calls share
    stage,    \* of the alarm: "free", "accused", "sure", "stopped"
    who       \* 0, or the call it is about

vars == <<st, shared, stage, who>>

Init == st = [c \in Calls |-> "idle"] /\ shared = {} /\ stage = "free" /\ who = 0

Enter(c) ==
    /\ st[c] = "idle" /\ st' = [st EXCEPT ![c] = "open"]
    /\ shared' \in {shared, shared \cup {c}}
    /\ UNCHANGED <<stage, who>>

Moves(c, from, to) ==
    st[c] = from /\ st' = [st EXCEPT ![c] = to] /\ UNCHANGED <<shared, stage, who>>

Return(c) == Moves(c, "open", "back") \/ Moves(c, "back", "gone") \/ Moves(c, "gone", "told")

Accuse(c) ==
    /\ stage = "free" /\ who = 0
    /\ st[c] \in (IF c \in shared THEN {"open", "back", "gone", "told"} ELSE {"open", "back"})
    /\ stage' = "accused" /\ who' = c /\ UNCHANGED <<st, shared>>

Acquit == stage = "accused" /\ stage' = "free" /\ who' = 0 /\ UNCHANGED <<st, shared>>

Condemn(c) ==
    /\ stage = "accused" /\ who = c /\ st[c] # "told"
    /\ stage' = "sure" /\ UNCHANGED <<st, shared, who>>

Stop == stage = "sure" /\ stage' = "stopped" /\ UNCHANGED <<st, shared, who>>

Next ==
    \/ \E c \in Calls : Enter(c) \/ Return(c) \/ Accuse(c) \/ Condemn(c)
    \/ Acquit \/ Stop

Spec == Init /\ [][Next]_vars

=============================================================================
