--------------------------- MODULE ReturnTracers ---------------------------
(***************************************************************************)
(* The LLDB scripts of tools/re that pair the entry of a call with its     *)
(* return, to find out which call never comes back.  Most plant a          *)
(* breakpoint at the caller's return address when the call is entered; a   *)
(* shared-cache return address is executed by other threads and programs   *)
(* as well, so the return callback must recognise the thread.              *)
(***************************************************************************)
EXTENDS Lldb

CONSTANTS
    Lrs,           \* return addresses of the callers
    MaxDepth,      \* bound on the open calls and kept entries of one thread
    RetCap,        \* stands for the cap on return breakpoints (32, 40, 48)
    ForeignHits,   \* stands for the 8 hits after which a return watch gives up
    Wanted,        \* results after which the pairing scripts stop (3)
    Callers        \* per script, the threads that call watched functions

\* The scripts whose return watches are by program name.
ByName == {"stallret", "portret", "openret"}
\* The scripts that keep the open entries of a thread in a dict.
InDict == {"lsd", "lsdname", "sks142", "sks7", "op10"}
\* lsd_ipc_trace with a thread group, and without one: by the program's name.
Lsd == {"lsd", "lsdname"}
ReturnTools == ByName \cup InDict \cup {"iokit", "aks", "fairplay"}

ASSUME ReturnAssumption ==
    /\ MaxDepth \in Nat \ {0} /\ RetCap \in Nat \ {0}
    /\ ForeignHits \in Nat \ {0} /\ Wanted \in Nat \ {0}
    /\ Callers \in [ReturnTools -> SUBSET Threads]

VARIABLES
    stack,     \* guest: thread -> open calls, outermost first: [lr, id, tail]
    rets,      \* RET_CONFIG, PENDING: return breakpoints [id, lr, tp, prog, hits]
    active,    \* ACTIVE, PENDING, ENTRIES: per thread, the entries kept in a dict
    count,     \* [entry, result] counters of the scripts that stop after three
    entryOn,   \* the entry breakpoint is enabled
    wrong,     \* ghost: a return was reported for a call that did not return
    misread    \* ghost: lsd's name was not readable in a callback that needs it

retVars == <<stack, rets, active, count, entryOn, wrong, misread>>

Open(t) == {stack[t][i].id : i \in DOMAIN stack[t]}
Kept(t) == {active[t][i].id : i \in DOMAIN active[t]}
InUse == (UNION {Open(t) \cup Kept(t) : t \in Threads}) \cup {r.id : r \in rets}

\* Calls carry a number only to tell them apart; 0 is a call no script recorded.
Fresh == CHOOSE n \in 1..Cardinality(InUse) + 1 : n \notin InUse

-----------------------------------------------------------------------------
(* Entries.  Each returns the number the call is recorded under. *)

Unrecorded(id) == id = 0 /\ UNCHANGED <<rets, active, count, entryOn>>

\* A return watch under the program's name, while there is room for one.
WatchByName(t, lr, name, id) ==
    IF Cardinality(rets) < RetCap
    THEN /\ id = Fresh
         /\ rets' = rets \cup {[id |-> id, lr |-> lr, tp |-> t, prog |-> name, hits |-> 0]}
         /\ UNCHANGED <<active, count, entryOn>>
    ELSE Unrecorded(id)

\* display_stall and display_port watch every program, display_open one.
StallEntry(t, lr, name, id) == tool = "stallret" /\ WatchByName(t, lr, name, id)
PortEntry(t, lr, name, id) == tool = "portret" /\ WatchByName(t, lr, name, id)
OpenEntry(t, lr, name, id) ==
    /\ tool = "openret"
    /\ IF name = "backboardd" THEN WatchByName(t, lr, name, id) ELSE Unrecorded(id)

\* display_iokit: backboardd's IOConnectCall*, watched by tpidr_el1.
IokitEntry(t, lr, name, id) ==
    /\ tool = "iokit"
    /\ IF name = "backboardd" /\ Cardinality(rets) < RetCap
       THEN /\ id = Fresh
            /\ rets' = rets \cup {[id |-> id, lr |-> lr, tp |-> t, prog |-> name, hits |-> 0]}
            /\ UNCHANGED <<active, count, entryOn>>
       ELSE Unrecorded(id)

\* aks_backboard_state: entries are refused once three results are in.
AksEntry(t, lr, name, id) ==
    /\ tool = "aks"
    /\ IF name = "backboardd" /\ count.result < Wanted
       THEN /\ id = Fresh
            /\ rets' = rets \cup {[id |-> id, lr |-> lr, tp |-> t, prog |-> name, hits |-> 0]}
            /\ UNCHANGED <<active, count, entryOn>>
       ELSE Unrecorded(id)

\* fairplay_boundary: one call of the daemon with selector 21, then the entry
\* is disabled; a call with a structure too large stops the guest instead.
FairplayEntry(t, lr, name, id) ==
    /\ tool = "fairplay"
    /\ \/ Unrecorded(id) /\ UNCHANGED paused
       \/ name = "daemon" /\ entryOn /\ Unrecorded(id) /\ paused' = TRUE
       \/ /\ name = "daemon" /\ entryOn
          /\ id = Fresh
          /\ rets' = rets \cup {[id |-> id, lr |-> lr, tp |-> t, prog |-> name, hits |-> 0]}
          /\ entryOn' = FALSE
          /\ UNCHANGED <<active, count, paused>>

\* _is_lsd: the thread group is read from the thread's kernel object, the name
\* through the user mapping.
IsLsd(t, name) == IF tool = "lsd" THEN Prog[t] = "daemon" ELSE name = "daemon"
Misreads(t, name) == tool = "lsdname" /\ Prog[t] = "daemon" /\ name = Unreadable

\* lsd_ipc_trace: a stack of entries per thread and return address; the return
\* breakpoint of an address is planted once and stays.
LsdEntry(t, lr, name, id) ==
    /\ tool \in Lsd
    /\ IF IsLsd(t, name)
       THEN /\ id = Fresh
            /\ active' = [active EXCEPT ![t] = Append(@, [id |-> id, lr |-> lr])]
            /\ UNCHANGED <<rets, count, entryOn>>
       ELSE Unrecorded(id)

\* sks_selector142: a stack of entries per thread.
Sks142Entry(t, lr, name, id) ==
    /\ tool = "sks142"
    /\ id = Fresh
    /\ active' = [active EXCEPT ![t] = Append(@, [id |-> id, lr |-> 0])]
    /\ UNCHANGED <<rets, count, entryOn>>

\* sks_selector7: one entry per thread; three entries disable the breakpoint.
Sks7Entry(t, lr, name, id) ==
    /\ tool = "sks7"
    /\ id = Fresh
    /\ IF count.entry < Wanted
       THEN /\ count' = [count EXCEPT !.entry = @ + 1]
            /\ active' = [active EXCEPT ![t] = <<[id |-> id, lr |-> 0]>>]
            /\ entryOn' = (count.entry + 1 < Wanted)
            /\ UNCHANGED rets
       ELSE UNCHANGED <<rets, active, count, entryOn>>

\* sks_boundary op10: only requests of class 13 are remembered; a class that
\* is in STOP_CLASSES or cannot be read stops the guest before the request.
Op10Entry(t, lr, name, id) ==
    /\ tool = "op10"
    /\ paused' \in BOOLEAN
    /\ \/ Unrecorded(id)
       \/ /\ id = Fresh
          /\ active' = [active EXCEPT ![t] = <<[id |-> id, lr |-> 0]>>]
          /\ UNCHANGED <<rets, count, entryOn>>

Entry(t, lr, name, id) ==
    \/ /\ \/ StallEntry(t, lr, name, id)  \/ PortEntry(t, lr, name, id)
          \/ OpenEntry(t, lr, name, id)   \/ IokitEntry(t, lr, name, id)
          \/ AksEntry(t, lr, name, id)    \/ LsdEntry(t, lr, name, id)
          \/ Sks142Entry(t, lr, name, id) \/ Sks7Entry(t, lr, name, id)
       /\ UNCHANGED paused
    \/ FairplayEntry(t, lr, name, id)
    \/ Op10Entry(t, lr, name, id)

-----------------------------------------------------------------------------
(* Returns: thread t executes return address lr, ending the calls ends. *)

Reports(ids, ends) == wrong' = (wrong \/ ~(ids \subseteq ends))

\* A return watch by program name gives up after ForeignHits hits, whoever hit it.
ReturnByName(lr, name, ends) ==
    LET here == {r \in rets : r.lr = lr}
        done == {r \in here : r.prog = name \/ r.hits + 1 >= ForeignHits}
    IN /\ rets' = (rets \ here) \cup {[r EXCEPT !.hits = @ + 1] : r \in here \ done}
       /\ Reports({r.id : r \in done}, ends)
       /\ UNCHANGED <<active, count, entryOn, paused>>
StallReturn(t, lr, name, ends) == tool = "stallret" /\ ReturnByName(lr, name, ends)
PortReturn(t, lr, name, ends) == tool = "portret" /\ ReturnByName(lr, name, ends)
OpenReturn(t, lr, name, ends) == tool = "openret" /\ ReturnByName(lr, name, ends)

\* on_return of display_iokit: the thread pointer must be the caller's.
SameThreadMutant(r, t) == r.prog = Prog[t]
SameThread(r, t) == r.tp = t

IokitReturn(t, lr, name, ends) ==
    /\ tool = "iokit"
    /\ LET done == {r \in rets : r.lr = lr /\ SameThread(r, t)}
       IN rets' = rets \ done /\ Reports({r.id : r \in done}, ends)
    /\ UNCHANGED <<active, count, entryOn, paused>>

AksReturn(t, lr, name, ends) ==
    /\ tool = "aks"
    /\ LET done == {r \in rets : r.lr = lr /\ r.tp = t}
           n == count.result + Cardinality(done)
       IN /\ rets' = rets \ done
          /\ Reports({r.id : r \in done}, ends)
          /\ count' = [count EXCEPT !.result = IF n > Wanted THEN Wanted ELSE n]
    /\ UNCHANGED <<active, entryOn, paused>>

\* STOP: the guest is left stopped at the return.
FairplayReturn(t, lr, name, ends) ==
    /\ tool = "fairplay"
    /\ LET done == {r \in rets : r.lr = lr /\ r.tp = t}
       IN /\ rets' = rets \ done
          /\ Reports({r.id : r \in done}, ends)
          /\ paused' = (done # {})
    /\ UNCHANGED <<active, count, entryOn>>

\* pending.pop(): the innermost entry of this thread with this return address.
\* A return in which lsd's name cannot be read leaves the entry.
LsdReturn(t, lr, name, ends) ==
    /\ tool \in Lsd
    /\ LET mine == {i \in DOMAIN active[t] : active[t][i].lr = lr}
       IN IF ~IsLsd(t, name) \/ mine = {} THEN UNCHANGED <<active, wrong>>
          ELSE LET last == CHOOSE i \in mine : \A j \in mine : j <= i
               IN /\ Reports({active[t][last].id}, ends)
                  /\ active' = [active EXCEPT ![t] =
                        SubSeq(@, 1, last - 1) \o SubSeq(@, last + 1, Len(@))]
    /\ UNCHANGED <<rets, count, entryOn, paused>>

Sks142Return(t, lr, name, ends) ==
    /\ tool = "sks142"
    /\ IF active[t] = <<>> THEN UNCHANGED <<active, wrong>>
       ELSE /\ Reports({active[t][Len(active[t])].id}, ends)
            /\ active' = [active EXCEPT ![t] = SubSeq(@, 1, Len(@) - 1)]
    /\ UNCHANGED <<rets, count, entryOn, paused>>

\* The result site is reached only by a reply that decodes.
Sks7Return(t, lr, name, ends) ==
    /\ tool = "sks7"
    /\ \/ UNCHANGED <<active, count, wrong>>
       \/ IF active[t] = <<>> \/ count.result >= Wanted THEN UNCHANGED <<active, count, wrong>>
          ELSE /\ Reports({active[t][1].id}, ends)
               /\ active' = [active EXCEPT ![t] = <<>>]
               /\ count' = [count EXCEPT !.result = @ + 1]
    /\ UNCHANGED <<rets, entryOn, paused>>

Op10Return(t, lr, name, ends) ==
    /\ tool = "op10"
    /\ IF active[t] = <<>> THEN UNCHANGED <<active, wrong, paused>>
       ELSE /\ Reports({active[t][1].id}, ends)
            /\ active' = [active EXCEPT ![t] = <<>>]
            /\ paused' \in BOOLEAN    \* STOP_AFTER_CLASSES
    /\ UNCHANGED <<rets, count, entryOn>>

Return(t, lr, name, ends) ==
    \/ StallReturn(t, lr, name, ends)  \/ PortReturn(t, lr, name, ends)
    \/ OpenReturn(t, lr, name, ends)   \/ IokitReturn(t, lr, name, ends)
    \/ AksReturn(t, lr, name, ends)    \/ FairplayReturn(t, lr, name, ends)
    \/ LsdReturn(t, lr, name, ends)    \/ Sks142Return(t, lr, name, ends)
    \/ Sks7Return(t, lr, name, ends)   \/ Op10Return(t, lr, name, ends)

-----------------------------------------------------------------------------
ReturnInit ==
    /\ stack = [t \in Threads |-> <<>>]
    /\ rets = {} /\ active = [t \in Threads |-> <<>>]
    /\ count = [entry |-> 0, result |-> 0] /\ entryOn = TRUE
    /\ wrong = FALSE /\ misread = FALSE

\* The guest calls a watched function.  The scripts with one entry per thread
\* or per return address watch functions that do not re-enter themselves.
GuestCall(t, lr) ==
    /\ tool \in ReturnTools /\ ~paused /\ Len(stack[t]) < MaxDepth
    /\ tool \in {"sks7", "op10"} => stack[t] = <<>>
    /\ tool \in Lsd => Len(active[t]) < MaxDepth    \* bound: entries never taken out
    /\ tool \notin Lsd \cup {"sks142"} =>
           \A i \in DOMAIN stack[t] : stack[t][i].lr # lr
    /\ \E name \in Names(t), id \in 0..Cardinality(InUse) + 1 :
           /\ Entry(t, lr, name, id)
           /\ stack' = [stack EXCEPT ![t] = Append(@, [lr |-> lr, id |-> id, tail |-> FALSE])]
           /\ misread' = (misread \/ Misreads(t, name))
    /\ UNCHANGED <<tool, wrong>>

\* IOConnectCallScalarMethod ends in a branch to IOConnectCallMethod: a second
\* watched call with the return address of the first.
GuestTailCall(t) ==
    /\ tool \in {"iokit", "aks"} \cap ReturnTools /\ ~paused
    /\ stack[t] # <<>> /\ Len(stack[t]) < MaxDepth
    /\ LET lr == stack[t][Len(stack[t])].lr
       IN \E name \in Names(t), id \in 0..Cardinality(InUse) + 1 :
           /\ Entry(t, lr, name, id)
           /\ stack' = [stack EXCEPT ![t] = Append(@, [lr |-> lr, id |-> id, tail |-> TRUE])]
    /\ UNCHANGED <<tool, wrong, misread>>

\* The innermost call returns, and with it the calls it was a tail call of.
GuestReturn(t) ==
    /\ tool \in ReturnTools /\ ~paused /\ stack[t] # <<>>
    /\ LET n == Len(stack[t])
           first == CHOOSE i \in 1..n : /\ ~stack[t][i].tail
                                        /\ \A j \in i + 1..n : stack[t][j].tail
       IN /\ \E name \in Names(t) :
                /\ Return(t, stack[t][n].lr, name, {stack[t][i].id : i \in first..n})
                /\ misread' = (misread \/ Misreads(t, name))
          /\ stack' = [stack EXCEPT ![t] = SubSeq(@, 1, first - 1)]
    /\ UNCHANGED tool

ReturnNext ==
    \/ \E t \in IF tool \in ReturnTools THEN Callers[tool] ELSE {} :
          \/ \E lr \in Lrs : GuestCall(t, lr)
          \/ GuestTailCall(t)
          \/ GuestReturn(t)
    \/ tool \in ReturnTools /\ Continue /\ UNCHANGED <<tool, retVars>>

-----------------------------------------------------------------------------
(* Correctness. *)

\* "The entry without a return at the end of the run" is a call that has not
\* returned, and every recorded call that has not returned is such an entry:
\* concurrent calls of other threads and programs through the same return
\* address do not confuse the scripts that go by the thread, and a return is
\* reported for the call that has returned.  lsd_ipc_trace goes by the thread
\* among the calls of lsd; without a thread group it must read the name of lsd
\* at the entry and at the return (161, 181), and a name that it once could
\* not read voids what it says of entries without a return.
UnreturnedIsOpen ==
    tool \in ReturnTools \ (ByName \cup {"sks7"}) /\ ~misread =>
        /\ ~wrong
        /\ \A r \in rets : r.id \in Open(r.tp)
        /\ \A t \in Threads : Kept(t) \subseteq Open(t)
        /\ \A t \in Threads : \A id \in Open(t) \ {0} :
               id \in Kept(t) \/ \E r \in rets : r.id = id

=============================================================================
