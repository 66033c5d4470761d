-------------------------- MODULE SpringboardTrace --------------------------
(***************************************************************************)
(* tools/re/springboard_startup_trace_callbacks.py.  The first SpringBoard *)
(* hit of an anchor selects the traced thread; from there on the script    *)
(* plants breakpoints at the call instructions of the functions the thread *)
(* reaches, and a return breakpoint behind every call it records.  "The    *)
(* last call without a matching return identifies the next bounded startup *)
(* stall": it is published in pending.trace.json for the watcher.          *)
(*                                                                         *)
(* Guest code is abstracted to a handful of call sites, one per kind that  *)
(* on_call and on_target_entry tell apart.  Of the event files the pending *)
(* records are kept; progress and success records, and the stops that      *)
(* STOP_ON_SUCCESS and STOP_ON_WAIT add, are left out.                     *)
(***************************************************************************)
EXTENDS Lldb, TLC

CONSTANTS
    MaxCalls,           \* MAX_CALLS
    MaxSiteHits,        \* MAX_SITE_HITS
    MaxDynamicTargets,  \* MAX_DYNAMIC_TARGETS
    MaxWaitControls,    \* MAX_WAIT_CONTROLS
    SbDepth,            \* bound on the open calls of the traced thread
    SbWaits,            \* bound on the recorded waits
    SbThreads,          \* the threads that reach anchors and boundaries
    Workers             \* other threads of SpringBoard, that share its code

ASSUME SpringboardAssumption ==
    /\ MaxCalls \in Nat \ {0} /\ MaxSiteHits \in Nat \ {0}
    /\ MaxDynamicTargets \in Nat \ {0} /\ MaxWaitControls \in Nat \ {0}
    /\ SbThreads \subseteq Threads
    /\ Workers \subseteq {t \in Threads : Prog[t] = "SpringBoard"}

VARIABLES
    mode,      \* PROGRESS_ONLY, ROOT_LABEL
    traced,    \* TRACE["tpidr_el1"]
    calls,     \* TRACE["calls"]
    planted,   \* CONFIG entries with a scope: site -> [hits, on]
    returns,   \* RETURNS: [id, site]
    activeCalls, \* ACTIVE_CALLS
    pendingTrace, \* pending.trace.json: a call number, 0 when there is no file
    entries,   \* ENTRY_POINTS: target -> enabled
    dispatch,  \* OBJC_DISPATCHES: the call whose dispatch is awaited, 0 for none
    waits,     \* [on, root, controls, seq, open]: the wait witnesses
    frames,    \* guest: thread -> open calls [site, id], outermost first
    lost       \* ghost: calls whose return address the filter could not attribute

sbVars == <<mode, traced, calls, planted, returns, activeCalls, pendingTrace,
            entries, dispatch, waits, frames, lost>>

-----------------------------------------------------------------------------
(* The guest's code. *)

\* scope: the name of the range the site was found in; a dynamic scope forces
\* the expansion of its targets.
CallSites ==
    [qd   |-> [scope |-> "query_displays", tail |-> FALSE, target |-> "helper"],
     fb   |-> [scope |-> "fb_",      tail |-> FALSE, target |-> "objc_stub"],
     ccs  |-> [scope |-> "ccs_",     tail |-> FALSE, target |-> "helper"],
     dyn  |-> [scope |-> "dynamic_", tail |-> FALSE, target |-> "nested"],
     jump |-> [scope |-> "dynamic_", tail |-> TRUE,  target |-> "nested"]]

Watched(s) == CallSites[s].scope \in {"ccs_", "ls_", "dynamic_", "fb_"}
Forced(s) == CallSites[s].scope = "dynamic_"

\* WAIT_PRIMITIVES: the system calls, and the two libdispatch functions that wait
\* in one of them.  A site stands for the return address behind it.
Traps == {"trap"}
WaitPrimitives == {"wait"} \cup Traps

\* Sites that _plant_calls finds behind a boundary: one of the labels that are
\* progress of every thread, one that only the traced thread expands.
BehindBoundary == [FB_SYSTEM_SHELL_ENTRY |-> {"fb"}, CCS_REMOTE_INIT_ENTRY |-> {"ccs"}]
GlobalProgress == {"FB_SYSTEM_SHELL_ENTRY"}

\* A system call makes no call, a libdispatch wait only the system call.
MayNest(outer, s) == outer \in WaitPrimitives => outer \notin Traps /\ s \in Traps

\* What a thread may call next.  The threads that are not traced are there for
\* the return addresses they share.
MayCall(t, s) ==
    /\ Len(frames[t]) < IF t = traced THEN SbDepth ELSE 1
    /\ t # traced => s = "fb"
    /\ \A i \in DOMAIN frames[t] : MayNest(frames[t][i].site, s)

-----------------------------------------------------------------------------
(* Helpers of the script. *)

\* _same_thread_fast and _same_thread: the thread pointer, with the megabyte of
\* the stack to tell apart the vCPU's contexts, stands for the thread.
SameThreadFastMutant(t) == traced # NoThread
SameThreadFast(t) == traced = t
Same(t, name) == SameThreadFast(t) /\ name = "SpringBoard"

\* _plant_calls: sites of the range that are not configured yet; a range that
\* cannot be read plants nothing.
Plant(S, readable) ==
    IF readable THEN planted @@ [s \in S |-> [hits |-> 0, on |-> TRUE]] ELSE planted

\* _refresh_pending: the record names the deepest active call.
Deepest(S) == IF S = {} THEN 0 ELSE CHOOSE i \in S : \A j \in S : j <= i

\* _install_target_entry: TRUE unless the limit on dynamic targets refuses it.
\* The entry witness of a target that is not forced plants nothing.
DynamicTargets == Cardinality(DOMAIN entries)
Expandable(x, force) ==
    x \in DOMAIN entries \/ ~force \/ DynamicTargets < MaxDynamicTargets
InstallEntry(x, force) ==
    IF x \notin DOMAIN entries /\ force /\ DynamicTargets < MaxDynamicTargets
    THEN entries @@ (x :> TRUE) ELSE entries

WaitsOn(w, b) == [w EXCEPT !.on = b]

-----------------------------------------------------------------------------
(* install and resume_install, which arms the selected or the seeded thread *)
(* of a frozen guest.  "rooted" is DVM_SB_TRACE_ROOT_LABEL.                 *)

SbInit ==
    /\ mode \in (IF tool = "springboard" THEN {"fresh", "rooted", "progress"} ELSE {"fresh"})
    /\ traced \in (IF tool = "springboard" /\ mode # "progress"
                   THEN {NoThread} \cup {t \in SbThreads : Prog[t] = "SpringBoard"}
                   ELSE {NoThread})
    /\ calls = 0 /\ planted = <<>> /\ returns = {} /\ activeCalls = {} /\ pendingTrace = 0
    /\ entries = <<>> /\ dispatch = 0
    /\ waits = [on |-> traced # NoThread, root |-> 0, controls |-> 0, seq |-> 0, open |-> {}]
    /\ frames = [t \in Threads |-> <<>>] /\ lost = {}

-----------------------------------------------------------------------------
(* The callbacks. *)

\* _arm: only SpringBoard, only once.
Arm(t, name) == IF traced = NoThread /\ name = "SpringBoard" THEN t ELSE traced

\* on_anchor: also when another thread of SpringBoard is already traced.
OnAnchor(t, name) ==
    /\ name = "SpringBoard" /\ mode # "rooted"
    /\ traced' = Arm(t, name)
    /\ waits' = WaitsOn(waits, TRUE)
    /\ planted' = Plant({"qd", "fb"}, TRUE)
    /\ UNCHANGED <<mode, calls, returns, activeCalls, pendingTrace, entries, dispatch,
                   frames, lost, paused>>

\* on_boundary.  root: the label is DVM_SB_TRACE_ROOT_LABEL; wanted: it is in
\* DVM_PROBE_SUCCESS_LABELS.
OnBoundary(t, name, label, root, wanted) ==
    LET global == label \in GlobalProgress /\ name = "SpringBoard"
        first == traced = NoThread
        arms == first /\ (mode = "rooted" => root) /\ name = "SpringBoard"
        tr == IF arms THEN t ELSE traced
        goesOn == mode # "progress" /\ ~(global /\ wanted) /\ (first => arms)
        mine == goesOn /\ tr = t /\ name = "SpringBoard"
    IN /\ IF goesOn
          THEN /\ traced' = tr
               /\ waits' = IF arms THEN WaitsOn(waits, TRUE) ELSE waits
               /\ IF mine
                  THEN \E readable \in BOOLEAN :
                          planted' = Plant(BehindBoundary[label], readable)
                  ELSE UNCHANGED planted
          ELSE UNCHANGED <<traced, waits, planted>>
       /\ UNCHANGED <<mode, calls, returns, activeCalls, pendingTrace, entries, dispatch,
                      frames, lost, paused>>

\* on_call, and the guest's call it precedes.
OnCall(t, s) ==
    LET id == calls + 1
        hit == planted[s].hits + 1
        ends == id >= MaxCalls
        x == CallSites[s].target
        act == IF CallSites[s].tail \/ ~Watched(s) THEN activeCalls
               ELSE activeCalls \cup {id}
        refused == ~Expandable(x, Forced(s))
    IN /\ calls' = id
       /\ planted' = [u \in DOMAIN planted |->
                         [hits |-> IF u = s THEN hit ELSE planted[u].hits,
                          on |-> planted[u].on /\ ~ends /\ (u = s => hit < MaxSiteHits)]]
       /\ returns' = IF CallSites[s].tail THEN returns
                     ELSE returns \cup {[id |-> id, site |-> s]}
       /\ activeCalls' = act
       /\ pendingTrace' = IF act = activeCalls THEN pendingTrace ELSE Deepest(act)
       /\ entries' = InstallEntry(x, Forced(s))
       /\ IF x = "objc_stub"
          THEN \E decoded \in BOOLEAN :
                  /\ dispatch' = IF decoded THEN id ELSE dispatch
                  /\ waits' = [waits EXCEPT !.on = TRUE, !.root = id]
          ELSE UNCHANGED <<dispatch, waits>>
       /\ paused' = (ends \/ refused)
       /\ frames' = IF CallSites[s].tail THEN frames
                    ELSE [frames EXCEPT ![t] = Append(@, [site |-> s, id |-> id])]
       /\ UNCHANGED <<mode, traced, lost>>

\* The guest executes a planted call site: recorded for the traced thread only, while
\* the breakpoint is enabled and the limit is not reached.
GuestCalls(t, name, s) ==
    /\ s \in DOMAIN planted /\ MayCall(t, s)
    /\ IF planted[s].on /\ Same(t, name) /\ calls < MaxCalls
       THEN OnCall(t, s)
       ELSE /\ ~CallSites[s].tail
            /\ frames' = [frames EXCEPT ![t] =
                             Append(@, [site |-> s, id |-> 0])]
            /\ UNCHANGED <<mode, traced, calls, planted, returns, activeCalls,
                           pendingTrace, entries, dispatch, waits, lost, paused>>

\* on_return, for every return breakpoint at the address behind site s.
OnReturn(t, name, s) ==
    LET here == {x \in returns : x.site = s}
        ids == {x.id : x \in here}
        act == activeCalls \ ids
    IN IF here = {} \/ ~Same(t, name)
       THEN UNCHANGED <<returns, activeCalls, pendingTrace, waits>>
       ELSE /\ returns' = returns \ here
            /\ activeCalls' = act
            /\ pendingTrace' = IF Watched(s) THEN Deepest(act) ELSE pendingTrace
            /\ waits' = IF waits.root \in ids THEN [waits EXCEPT !.on = FALSE, !.root = 0]
                        ELSE waits

\* on_wait_return, for the return address of the innermost wait.
OnWaitReturn(t, s) ==
    LET here == {x \in waits.open : x.lr = s}
    IN IF here = {} \/ ~SameThreadFast(t) THEN UNCHANGED waits
       ELSE waits' = [waits EXCEPT !.open = @ \ here]

GuestReturns(t, name) ==
    /\ frames[t] # <<>>
    /\ LET f == frames[t][Len(frames[t])]
       IN /\ IF f.site \in WaitPrimitives
             THEN OnWaitReturn(t, f.site)
                  /\ UNCHANGED <<returns, activeCalls, pendingTrace>>
             ELSE OnReturn(t, name, f.site)
          /\ lost' = IF t # traced \/ f.site \in WaitPrimitives THEN lost
                     ELSE IF name = Unreadable THEN lost \cup ({f.id} \ {0})
                     ELSE lost \cup {x.id : x \in {y \in returns : y.site = f.site /\ y.id # f.id}}
    /\ frames' = [frames EXCEPT ![t] = SubSeq(@, 1, Len(@) - 1)]
    /\ UNCHANGED <<mode, traced, calls, planted, entries, dispatch, paused>>

\* on_objc_dispatch; match: receiver and selector are the awaited ones.
OnObjcDispatch(t, match) ==
    /\ dispatch # 0 /\ SameThreadFast(t) /\ match
    /\ dispatch' = 0
    /\ pendingTrace' = Deepest(activeCalls)
    /\ \E follow \in BOOLEAN :
          /\ entries' = IF follow THEN InstallEntry("method", TRUE) ELSE entries
          /\ paused' = (follow /\ ~Expandable("method", TRUE))
    /\ UNCHANGED <<mode, traced, calls, planted, returns, activeCalls, waits,
                   frames, lost>>

\* on_target_entry: one matching entry, then the witness is disabled.
OnTargetEntry(t, name, x, readable) ==
    /\ x \in DOMAIN entries /\ entries[x] /\ Same(t, name)
    /\ pendingTrace' = Deepest(activeCalls)
    /\ planted' = Plant({"dyn", "jump"}, readable)
    /\ entries' = [entries EXCEPT ![x] = FALSE]
    /\ UNCHANGED <<mode, traced, calls, returns, activeCalls, dispatch, waits,
                   frames, lost, paused>>

\* on_wait_primitive, and the guest's wait.
GuestWaits(t, s) ==
    /\ MayCall(t, s)
    /\ LET seen == waits.on /\ SameThreadFast(t)
                   /\ ~(waits.root = 0 /\ waits.controls >= MaxWaitControls)
           n == waits.seq + 1
       IN /\ waits' = IF seen
                      THEN [waits EXCEPT !.seq = n, !.open = @ \cup {[seq |-> n, lr |-> s]},
                                         !.controls = IF waits.root = 0 THEN @ + 1 ELSE @]
                      ELSE waits
          /\ frames' = [frames EXCEPT ![t] =
                Append(@, [site |-> s, id |-> IF seen THEN n ELSE 0])]
          /\ seen => waits.seq < SbWaits
    /\ UNCHANGED <<mode, traced, calls, planted, returns, activeCalls,
                   pendingTrace, entries, dispatch, lost, paused>>

\* Threads of other programs have other thread pointers and are never traced:
\* only anchors and boundaries look at them.
Executes(t, name) ==
    \/ \E s \in DOMAIN CallSites : GuestCalls(t, name, s)
    \/ GuestReturns(t, name)
    \/ \E s \in WaitPrimitives : GuestWaits(t, s)
    \/ \E b \in BOOLEAN :
          \/ OnObjcDispatch(t, b)
          \/ \E x \in DOMAIN entries : OnTargetEntry(t, name, x, b)

SbNext ==
    /\ tool = "springboard" /\ UNCHANGED tool
    /\ \/ /\ ~paused
          /\ \E t \in SbThreads : \E name \in Names(t) :
                \/ OnAnchor(t, name)
                \/ \E label \in DOMAIN BehindBoundary :
                      \E root \in {FALSE, mode = "rooted"},
                         wanted \in {FALSE, (label \in GlobalProgress) /\ name = "SpringBoard"} :
                            OnBoundary(t, name, label, root, wanted)
       \/ /\ ~paused
          /\ \E t \in SbThreads \cup Workers : \E name \in Names(t) :
                Prog[t] = "SpringBoard" /\ Executes(t, name)
       \/ Continue /\ UNCHANGED sbVars

-----------------------------------------------------------------------------
(* Correctness. *)

\* "The last call without a matching return identifies the next bounded startup
\* stall": the pending records are exactly the recorded calls and waits of the
\* traced thread that the guest has not returned from, and pending.trace.json
\* names the deepest of them, whatever the other threads of SpringBoard and
\* the calls of unplanted sites do.  Excepted are calls whose return address
\* was passed while the program name could not be read, or by a re-entry of
\* the same site (OnReturn attributes it to every call of the site).
StallNamed ==
    tool = "springboard" =>
        LET open == IF traced = NoThread THEN {} ELSE
                    {frames[traced][i] : i \in DOMAIN frames[traced]}
            calling == {f.id : f \in {g \in open : g.site \notin WaitPrimitives}} \ {0}
            waiting == {f.id : f \in {g \in open : g.site \in WaitPrimitives}} \ {0}
        IN /\ {x.id : x \in returns} \ lost = calling \ lost
           /\ activeCalls \ lost =
                 {f.id : f \in {g \in open : g.site \notin WaitPrimitives /\ Watched(g.site)}}
                     \ ({0} \cup lost)
           /\ pendingTrace = Deepest(activeCalls)
           /\ {x.seq : x \in waits.open} = waiting

=============================================================================
