------------------------------ MODULE DcpTrace ------------------------------
(***************************************************************************)
(* The two scripts for the stuck state machine of AppleFirmwareKit:        *)
(*   tools/re/dcp_sm_dynamic_trace_callbacks.py ("smdynamic") follows one  *)
(*   origin thread from the stage-2 operation, resolves every indirect     *)
(*   call it makes, and scans the functions that are really entered;       *)
(*   tools/re/dcp_sm_machine_callbacks.py ("smmachine") brackets the fixed *)
(*   sites of the same path.                                               *)
(* Records that change nothing in the script (state-tx, state-rx,          *)
(* state-apply, completion, task-mode) are left out.                       *)
(***************************************************************************)
EXTENDS Lldb, SequencesExt

CONSTANTS
    KThreads,        \* the kernel threads that run state machines
    Clients,         \* AFK clients
    MaxHops,         \* MAX_HOPS
    MaxBreakpoints,  \* MAX_BREAKPOINTS
    StageLimit,      \* the 8 hits after which smmachine disables a site
    KDepth           \* [KThreads -> Nat]: bound on the open calls of a thread

ASSUME DcpAssumption ==
    /\ KThreads \subseteq Threads
    /\ MaxHops \in Nat \ {0} /\ MaxBreakpoints \in Nat \ {0} /\ StageLimit \in Nat \ {0}
    /\ KDepth \in [KThreads -> Nat]

VARIABLES
    trace,     \* TRACE: [origin, client, requested, armed, stopped, returned, lock]
    hops,      \* TRACE["hops"]
    breakpoints, \* TRACE["dynamic_breakpoints"]
    targetsAt, \* TARGET_BY_ADDRESS
    returnsAt, \* RETURN_BY_ADDRESS
    scanned,   \* SCANNED
    expected,  \* EXPECTED: thread -> targets queued
    pendingReturns, \* PENDING_RETURNS, STAGE2_PENDING: thread -> [ra, id]
    bracket,   \* smmachine: thread -> [context, first, action] of the *_PENDING dicts
    hitsOf,    \* HITS of smmachine's two stage-2 sites
    kstack,    \* guest: thread -> open calls [ra, id], outermost first
    entering,  \* guest: thread -> the function it is about to enter
    moved,     \* ghost: the script lost sight of a call: see Moves, Misses and Reenters
    mispaired  \* ghost: a return was reported for another call

dcpVars == <<trace, hops, breakpoints, targetsAt, returnsAt, scanned, expected,
             pendingReturns, bracket, hitsOf, kstack, entering, moved, mispaired>>
guestVars == <<kstack, entering>>
plantVars == <<breakpoints, targetsAt, returnsAt, scanned, expected>>

DcpTools == {"smdynamic", "smmachine"}
Nowhere == "nowhere"
NoClient == "none"

\* The code behind the stage-2 operation: T1 is its block, T2 the command
\* gate's sleep wrapper, R the executor after the operation returned.  A
\* function's indirect sites: c1 a recursive call, j1 a tail call, the others
\* are planted and never reached.
SitesOf == [T1 |-> {"c1", "j1"}, T2 |-> {"c2", "c3"}, R |-> {"c4", "c5", "c6"}]
GoesTo == [c1 |-> "T1", j1 |-> "T2"]
TailSite(s) == s = "j1"

-----------------------------------------------------------------------------
(* Helpers of smdynamic. *)

\* The origin is a guest thread (candidate_tp) on a vCPU (candidate_thread, the
\* thread LLDB names).  Between two hits the guest may move its thread to
\* another vCPU, so each callback finds it here or not.
Followed(t) == trace.armed /\ ~trace.stopped /\ trace.origin = t
Matches(t, here) == Followed(t) /\ here

\* _budget_check; late: MAX_SECONDS have passed.
ExhaustedMutant(n, late) == n >= MaxHops \/ late
Exhausted(n, late) == n >= MaxHops \/ breakpoints >= MaxBreakpoints \/ late

\* _stop leaves the guest stopped; a second reason is not recorded.
Stop(tr) == trace' = [tr EXCEPT !.stopped = TRUE] /\ paused' = TRUE

\* _scan_target, in one go: the limit is not looked at between two sites.
Scan(f) ==
    /\ scanned' = scanned \cup {f}
    /\ breakpoints' = IF f \in scanned THEN breakpoints
                      ELSE breakpoints + Cardinality(SitesOf[f])

Planted == UNION {SitesOf[f] : f \in scanned}

\* _queue_target: the entry witness, and for a call the return witness.
Queue(t, x, s, id) ==
    LET ret == s # Nowhere /\ ~TailSite(s)
    IN /\ targetsAt' = targetsAt \cup {x}
       /\ expected' = [expected EXCEPT ![t] = Append(@, x)]
       /\ returnsAt' = IF ret THEN returnsAt \cup {s} ELSE returnsAt
       /\ pendingReturns' = IF ret
            THEN [pendingReturns EXCEPT ![t] = Append(@, [ra |-> s, id |-> id])]
            ELSE pendingReturns
       /\ breakpoints' = breakpoints + Cardinality({x} \ targetsAt)
                         + (IF ret THEN Cardinality({s} \ returnsAt) ELSE 0)

\* Calls carry a number only to tell the calls of one thread apart.
UsedIds(t) == {kstack[t][i].id : i \in DOMAIN kstack[t]} \cup
              {pendingReturns[t][i].id : i \in DOMAIN pendingReturns[t]}
NewId(t) == CHOOSE n \in 1..Cardinality(UsedIds(t)) + 1 : n \notin UsedIds(t)

Push(t, s, id) == kstack' = [kstack EXCEPT ![t] = Append(@, [ra |-> s, id |-> id])]

\* A new origin discards the filters of the old one, and keeps the graph.
Rebased(tr, t, c) == [tr EXCEPT !.origin = t, !.client = c, !.returned = FALSE, !.lock = FALSE]
Moves(t) == moved' = (moved \/ (trace.origin \notin {t, NoThread}
                                /\ pendingReturns[trace.origin] # <<>>))

\* A call or a return of the origin on another vCPU is not seen.
Misses(t, here) == moved' = (moved \/ (~here /\ pendingReturns[t] # <<>>))

-----------------------------------------------------------------------------
(* smdynamic's callbacks. *)

\* on_afk_state, for a state-1 notification.
OnAfkState(t, c, here) ==
    /\ trace' = IF trace.origin = t /\ trace.client = c /\ here THEN trace
                ELSE Rebased(trace, t, c)
    /\ Moves(t)
    /\ UNCHANGED <<hops, plantVars, pendingReturns, guestVars, mispaired, paused>>

\* on_afk_request goes by the guest thread alone.
OnAfkRequest(t, c) ==
    /\ trace.origin = t /\ trace.client = c
    /\ trace' = [trace EXCEPT !.requested = TRUE]
    /\ UNCHANGED <<hops, plantVars, pendingReturns, guestVars, moved, mispaired, paused>>

\* on_transition to the requested state.
OnTransition(t, here) ==
    /\ trace.origin = t /\ here /\ ~trace.armed /\ trace.requested
    /\ trace' = [trace EXCEPT !.armed = TRUE]
    /\ UNCHANGED <<hops, plantVars, pendingReturns, guestVars, moved, mispaired, paused>>

\* on_stage2_pre, and the operation it precedes.
OnStage2Pre(t, c, here, late) ==
    /\ Len(kstack[t]) < KDepth[t] /\ Len(expected[t]) < KDepth[t]
    /\ LET rebase == ~Matches(t, here) \/ trace.returned
           tr == IF rebase THEN [Rebased(trace, t, c) EXCEPT !.armed = TRUE, !.requested = TRUE]
                 ELSE trace
       IN /\ IF rebase THEN Moves(t) ELSE UNCHANGED moved
          /\ IF Exhausted(hops, late)
             THEN Stop(tr) /\ UNCHANGED <<plantVars, pendingReturns>>
             ELSE /\ trace' = tr
                  /\ Queue(t, "T1", Nowhere, 0)
                  /\ UNCHANGED <<scanned, paused>>
    /\ Push(t, "stage2", 0)
    /\ entering' = [entering EXCEPT ![t] = "T1"]
    /\ UNCHANGED <<hops, mispaired>>

\* on_indirect_call; null: the target register holds no address.
OnIndirectCall(t, s, here, late, null) ==
    /\ Len(kstack[t]) < KDepth[t]
    /\ Len(pendingReturns[t]) < KDepth[t] /\ Len(expected[t]) < KDepth[t]
    /\ LET id == IF TailSite(s) THEN 0 ELSE NewId(t)
       IN /\ IF s \notin Planted \/ ~Matches(t, here)
             THEN UNCHANGED <<trace, plantVars, pendingReturns, paused>>
             ELSE IF Exhausted(hops, late) \/ null
             THEN Stop(trace) /\ UNCHANGED <<plantVars, pendingReturns>>
             ELSE Queue(t, GoesTo[s], s, id) /\ UNCHANGED <<trace, scanned, paused>>
          /\ IF TailSite(s) THEN UNCHANGED <<kstack, moved>>
             ELSE Push(t, s, id) /\ Misses(t, here)
    /\ entering' = [entering EXCEPT ![t] = GoesTo[s]]
    /\ UNCHANGED <<hops, mispaired>>

\* on_target_entry: the latest expectation of this target; T2's entry sets the
\* filter for the sleep primitive.
OnTargetEntry2(t, x, here, late) ==
    LET i == SelectLastInSeq(expected[t], LAMBDA e : e = x)
        tr == IF x = "T2" THEN [trace EXCEPT !.lock = TRUE] ELSE trace
    IN IF x \notin targetsAt \/ ~Matches(t, here) \/ i = 0
       THEN UNCHANGED <<trace, hops, plantVars, paused>>
       ELSE /\ expected' = [expected EXCEPT ![t] = RemoveAt(@, i)]
            /\ hops' = hops + 1
            /\ UNCHANGED <<targetsAt, returnsAt>>
            /\ IF Exhausted(hops + 1, late)
               THEN Stop(tr) /\ UNCHANGED <<breakpoints, scanned>>
               ELSE Scan(x) /\ trace' = tr /\ UNCHANGED paused

\* on_dynamic_return: the latest pending call with this return address.
MatchReturnMutant(q, s) ==
    LET I == {i \in DOMAIN q : q[i].ra = s}
    IN IF I = {} THEN 0 ELSE CHOOSE i \in I : \A j \in I : i <= j
MatchReturn(q, s) == SelectLastInSeq(q, LAMBDA r : r.ra = s)

OnDynamicReturn(t, f, here) ==
    LET i == MatchReturn(pendingReturns[t], f.ra)
    IN /\ IF f.ra \notin returnsAt \/ ~Matches(t, here) \/ i = 0
          THEN UNCHANGED <<pendingReturns, mispaired>>
          ELSE /\ pendingReturns' = [pendingReturns EXCEPT ![t] = RemoveAt(@, i)]
               /\ mispaired' = (mispaired \/ pendingReturns[t][i].id # f.id)
       /\ Misses(t, here)

\* on_stage2_return; stop: DVM_SM_TRACE_STOP_ON_STAGE2_RETURN.
OnStage2Return(t, here, stop, late) ==
    LET tr == [trace EXCEPT !.returned = TRUE, !.lock = FALSE]
    IN IF ~Matches(t, here) THEN UNCHANGED <<trace, breakpoints, scanned, paused>>
       ELSE IF stop THEN Stop(trace) /\ UNCHANGED <<breakpoints, scanned>>
       ELSE IF Exhausted(hops, late) THEN Stop(tr) /\ UNCHANGED <<breakpoints, scanned>>
       ELSE trace' = tr /\ Scan("R") /\ UNCHANGED paused

\* on_wait_primitive; mine: lock and context are the recorded ones.
OnWaitPrimitive(t, here, mine, stop) ==
    /\ Matches(t, here) /\ (trace.lock => mine) /\ stop
    /\ Stop(trace)
    /\ UNCHANGED <<hops, plantVars, pendingReturns, guestVars, moved, mispaired>>

KReturn(t, here, late, stop) ==
    /\ kstack[t] # <<>>
    /\ LET f == kstack[t][Len(kstack[t])]
       IN IF f.ra = "stage2"
          THEN OnStage2Return(t, here, stop, late) /\ UNCHANGED <<pendingReturns, mispaired, moved>>
          ELSE OnDynamicReturn(t, f, here) /\ UNCHANGED <<trace, breakpoints, scanned, paused>>
    /\ kstack' = [kstack EXCEPT ![t] = SubSeq(@, 1, Len(@) - 1)]
    /\ UNCHANGED <<hops, targetsAt, returnsAt, expected, entering>>

KEnter(t, here, late) ==
    /\ OnTargetEntry2(t, entering[t], here, late)
    /\ entering' = [entering EXCEPT ![t] = Nowhere]
    /\ UNCHANGED <<pendingReturns, kstack, moved, mispaired>>

DynamicNext ==
    /\ tool = "smdynamic" /\ ~paused
    /\ \E t \in KThreads, here, late \in BOOLEAN :
          \/ entering[t] # Nowhere /\ KEnter(t, here, late)
          \/ /\ entering[t] = Nowhere
             /\ \/ \E c \in Clients : OnStage2Pre(t, c, here, late)
                \/ kstack[t] # <<>> /\ \E s \in DOMAIN GoesTo, null \in BOOLEAN :
                                          OnIndirectCall(t, s, here, late, null)
                \/ KReturn(t, here, late, FALSE) \/ KReturn(t, here, late, TRUE)
                \/ OnWaitPrimitive(t, here, late, TRUE)
                \/ \E c \in Clients : OnAfkState(t, c, here) \/ OnAfkRequest(t, c)
                \/ OnTransition(t, here)
    /\ UNCHANGED <<bracket, hitsOf>>

-----------------------------------------------------------------------------
(* smmachine's callbacks.  The guest enters stage 2, crosses the tail       *)
(* boundary, asks the gate's owner (first), and runs the block (action).    *)
(* own: the context registers are the ones recorded at the tail boundary.   *)

OpenFrames(t, s) == {i \in DOMAIN kstack[t] : kstack[t][i].ra = s}

\* The thread enters a bracketed call again inside it.
Reenters(t, s) == moved' = (moved \/ OpenFrames(t, s) # {})

\* on_stage2_pre: the call is appended to the thread's queue.
MStage2Pre(t) ==
    /\ Len(kstack[t]) < KDepth[t]
    /\ Reenters(t, "stage2")
    /\ LET on == hitsOf.pre < StageLimit
           id == NewId(t)
       IN /\ hitsOf' = IF on THEN [hitsOf EXCEPT !.pre = @ + 1] ELSE hitsOf
          /\ pendingReturns' = IF on
                THEN [pendingReturns EXCEPT ![t] = Append(@, [ra |-> "stage2", id |-> id])]
                ELSE pendingReturns
          /\ Push(t, "stage2", id)
    /\ UNCHANGED <<bracket, mispaired>>

\* on_stage2_return: pending.pop(0).
MStage2Return(t, f) ==
    LET on == hitsOf.ret < StageLimit
        q == pendingReturns[t]
    IN IF ~on THEN UNCHANGED <<hitsOf, pendingReturns, mispaired>>
       ELSE /\ hitsOf' = [hitsOf EXCEPT !.ret = @ + 1]
            /\ IF q = <<>> THEN UNCHANGED <<pendingReturns, mispaired>>
               ELSE /\ pendingReturns' = [pendingReturns EXCEPT ![t] = Tail(q)]
                    /\ mispaired' = (mispaired \/ Head(q).id # f.id)

\* on_tail_boundary: the context of the thread's gate invocation.
MTailBoundary(t) ==
    /\ kstack[t] # <<>>
    /\ bracket' = [bracket EXCEPT ![t].context = TRUE]
    /\ UNCHANGED <<hitsOf, pendingReturns, kstack, mispaired>>

\* on_gate_first_call, on_gate_action_boundary and on_workloop_block_call.
MBracketCall(t, k, own) ==
    /\ Len(kstack[t]) < KDepth[t]
    /\ Reenters(t, k)
    /\ LET id == NewId(t)
       IN /\ bracket' = IF bracket[t].context /\ own THEN [bracket EXCEPT ![t][k] = id] ELSE bracket
          /\ Push(t, k, id)
    /\ UNCHANGED <<hitsOf, pendingReturns, mispaired>>

\* on_gate_first_return and on_workloop_block_return pop the thread's entry.
MBracketReturn(t, f) ==
    /\ bracket' = [bracket EXCEPT ![t][f.ra] = 0]
    /\ mispaired' = (mispaired \/ bracket[t][f.ra] \notin {0, f.id})
    /\ UNCHANGED <<hitsOf, pendingReturns>>

MReturns(t) ==
    /\ kstack[t] # <<>>
    /\ LET f == kstack[t][Len(kstack[t])]
       IN IF f.ra = "stage2" THEN MStage2Return(t, f) /\ UNCHANGED bracket
          ELSE MBracketReturn(t, f)
    /\ kstack' = [kstack EXCEPT ![t] = SubSeq(@, 1, Len(@) - 1)]

MachineNext ==
    /\ tool = "smmachine"
    /\ \E t \in KThreads :
          \/ MStage2Pre(t)
          \/ (MTailBoundary(t) \/ MReturns(t)) /\ UNCHANGED moved
          \/ \E k \in {"first", "action"}, own \in BOOLEAN : MBracketCall(t, k, own)
    /\ UNCHANGED <<trace, hops, plantVars, entering, paused>>

-----------------------------------------------------------------------------
DcpInit ==
    /\ trace = [origin |-> NoThread, client |-> NoClient, requested |-> FALSE,
                armed |-> FALSE, stopped |-> FALSE, returned |-> FALSE, lock |-> FALSE]
    /\ hops = 0 /\ breakpoints = 0 /\ targetsAt = {} /\ returnsAt = {} /\ scanned = {}
    /\ expected = [t \in KThreads |-> <<>>] /\ pendingReturns = [t \in KThreads |-> <<>>]
    /\ bracket = [t \in KThreads |-> [context |-> FALSE, first |-> 0, action |-> 0]]
    /\ hitsOf = [pre |-> 0, ret |-> 0]
    /\ kstack = [t \in KThreads |-> <<>>] /\ entering = [t \in KThreads |-> Nowhere]
    /\ moved = FALSE /\ mispaired = FALSE

DcpNext ==
    /\ UNCHANGED tool
    /\ \/ DynamicNext
       \/ MachineNext
       \/ tool \in DcpTools /\ Continue /\ UNCHANGED dcpVars

-----------------------------------------------------------------------------
(* Correctness. *)

\* "Bounded same-boot tracer": the hop limit is exact, and the breakpoint limit,
\* which is only looked at before a call is queued or a function scanned, is
\* passed by at most the sites of one scanned function, over any sequence of
\* origins and continues.
DcpBounded ==
    /\ hops <= MaxHops
    /\ \E f \in DOMAIN SitesOf : breakpoints < MaxBreakpoints + Cardinality(SitesOf[f])

\* A reported return is the return of the call it names, through recursion,
\* tail calls, calls of unplanted sites, entries and stage-2 returns missed on
\* another vCPU, and disabled stage-2 sites, until the script loses sight of a
\* call.  smdynamic does when the origin moves away from a thread with pending
\* returns (PENDING_RETURNS is kept then), or when that thread makes or returns
\* from an indirect call on another vCPU than candidate_thread while returns
\* are pending; smmachine does when a thread enters stage 2 again inside stage 2
\* (pending.pop(0) gives the inner return the outer call) or a work-loop helper,
\* which "is shared by every IOWorkLoop", again inside a bracketed call of it.
DcpPaired == mispaired => moved

=============================================================================
