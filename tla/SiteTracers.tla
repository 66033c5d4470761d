---------------------------- MODULE SiteTracers ----------------------------
(***************************************************************************)
(* The LLDB scripts of tools/re that watch fixed addresses of the guest.   *)
(* QEMU's gdbstub knows no processes: a breakpoint in the shared cache     *)
(* fires for every program that executes the address, so each callback     *)
(* reads the program name, decides whether the hit is its own, counts it   *)
(* against the site's limit, publishes event files, disables a site that   *)
(* has used its limit, and says whether the guest shall stay stopped.      *)
(*                                                                         *)
(* One session runs one script (tool).  A script is its table of sites     *)
(* (label -> programs the site is meant for) and its callback.             *)
(***************************************************************************)
EXTENDS Lldb

CONSTANTS
    Budget       \* stands for the hit limits of the site tables (4 to 400)

ASSUME SiteAssumption == Budget \in Nat \ {0, 1}

VARIABLES
    opts,     \* its environment: [stop: stop on success, edit: opt-in guest edits]
    site,     \* label -> [hits, on]: HITS and the breakpoint's enabled flag
    srv,      \* STATE["srv"]: the recorded server thread
    seen,     \* threads remembered (SEEN_THREADS, _last_factory)
    raw,      \* surfaces written to iosurface-NNN files
    ev,       \* event files [kind, site]
    met,      \* ghost: <<site, program>> pairs the guest really executed
    log       \* <<site, program>> pairs the script recorded

siteVars == <<opts, site, srv, seen, raw, ev, met, log>>

-----------------------------------------------------------------------------
(* Site tables. *)

BksSites == [CLIENT |-> Programs, WAIT_BRANCH |-> Programs, BKD |-> {"backboardd"}]
AnchorSites == [BOOTSTRAP |-> {"backboardd"}, CONTEXT |-> {"backboardd"}]
CleanupSites == [PLACEHOLDER |-> {"daemon"}, IXD |-> {"daemon"}]
SurfaceSites == [USER |-> {"SpringBoard", "Setup", "backboardd"},
                 DECISIVE |-> {"SpringBoard", "Setup", "backboardd"},
                 KERNEL |-> Programs]
QuerySites == [QD_ENTRY |-> Programs, GATES |-> Programs]
SetupPathSites == [SB_SITE |-> Programs, GLOBAL |-> Programs]
SetupGateSites == [GATE |-> Programs, MOBILEGESTALT |-> Programs]
WaitSites == [SRV_THREAD_ENTRY |-> Programs, COND_WAIT |-> Programs]
PipelineSites == [SCENE |-> {"SpringBoard", "Setup"}]
SceneSites == [MAIN |-> {"Setup"}, CHECKPOINT |-> {"Setup"}, RELAUNCHED |-> {"Setup"}]
StallSites == [MACH_MSG |-> {"Setup"}]
AbortSites == [ABORT |-> {"SpringBoard", "Setup"}, EXIT |-> {"Setup"},
               SETUPAPP_RET |-> {"SpringBoard"}, INDICATOR |-> {"SpringBoard"},
               SWITCHER |-> {"SpringBoard"}]
TerminationSites == [SYSCALL |-> Programs, USER_TERMINATE |-> {"daemon"}]
PowerdSites == [SLEH |-> {"daemon"}]
WatchdogSites == [DURATION |-> {"SpringBoard"}]
DeadlineSites == [ON_START |-> {"daemon"}]
PluginSites == [PLUGIN |-> {"daemon"}]
BitmapSites == [FACTORY |-> Programs, TRAP |-> Programs]
Op19Sites == [OP19 |-> Programs]

Tables == [bks |-> BksSites, anchor |-> AnchorSites, cleanup |-> CleanupSites,
           surface |-> SurfaceSites, query |-> QuerySites, setuppath |-> SetupPathSites,
           setupgate |-> SetupGateSites, wait |-> WaitSites, pipeline |-> PipelineSites,
           scene |-> SceneSites, stall |-> StallSites, abort |-> AbortSites,
           termination |-> TerminationSites, powerd |-> PowerdSites,
           watchdog |-> WatchdogSites, deadline |-> DeadlineSites,
           plugin |-> PluginSites, bitmap |-> BitmapSites, op19 |-> Op19Sites]

SiteTools == DOMAIN Tables
Table == Tables[tool]

\* Sites that exist only once the script has found out where to put them.
Late == {"GATES", "CHECKPOINT", "RELAUNCHED"}

\* Sites whose hit means something only with the awaited value: a surface
\* that is not null, the awaited reason, fault address, state or answer.
Valued == {"DECISIVE", "INDICATOR", "USER_TERMINATE", "SLEH", "OP19"}

\* What the registers or the memory read at a site can tell apart.
Values(a) == CASE a = "ON_START" -> 0..4 [] a \in {"DECISIVE", "MAIN"} -> 0..2
               [] a \in Valued \cup {"WAIT_BRANCH", "QD_ENTRY", "SYSCALL", "DURATION"} -> 0..1
               [] OTHER -> {0}

-----------------------------------------------------------------------------
(* What a callback does. *)

\* What a hit record says: who was where.  Sites of every program need no name.
Witness(t, a) == <<a, IF Table[a] = Programs THEN "any" ELSE Prog[t]>>

Event(k, a) == [kind |-> k, site |-> a]

\* The common end of every callback that takes the hit: count it, publish
\* events, disable the breakpoint when the limit n is used up (n = 0: never).
Takes(t, a, n, kinds, stop) ==
    /\ site' = [site EXCEPT ![a] = [hits |-> IF n = 0 THEN 0 ELSE @.hits + 1,
                                    on   |-> n = 0 \/ @.hits + 1 < n]]
    /\ ev' = ev \cup {Event(k, a) : k \in kinds \cup (IF stop THEN {"stop"} ELSE {})}
    /\ paused' = stop
    /\ log' = log \cup {Witness(t, a)}

\* The early return of a callback whose filter rejects the hit.
Ignores == UNCHANGED <<site, srv, seen, raw, ev, paused, log>>

Success(a) == IF opts.stop THEN {"success"} ELSE {}

Observes(ok, t, a, n, kinds, stop) ==
    IF ok THEN Takes(t, a, n, kinds, stop) /\ UNCHANGED <<srv, seen, raw>> ELSE Ignores

-----------------------------------------------------------------------------
(* The callbacks.  a: the site, name: the program name read, v: the value. *)

\* "must neither consume the hit budget nor report a successful migration
\* return": the filter comes before the count.
BksAllowedMutant(a, name) == TRUE
BksAllowed(a, name) == a = "BKD" => name = "backboardd"

BksHit(t, a, name, v) ==
    /\ tool = "bks"
    /\ LET bypass == opts.edit /\ a = "WAIT_BRANCH" /\ name = "SpringBoard" /\ v = 1
       IN Observes(BksAllowed(a, name), t, a, Budget,
                   {"progress"} \cup Success(a) \cup (IF bypass THEN {"diagnostic"} ELSE {}),
                   opts.stop)

\* One-shot anchors at mach_msg2: by name, and by the kernel thread group;
\* both breakpoints are auto-continue, so neither leaves the guest stopped.
BootstrapHit(t, a, name, v) ==
    /\ tool = "anchor" /\ a = "BOOTSTRAP"
    /\ Observes(name = "backboardd", t, a, 1, {"success"}, FALSE)

ContextHit(t, a, name, v) ==
    /\ tool = "anchor" /\ a = "CONTEXT"
    /\ Observes(Prog[t] = "backboardd", t, a, 1, {"success"}, FALSE)

CleanupHit(t, a, name, v) ==
    /\ tool = "cleanup"
    /\ Observes(name = "daemon", t, a, Budget,
                {"progress"} \cup (IF a = "IXD" THEN Success(a) ELSE {}),
                a = "IXD" /\ opts.stop)

PluginHit(t, a, name, v) ==
    tool = "plugin" /\ Observes(name = "daemon", t, a, Budget, {"progress"}, FALSE)

\* v: 0 no surface, 1 black or not visible, 2 visible.  A decisive hit without
\* a surface is not counted.
SurfaceWanted(a, name, v) ==
    /\ a # "KERNEL" => name \in {"SpringBoard", "Setup", "backboardd"}
    /\ a = "DECISIVE" => v > 0

\* _capture_surface: the same pixels of a surface are written once.
Capture(v) == raw' = raw \cup {v}

SurfaceHit(t, a, name, v) ==
    /\ tool = "surface"
    /\ IF SurfaceWanted(a, name, v)
       THEN LET success == opts.stop /\ (a = "DECISIVE" => v = 2)
            IN /\ Takes(t, a, Budget, IF success THEN {"success"} ELSE {}, success)
               /\ IF a = "DECISIVE" THEN Capture(v) ELSE UNCHANGED raw
               /\ UNCHANGED <<srv, seen>>
       ELSE Ignores

\* display_query: no filter; backboardd's first resolved hit plants the gates.
QueryHit(t, a, name, v) ==
    /\ tool = "query"
    /\ LET resolved == a = "QD_ENTRY" /\ name = "backboardd" /\ v = 1
                       /\ ~site["GATES"].on /\ site["GATES"].hits = 0
           n == site[a].hits + 1
       IN /\ site' = [site EXCEPT ![a] = [hits |-> n, on |-> n < Budget],
                                  !["GATES"].on = IF a = "GATES" THEN n < Budget
                                                  ELSE @ \/ resolved]
          /\ UNCHANGED <<srv, seen, raw, ev, paused, log>>

SetupPathHit(t, a, name, v) ==
    tool = "setuppath" /\ Observes(TRUE, t, a, Budget, Success(a), FALSE)

SetupGateHit(t, a, name, v) ==
    tool = "setupgate" /\ Observes(TRUE, t, a, Budget, {}, FALSE)

\* display_wait: waits are reported for the recorded server thread only.
WaitHit(t, a, name, v) ==
    /\ tool = "wait"
    /\ IF a = "COND_WAIT" /\ srv # t THEN Ignores
       ELSE /\ Takes(t, a, Budget, {}, FALSE)
            /\ srv' = IF a = "SRV_THREAD_ENTRY" /\ name = "backboardd" /\ srv = NoThread
                      THEN t ELSE srv
            /\ UNCHANGED <<seen, raw>>

PipelineHit(t, a, name, v) ==
    /\ tool = "pipeline"
    /\ Observes(name \in {"SpringBoard", "Setup"}, t, a, Budget, {}, FALSE)

\* v: the image slide of the launch, 0 where the return address gives no
\* page-aligned one.  Each slide not in ARMED_LAUNCHES gets its own set of
\* checkpoints; a relaunch at a known slide plants nothing.
LaunchSite == <<"CHECKPOINT", "RELAUNCHED">>

SceneMain(t, a, name, v) ==
    /\ tool = "scene" /\ a = "MAIN"
    /\ IF name # "Setup" THEN Ignores
       ELSE /\ site' = IF v = 0 THEN site
                       ELSE [site EXCEPT ![LaunchSite[v]].on = @ \/ site[LaunchSite[v]].hits = 0]
            /\ paused' = (v = 0)
            /\ ev' = ev \cup (IF v = 0 THEN {Event("stop", a)} ELSE {})
            /\ log' = log \cup {<<a, "Setup">>}
            /\ UNCHANGED <<srv, seen, raw>>

SceneCheckpoint(t, a, name, v) ==
    /\ tool = "scene" /\ a # "MAIN"
    /\ Observes(name = "Setup", t, a, Budget, {}, FALSE)

\* setup_stall: one stop per thread of the target.
StallHit(t, a, name, v) ==
    /\ tool = "stall"
    /\ IF name = "Setup" /\ t \notin seen
       THEN Takes(t, a, Budget, {}, TRUE) /\ seen' = seen \cup {t} /\ UNCHANGED <<srv, raw>>
       ELSE Ignores

AbortHit(t, a, name, v) ==
    /\ tool = "abort"
    /\ \/ /\ a = "ABORT"
          /\ Observes(name \in {"SpringBoard", "Setup"}, t, a, 0, {}, TRUE)
       \/ a = "EXIT" /\ Observes(name = "Setup", t, a, 0, {}, TRUE)
       \/ /\ a = "INDICATOR"
          /\ Observes(name = "SpringBoard" /\ v = 1, t, a, 0, {}, ~opts.edit)
       \/ /\ a = "SWITCHER"
          /\ Observes(name = "SpringBoard", t, a, 0, {}, ~opts.edit)

\* GetHitCount() counts the hits of every process, the filtered ones too.
SetupAppReturn(t, a, name, v) ==
    /\ tool = "abort" /\ a = "SETUPAPP_RET"
    /\ LET n == IF site[a].hits < Budget THEN site[a].hits + 1 ELSE Budget
           mine == name = "SpringBoard"
       IN /\ site' = [site EXCEPT ![a] = [hits |-> n, on |-> ~(mine /\ n >= Budget)]]
          /\ log' = IF mine THEN log \cup {<<a, Prog[t]>>} ELSE log
          /\ UNCHANGED <<srv, seen, raw, ev, paused>>

\* v = 1: the awaited namespace, code and reason.
TerminationHit(t, a, name, v) ==
    /\ tool = "termination"
    /\ \/ a = "SYSCALL" /\ Observes(TRUE, t, a, Budget, {}, v = 1 /\ ~opts.edit)
       \/ a = "USER_TERMINATE" /\ Observes(name = "daemon" /\ v = 1, t, a, 0, {}, TRUE)

\* v: 0 no EL0 data abort at 0x20, 1 one.  An unverified process is recorded
\* and never stops the guest.
PowerdVerifiedMutant(name) == TRUE
PowerdVerified(name) == name = "daemon"

PowerdHit(t, a, name, v) ==
    /\ tool = "powerd"
    /\ IF v = 0 THEN Ignores
       ELSE /\ log' = IF PowerdVerified(name) THEN log \cup {<<a, Prog[t]>>} ELSE log
            /\ ev' = ev \cup {Event(k, a) : k \in {"candidate"} \cup
                                 (IF PowerdVerified(name) THEN {"stop"} ELSE {})}
            /\ paused' = PowerdVerified(name)
            /\ UNCHANGED <<site, srv, seen, raw>>

\* frontboard_watchdog: lengthens a positive, shorter allowance (v = 1).
WatchdogHit(t, a, name, v) ==
    /\ tool = "watchdog"
    /\ Observes(name = "SpringBoard", t, a, 0,
                IF opts.edit /\ v = 1 THEN {"edited"} ELSE {}, FALSE)

\* v: 0 not a plugin object, 1 the named plugin, 2 another plugin, 3 the
\* named plugin and a write that fails, 4 the named plugin with an allowance
\* that is already as long (never lengthened, and a stop).  The failing write
\* returns before the limit is looked at.
DeadlineHit(t, a, name, v) ==
    /\ tool = "deadline"
    /\ LET failed == v = 3 /\ opts.edit
           applied == v = 1 /\ opts.edit
           stop == v = 0 \/ failed \/ (v \in {1, 3, 4} /\ ~applied)
           n == IF v > 0 /\ site[a].hits < Budget THEN site[a].hits + 1 ELSE site[a].hits
       IN IF name # "daemon" THEN Ignores
          ELSE /\ site' = [site EXCEPT ![a] = [hits |-> n, on |-> v = 0 \/ failed \/ n < Budget]]
               /\ ev' = ev \cup {Event(k, a) : k \in (IF stop THEN {"stop"} ELSE {})
                                    \cup (IF v > 0 /\ ~failed THEN {"progress"} ELSE {})
                                    \cup (IF applied THEN {"diagnostic"} ELSE {})}
               /\ paused' = stop
               /\ log' = log \cup {<<a, Prog[t]>>}
               /\ UNCHANGED <<srv, seen, raw>>

BitmapHit(t, a, name, v) ==
    /\ tool = "bitmap"
    /\ \/ /\ a = "FACTORY"
          /\ seen' = seen \cup {t}
          /\ UNCHANGED <<site, srv, raw, ev, paused, log>>
       \/ a = "TRAP" /\ Observes(TRUE, t, a, 1, {}, TRUE)

Op19Hit(t, a, name, v) ==
    /\ tool = "op19"
    /\ Observes(v = 1, t, a, 3,
                IF site[a].hits = 2 THEN {"success"} ELSE {}, FALSE)

-----------------------------------------------------------------------------
Callback(t, a, name, v) ==
    \/ BksHit(t, a, name, v)          \/ BootstrapHit(t, a, name, v)
    \/ ContextHit(t, a, name, v)      \/ CleanupHit(t, a, name, v)
    \/ PluginHit(t, a, name, v)       \/ SurfaceHit(t, a, name, v)
    \/ QueryHit(t, a, name, v)        \/ SetupPathHit(t, a, name, v)
    \/ SetupGateHit(t, a, name, v)    \/ WaitHit(t, a, name, v)
    \/ PipelineHit(t, a, name, v)     \/ SceneMain(t, a, name, v)
    \/ SceneCheckpoint(t, a, name, v) \/ StallHit(t, a, name, v)
    \/ AbortHit(t, a, name, v)        \/ SetupAppReturn(t, a, name, v)
    \/ TerminationHit(t, a, name, v)  \/ PowerdHit(t, a, name, v)
    \/ WatchdogHit(t, a, name, v)     \/ DeadlineHit(t, a, name, v)
    \/ BitmapHit(t, a, name, v)       \/ Op19Hit(t, a, name, v)

SiteInit ==
    /\ opts \in (IF tool \in SiteTools THEN [stop : BOOLEAN, edit : BOOLEAN]
                 ELSE {[stop |-> FALSE, edit |-> FALSE]})
    /\ site = IF tool \in SiteTools
              THEN [a \in DOMAIN Table |-> [hits |-> 0, on |-> a \notin Late]]
              ELSE <<>>
    /\ srv = NoThread /\ seen = {} /\ raw = {} /\ ev = {}
    /\ met = {} /\ log = {}

\* A thread executes the address of a site: the callback runs if its
\* breakpoint is there and enabled.
Arrive(t, a, name, v) ==
    /\ tool \in SiteTools /\ ~paused
    /\ \/ site[a].on /\ Callback(t, a, name, v)
       \/ ~site[a].on /\ Ignores
    /\ met' = IF /\ Prog[t] \in Table[a]
                 /\ name = Unreadable => Table[a] = Programs \/ a = "CONTEXT"
                 /\ a \in Valued => v > 0
                 /\ site[a].on \/ site[a].hits > 0
              THEN met \cup {Witness(t, a)} ELSE met
    /\ UNCHANGED <<tool, opts>>

\* Under powerd_fault_trace.run a verified stop is left to the operator and
\* every other stop is continued.
SiteNext ==
    \/ \E t \in Threads, a \in DOMAIN site :
          \E name \in Names(t), v \in Values(a) : Arrive(t, a, name, v)
    \/ tool \in SiteTools /\ Continue /\ UNCHANGED <<tool, siteVars>>

-----------------------------------------------------------------------------
(* Correctness. *)

\* Once a program that a filtered site is meant for has executed the site, with
\* a readable name and the awaited value, the record of the site holds such a
\* program: the hits of other programs at the same shared-cache address can
\* neither use up the limit first nor enter the record.
TargetSeen ==
    \A w \in met : Table[w[1]] # Programs =>
        LET named == {r[2] : r \in {x \in log : x[1] = w[1]}}
        IN named # {} /\ named \subseteq Table[w[1]]

\* A success event and a stop of the guest are evidence: the site was
\* executed by a program it is meant for, with the awaited value.
EvidenceTrue ==
    \A e \in ev : e.kind \in {"success", "stop"} => \E w \in met : w[1] = e.site

=============================================================================
