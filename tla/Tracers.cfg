SPECIFICATION Spec
CONSTANTS
    Threads = {"s", "w", "b", "c", "p", "d", "e"}
    Prog <- MCProg
    Tools = {"bks", "anchor", "cleanup", "surface", "query", "setuppath", "setupgate", "wait",
             "pipeline", "scene", "stall", "abort", "termination", "powerd", "watchdog",
             "deadline", "plugin", "bitmap", "op19", "stallret", "portret", "openret", "iokit", "aks",
             "fairplay", "lsd", "lsdname", "sks142", "sks7", "op10", "notify", "iops", "percent", "touch", "spawn",
             "springboard", "smdynamic", "smmachine", "iomfb",
             "hostsks"}
    TouchCap = 2
    Digests = {"g", "h"}
    MaxRequests = 4
    Budget = 2
    Lrs = {"x", "y"}
    MaxDepth = 2
    RetCap = 2
    ForeignHits = 2
    Wanted = 2
    Callers <- MCCallers
    MaxCalls = 2
    MaxSiteHits = 1
    MaxDynamicTargets = 1
    MaxWaitControls = 1
    SbDepth = 2
    SbWaits = 2
    Workers = {"w"}
    SbThreads = {"s", "b"}
    KThreads = {"b", "c"}
    Clients = {"a"}
    MaxHops = 3
    MaxBreakpoints = 5
    StageLimit = 2
    SiteCap = 1
    MaxEvents = 4
    KDepth <- MCKDepth
CHECK_DEADLOCK FALSE
INVARIANTS TargetSeen EvidenceTrue UnreturnedIsOpen BorrowedReturned StallNamed DcpBounded DcpPaired NeverLeftStopped OverrideExact
