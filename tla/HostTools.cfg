SPECIFICATION Spec
CONSTANTS
    QueueMax = 2
    RecapMax = 2
    MaxCaptured = 3
    MaxRelays = 2
    Files = {"helper", "service", "registration"}
    MaxLines = 2
CHECK_DEADLOCK FALSE
INVARIANTS EdgesKept FingerLifted PacketReaches InstallSettled WarmSettled VerdictTrue
