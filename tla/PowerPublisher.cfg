SPECIFICATION FairSpec
CONSTANTS
    MaxFaults = 2
    MaxRestarts = 2
    MaxGeneration = 6
    None = None
CHECK_DEADLOCK FALSE
INVARIANTS
    RetryArmed
    RetrySuperseded
    ReadyIsListed
    PercentBacked
    NoLeakedSource
PROPERTY Recovers
