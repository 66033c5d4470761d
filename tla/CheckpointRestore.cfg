SPECIFICATION Spec
CONSTANTS
    Tools = {r1, r2}
    Manifests = {m1}
    Tags = {g1, g2}
    Outs = {o1}
    None = None
CHECK_DEADLOCK FALSE
INVARIANTS
    OwnChildOnly
    NoChildLeft
    ReportTrue
    HeldUntilResume
    LeftPausedActive
