SPECIFICATION Spec
CONSTANTS
    Tools = {c1, c2, c3}
    Tags = {g1, g2}
    MaxInstant = 2
    None = None
    Partial = Partial
CHECK_DEADLOCK FALSE
INVARIANTS
    ManifestSound
    FrozenAfterExit
    OneManifest
PROPERTY StreamKept
