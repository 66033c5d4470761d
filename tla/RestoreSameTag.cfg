SPECIFICATION Spec
CONSTANTS
    Tools = {r1, r2}
    Manifests = {m1, m2}
    Tags = {g1}
    Outs = {o1}
    None = None
CHECK_DEADLOCK FALSE
INVARIANT ReapsExactChild
