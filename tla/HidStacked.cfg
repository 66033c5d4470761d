SPECIFICATION Spec
CONSTANTS
    OpQueue = 2
    Epochs = {e1, e2}
    BootEpoch = e0
    MaxNotify = 1
SYMMETRY Symmetry
INVARIANT NoStackedContact
