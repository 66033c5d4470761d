SPECIFICATION FairSpec
CONSTANTS
    OpQueue = 1
    Epochs = {e1, e2}
    BootEpoch = e0
    MaxNotify = 1
INVARIANTS
    TypeOK
    ContactAccounted
    ReadyHasTouch
PROPERTIES
    LossRebuilt
    LossAnnounced
