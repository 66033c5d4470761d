SPECIFICATION FairSpec
CONSTANTS
    OpQueue = 1
    Epochs = {e1}
    BootEpoch = e0
    MaxNotify = 1
PROPERTY ClosedIsReplaced
