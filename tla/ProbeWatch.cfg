SPECIFICATION Spec
CONSTANT MaxCall = 3
CHECK_DEADLOCK FALSE
INVARIANT RecordKept
PROPERTIES KeepsPromise StallStopped
