\* Three parts in batches of two, and the attempts of the code.  Three faults:
\* a late answer, a corrupted line behind it, and one more.
SPECIFICATION Spec
CONSTANTS
    NParts = 3
    Batch = 2
    Attempts = 3
    BatchAttempts = 8
    MaxFaults = 3
INVARIANTS  OneFaultRecovers
CHECK_DEADLOCK FALSE
