SPECIFICATION Spec
CONSTANTS
    a1 = a1
    a2 = a2
    a3 = a3
    a4 = a4
    Accounts = {a1, a2, a3, a4}
    Transfers <- TransfersApart
    Limit = 1
    CheckpointOlderThan = 1
    MaxPostings = 3
    MaxTime = 2
    MaxSweeps = 4
    MaxCrashes = 0
INVARIANT
    HonestLedgerSeals
CHECK_DEADLOCK FALSE
