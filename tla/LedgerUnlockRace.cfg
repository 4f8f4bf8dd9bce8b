\* An unlock request and a verification that locks the ledger meanwhile.
SPECIFICATION Spec
CONSTANTS
    v1 = v1
    w1 = w1
    w2 = w2
    a1 = a1
    Verifiers <- OneVerifier
    RepairWorkers <- OneWorker
    Admins <- OneAdmin
    ListingBudget = 3
    RepairAttempts = 1
    ManagerMoves <- Approvals
    CorruptionKinds = {}
    MaxTxns = 1
    MaxIncidents = 2
    MaxJobs = 1
    MaxCorruptions = 0
    MaxFaults = 0
PROPERTY OnlyRepairedIsUnlocked
\* Requests, faults and corruptions are bounded: the system may come to rest.
CHECK_DEADLOCK FALSE
