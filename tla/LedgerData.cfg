\* One repair worker, three transactions where a listing returns two, one corruption of any kind, one fault.
SPECIFICATION Spec
CONSTANTS
    v1 = v1
    w1 = w1
    w2 = w2
    a1 = a1
    Verifiers <- OneVerifier
    RepairWorkers <- OneWorker
    Admins <- NoAdmin
    ListingBudget = 2
    RepairAttempts = 1
    ManagerMoves <- DocumentedMoves
    CorruptionKinds = {"seq", "txn", "data", "prev", "hash", "time", "row", "live"}
    MaxTxns = 3
    MaxIncidents = 1
    MaxJobs = 1
    MaxCorruptions = 1
    MaxFaults = 1
INVARIANT AlarmsAreReal

    
    
\* Requests, faults and corruptions are bounded: the system may come to rest.
CHECK_DEADLOCK FALSE
