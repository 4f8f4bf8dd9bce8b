\* A repair and the audit of a transaction admitted before the lock.
SPECIFICATION Spec
CONSTANTS
    v1 = v1
    w1 = w1
    w2 = w2
    a1 = a1
    Verifiers <- OneVerifier
    RepairWorkers <- OneWorker
    Admins <- NoAdmin
    ListingBudget = 3
    RepairAttempts = 1
    ManagerMoves <- Approvals
    CorruptionKinds = {}
    MaxTxns = 2
    MaxIncidents = 1
    MaxJobs = 1
    MaxCorruptions = 0
    MaxFaults = 0
INVARIANT HeadIsLast
\* Requests, faults and corruptions are bounded: the system may come to rest.
CHECK_DEADLOCK FALSE
