\* A row is deleted while a repair is under way, and its number given again.
SPECIFICATION Spec
CONSTANTS
    v1 = v1
    w1 = w1
    w2 = w2
    a1 = a1
    Verifiers <- OneVerifier
    RepairWorkers <- OneWorker
    Admins <- NoAdmin
    ListingBudget = 3
    RepairAttempts = 1
    ManagerMoves <- Approvals
    CorruptionKinds = {"row"}
    MaxTxns = 3
    MaxIncidents = 2
    MaxJobs = 2
    MaxCorruptions = 1
    MaxFaults = 0
PROPERTY RestoresItsTransaction
\* Requests, faults and corruptions are bounded: the system may come to rest.
CHECK_DEADLOCK FALSE
