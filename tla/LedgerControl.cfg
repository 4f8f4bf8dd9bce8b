\* Two repair workers, one admin, one transaction, two incidents and jobs.
SPECIFICATION Spec
CONSTANTS
    v1 = v1
    w1 = w1
    w2 = w2
    a1 = a1
    Verifiers <- OneVerifier
    RepairWorkers <- TwoWorkers
    Admins <- OneAdmin
    ListingBudget = 3
    RepairAttempts = 1
    ManagerMoves <- Approvals
    CorruptionKinds = {}
    MaxTxns = 1
    MaxIncidents = 2
    MaxJobs = 2
    MaxCorruptions = 0
    MaxFaults = 1
SYMMETRY Interchangeable
INVARIANTS
    TypeOK
    OneRepairPerApproval
    OneRepairUndisturbed
PROPERTIES
    ResolvedIsFinal
    FollowsLifecycle
\* Requests, faults and corruptions are bounded: the system may come to rest.
CHECK_DEADLOCK FALSE
