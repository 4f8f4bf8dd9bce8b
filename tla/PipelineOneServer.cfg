\* One server, two users, two transactions, up to three faults of any kind.
SPECIFICATION Spec
CONSTANTS
    u1 = u1
    u2 = u2
    s1 = s1
    s2 = s2
    Users <- TwoUsers
    Servers <- OneServer
    PollLimit = 2
    Attempts = 3
    MaxTxns = 2
    MaxFaults = 3
    FaultKinds = {"claim", "enqueue", "worker", "crash", "lock", "slow"}
SYMMETRY Interchangeable
INVARIANTS
    TypeOK
    ProcessedIsDurable
    AuditedOnce
PROPERTIES
    ProcessedIsFinal
    ImplementsTrail
\* Requests, servers and faults are bounded: the system may come to rest.
CHECK_DEADLOCK FALSE
