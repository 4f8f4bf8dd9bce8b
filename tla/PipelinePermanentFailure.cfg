\* One server, one transaction, two failed attempts: FAILED before the last attempt.
SPECIFICATION Spec
CONSTANTS
    u1 = u1
    u2 = u2
    s1 = s1
    s2 = s2
    Users <- OneUser
    Servers <- OneServer
    PollLimit = 2
    Attempts = 3
    MaxTxns = 1
    MaxFaults = 2
    FaultKinds = {"worker"}
INVARIANT FailedIsPermanent
\* Requests, servers and faults are bounded: the system may come to rest.
CHECK_DEADLOCK FALSE
