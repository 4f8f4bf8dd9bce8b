\* One server, one transaction, one crash: the claimed row stays PROCESSING.
SPECIFICATION FairSpec
CONSTANTS
    u1 = u1
    u2 = u2
    s1 = s1
    s2 = s2
    Users <- OneUser
    Servers <- OneServer
    PollLimit = 2
    Attempts = 3
    MaxTxns = 1
    MaxFaults = 1
    FaultKinds = {"crash"}
PROPERTY ClaimsHeal
\* Requests, servers and faults are bounded: the system may come to rest.
CHECK_DEADLOCK FALSE
