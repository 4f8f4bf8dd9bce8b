\* Two servers, two transactions of one user, one failed call: everything is audited.
SPECIFICATION FairSpec
CONSTANTS
    u1 = u1
    u2 = u2
    s1 = s1
    s2 = s2
    Users <- OneUser
    Servers <- TwoServers
    PollLimit = 2
    Attempts = 3
    MaxTxns = 2
    MaxFaults = 1
    FaultKinds = {"enqueue", "worker"}
PROPERTY EventuallyAudited
\* Requests, servers and faults are bounded: the system may come to rest.
CHECK_DEADLOCK FALSE
