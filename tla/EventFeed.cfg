\* Two tabs of one browser, a user and an administrator, three moves, feeds of two events.
SPECIFICATION Spec
CONSTANTS
    t1 = t1
    t2 = t2
    ann = ann
    bea = bea
    cid = cid
    Tabs <- MCTabs
    Emails <- MCEmails
    SeedAccounts <- MCSeedAccounts
    MaxMoves = 3
    GrantedRoles = {"SUPER_ADMIN"}
    FeedCap = 2
SYMMETRY TabSymmetry
INVARIANTS
    TypeOK
    OneAccountPerEmail
    ShownIsSession
    ShownRoleIsServed
    FeedIsAddressed
    FeedNewestFirst
\* Moves are bounded: the system may come to rest.
CHECK_DEADLOCK FALSE
