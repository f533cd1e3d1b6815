SPECIFICATION FairSpec
CONSTANTS
    t1 = t1
    w1 = w1
    c1 = c1
    c2 = c2
    r1 = r1
    r2 = r2
    NoWorker = NoWorker
    NoClient = NoClient
    NoFlow = NoFlow
    ReadFlow = ReadFlow
    Tasks <- MCOneTask
    Workers <- MCOneWorker
    Clients <- MCClients
    Requests <- MCRequests
    LeaseTicks = 2
INVARIANTS TypeOK ClaimedAtMostOnce RunningHasClaimant OnlyClaimantCompletes
PROPERTIES ExpiredLeaseStaysExpired ImplementsOneShot ExpiredLeaseIsReaped
CHECK_DEADLOCK FALSE
