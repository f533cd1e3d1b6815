SPECIFICATION FairSpec
CONSTANTS
    Loop = loop
    Threads = {loop, request}
    Phones = {p, q}
    Nobody = nobody
    MaxEvents = 2
    Limit = 1
    MaxEdits = 2
INVARIANTS SendingIsOwned
PROPERTIES HandoffsAreDeliveredOnce MatchIsForPhone NotifiedOrClosed
CHECK_DEADLOCK FALSE
