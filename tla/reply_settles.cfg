SPECIFICATION FairSpec
CONSTANTS
    r1 = r1
    r2 = r2
    read = read
    none = none
    None <- none
    Read <- read
    Replies <- OneReply
    Stale <- TaskLoop
    Losses = 2
    Crashes = 2
PROPERTIES SentIsSettled OutboxDrains
