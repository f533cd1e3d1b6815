SPECIFICATION Spec
CONSTANTS
    r1 = r1
    r2 = r2
    read = read
    none = none
    None <- none
    Read <- read
    Replies <- OneReply
    Stale <- TaskLoop
    Losses = 0
    Crashes = 0
INVARIANT SentIsNotDenied
