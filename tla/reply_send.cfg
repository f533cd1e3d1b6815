SPECIFICATION Spec
CONSTANTS
    r1 = r1
    r2 = r2
    read = read
    none = none
    None <- none
    Read <- read
    Replies <- TwoReplies
    Stale <- TaskLoop
    Losses = 1
    Crashes = 1
SYMMETRY Symmetry
INVARIANTS SentAtMostOnce OnlyWithdrawalDenies RecordedSentIsShown ConfirmedIsAcked OneUnsettledSend
PROPERTY RepliesAreDeliveredOnce
