SPECIFICATION FairSpec
CONSTANTS
    MaxTurns = 2
    MaxMessages = 2
    MaxAttempts = 2
INVARIANTS OneActiveBatch
PROPERTIES TurnsAreTaken ReplyIsForLatestTurn OptedOutStaysSilent UnansweredTurnIsReplaced TurnSettles
CHECK_DEADLOCK FALSE
