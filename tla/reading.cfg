SPECIFICATION FairSpec
CONSTANTS
  MaxWritten = 2
  MaxCycles = 1
  RecallMax = 1
  MaxFaults = 1
INVARIANTS ConsumedIsStored HandoffSilencesAI AnswersUnanswered
PROPERTIES BadgedIsStored OutboxIsConfirmed
CHECK_DEADLOCK FALSE
