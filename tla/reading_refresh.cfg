SPECIFICATION Spec
CONSTANTS
  MaxWritten = 2
  MaxCycles = 0
  RecallMax = 1
  MaxFaults = 0
INVARIANT NewsIsStoredFirst
