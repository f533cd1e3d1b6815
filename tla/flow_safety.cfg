SPECIFICATION Spec
CONSTANTS
    t1 = t1
    t2 = t2
    r1 = r1
    none = none
    None <- none
    Tasks <- TwoTasks
    Reads <- OneRead
    Losses = 1
    Crashes = 1
INVARIANTS TaskAndReadNeverOverlap RunningIsRegistered
PROPERTIES KeepsOneFlow
CHECK_DEADLOCK FALSE
