SPECIFICATION Spec
CONSTANTS
    t1 = t1
    t2 = t2
    r1 = r1
    none = none
    None <- none
    Tasks <- OneTask
    Reads <- NoReads
    Losses = 0
    Crashes = 0
PROPERTIES PauseSurvives
CHECK_DEADLOCK FALSE
