SPECIFICATION FairSpec
CONSTANTS
    t1 = t1
    t2 = t2
    r1 = r1
    none = none
    None <- none
    Tasks <- OneTask
    Reads <- OneRead
    Losses = 1
    Crashes = 1
PROPERTIES RestartSettles PauseIsRepeated
CHECK_DEADLOCK FALSE
