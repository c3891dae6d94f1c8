SPECIFICATION FairSpec
CONSTANTS
    Temp = "temp"
    Mag = "mag"
    Model <- MCModel
    WarmMax = 3
    Threads = {t1, t2}
    Menus <- MCMenus
    MaxStamp = 2
    MaxFaults = 1
INVARIANTS NothingForgotten
PROPERTIES SuccessIsStored FlushAnswers
CHECK_DEADLOCK FALSE
