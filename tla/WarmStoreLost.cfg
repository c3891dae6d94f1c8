SPECIFICATION Spec
CONSTANTS
    Temp = "temp"
    Mag = "mag"
    Model <- MCModel
    WarmMax = 2
    Threads = {t1}
    Menus <- MagMenu
    MaxStamp = 1
    MaxFaults = 0
PROPERTY FlushMakesDurable
CHECK_DEADLOCK FALSE
