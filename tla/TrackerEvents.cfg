SPECIFICATION FairSpec
CONSTANTS
    QueueSize = 3
    OpSize = 1
    NoticeCopies = 2
    Spacing = 1
    Refused = 1
    Settle = 1
    Pace = 1
    Fresh = 2
    OpBeat = 2
    StateBeat = 2
    BootDelay = 1
    TTL = 2
    Fallback = 2
    Menus <- MCMenus
    Observations <- MCObservations
    MaxEpoch = 1
INVARIANTS DeadlineIsWork NoOversleep StartupOnce EndIsFinal
PROPERTIES WarningRetracted PowerNoticesStay StartupDelivered
CHECK_DEADLOCK FALSE
