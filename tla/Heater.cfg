SPECIFICATION FairSpec
CONSTANTS
    Lease = 3
    Control = 1
INVARIANTS HeatIsLeased HeatHasOwner SlotMatchesSession ColdWhenHeld
PROPERTIES SessionEnds
CHECK_DEADLOCK FALSE
