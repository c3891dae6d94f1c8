\* Channels, pairing, commands and the sleep timeout, one menu at a time.
CONSTANTS
    Peer = "peer"
    Strangers = {"stranger"}
    Band = 4
    Preferred <- MCPreferred
    Default = 2
    Spill = 2
    Counters = 2
    Menus <- MCMenus
    MaxToken = 2
    MaxTrouble = 1
SPECIFICATION Spec
\* a radio whose initialization has failed is not opened again
CHECK_DEADLOCK FALSE
INVARIANT ProofIsHere
INVARIANT OutcomeIsWhole
INVARIANT AckedWasExecuted
PROPERTY StoresProven
PROPERTY RunsOnce
