SPECIFICATION FairSpec
CONSTANTS
    MaxJobs = 2
    MaxClears = 1
    MaxFaults = 1
INVARIANTS VerdictIsTrue NothingOutdated AcceptedSurvives
PROPERTIES SavedFusionFits EveryoneIsAnswered
\* without a request nothing happens
CHECK_DEADLOCK FALSE
