\* The sleep policy: sensor, manual and setting producers against the owner.
CONSTANTS
  GenMod = 2
  Deadlines <- MCDeadlines
  Commands = {"WOM_NOW", "SET_TIMEOUT"}
  Toggles = {"ready", "busy"}
  OtaEnabled = FALSE
  LEASE = 2
  ADVANCE = 3
  BUDGET = 2
  MaxTime = 6
  MaxFaults = 1
SPECIFICATION Spec
INVARIANTS
  AnnouncementStands
PROPERTIES
  SleepIsAnnounced
