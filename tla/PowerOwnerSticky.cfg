\* A battery/dock shutdown that fails once, and is then no longer wanted.
CONSTANTS
  GenMod = 2
  Deadlines <- MCNoDeadlines
  Commands = {"OFF", "REBOOT"}
  Toggles = {"drained"}
  OtaEnabled = FALSE
  LEASE = 1
  ADVANCE = 1
  BUDGET = 1
  MaxTime = 0
  MaxFaults = 1
SPECIFICATION FairSpec
PROPERTIES
  PhysicalShutdownCompletes
