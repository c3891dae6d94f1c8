\* Ownership: user commands, battery/dock, setting changes and sleep against an
\* OTA update; accepted shutdowns and admitted updates come to an end.
CONSTANTS
  GenMod = 2
  Deadlines <- MCDue
  Commands = {"OFF", "REBOOT", "WOM_NOW", "SET_TIMEOUT"}
  Toggles = {"suppressed", "drained"}
  OtaEnabled = TRUE
  LEASE = 1
  ADVANCE = 1
  BUDGET = 1
  MaxTime = 1
  MaxFaults = 1
SPECIFICATION FairSpec
INVARIANTS
  NoShutdownDuringOta
  PlanIsBacked
PROPERTIES
  OtaRebootIsOwed
  OtaStaysActive
  ImplementsArbiter
  OffHappens
  UpdateEnds
