\* The update session with stale and foreign packets, failing flash, aborts
\* and resets, in both builds that stage the image.
CONSTANTS
  Images <- MCImages
  SizeOf <- MCSizes
  McubootImages = {"M"}
  Builds = {TRUE, FALSE}
  PAGE = 3
  PAYLOAD = 2
  FlashBase = 1
  FlashUsed = 2
  SlotBase = 3
  SlotCapacity = 5
  FlashEnd = 5
  TIMEOUT = 1
  MaxFaults = 1
SPECIFICATION Spec
INVARIANTS
  StagedInPlace
  ActivatedIsWhole
  FirmwareSpared
PROPERTY
  StagingOnly
