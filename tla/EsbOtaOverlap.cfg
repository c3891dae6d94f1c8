\* The legacy build, and an image of three pages over a firmware of two: BEGIN
\* takes the size of the running firmware for its end.
CONSTANTS
  Images <- LargeImages
  SizeOf <- LargeSizes
  McubootImages = {}
  Builds = {FALSE}
  PAGE = 3
  PAYLOAD = 2
  FlashBase = 1
  FlashUsed = 2
  SlotBase = 3
  SlotCapacity = 5
  FlashEnd = 5
  TIMEOUT = 1
  MaxFaults = 0
SPECIFICATION Spec
INVARIANT
  FirmwareUntouched
