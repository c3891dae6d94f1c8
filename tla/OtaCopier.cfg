\* Every image of up to three pages, at every base, over every old flash. The
\* copier ends in a reset.
CONSTANTS
  Content = {"a", "b"}
  AppBase = 3
  FlashEnd = 6
  MaxFaults = 1
SPECIFICATION Spec
INVARIANTS
  CopyIsExact
  SettingsAreTrue
CHECK_DEADLOCK FALSE
