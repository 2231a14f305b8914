SPECIFICATION FairSpec
CONSTANTS
  Devices = {"a", "b"}
  Configs <- Settings
  Starts = {"synced", "empty", "first"}
  Commands = {"force", "compare", "halve", "break"}
  MaxEdits = 3
  MaxFaults = 1
CHECK_DEADLOCK FALSE
INVARIANTS Safety
PROPERTIES Agree MergesNeverStack BaseIsShared
