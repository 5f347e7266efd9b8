SPECIFICATION RunSpec
CONSTANTS
  Families = {"v4"}
  Auth = FALSE
  Unicom = FALSE
  MainLoop = TRUE
  MaxAddr = 1
  MaxTid = 5
  SyncTries = 1
  Faults = {"loss", "slow", "addr", "ind", "client", "nosim", "unplug"}
  MaxFaults = 1
  Returns = FALSE
  Signals = TRUE
INVARIANTS NothingLeft
PROPERTIES Quits
CHECK_DEADLOCK FALSE
