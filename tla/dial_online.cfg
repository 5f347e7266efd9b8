SPECIFICATION FairSpec
CONSTANTS
  Families = {"v4"}
  Auth = TRUE
  Unicom = FALSE
  MainLoop = TRUE
  MaxAddr = 2
  MaxTid = 5
  SyncTries = 2
  Faults = {"loss", "slow", "refuse", "drop", "net", "nosim", "unplug"}
  MaxFaults = 1
  Returns = TRUE
  Signals = FALSE
INVARIANTS DialerSafe
PROPERTIES StaysOnline
CHECK_DEADLOCK FALSE
