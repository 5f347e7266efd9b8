SPECIFICATION FairSpec
CONSTANTS
  Dialers = {c1, c2}
  Ids = {i1, i2}
  NoOne = NoOne
  SyncTries = 1
  Retries = 1
  Allowed = {"mute", "unplug", "sigint", "sigrace", "ind"}
  MaxFaults = 1
  MaxConns = 3
  MaxAsks = 2
INVARIANTS ProxySafe AnswersFindOwner
PROPERTIES Answered ServesUntilQuit
CHECK_DEADLOCK FALSE
