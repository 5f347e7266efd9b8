SPECIFICATION FairSpec
CONSTANTS
  Slots = 2
  MaxSends = 2
  MaxSleeps = 2
  MaxIdles = 1
  MaxErrs = 1
  Slow = {}
  Overtaken = FALSE
  ErrInDown = FALSE
INVARIANTS SleepSafe TransfersKept GoneIsGone
PROPERTIES Delivered Recovers
CHECK_DEADLOCK FALSE
