SPECIFICATION Spec
CONSTANTS
  Writers = {w1}
  Readers = {r1}
  Host = "r"
  LocalEnds = {"r"}
  ForceSend = FALSE
  Signals = FALSE
  SkipInRead = FALSE
  SlowHost = TRUE
  Ways = {"crash", "close", "remove"}
  Size = 2
  W = 4
  MaxLen = 2
  MaxBytes = 5
  MaxStops = 1
INVARIANTS PipeSafe DownReleases LocalSleepersWoken
PROPERTIES PipeSpec
