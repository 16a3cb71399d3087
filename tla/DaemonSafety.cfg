SPECIFICATION DaemonSafeSpec
CONSTANTS
  Ids = {i1, i2}
  Runs = {r1, r2}
  Tasks <- OneTask
  Registered = {"debrid"}
  MaxConcurrent = 1
  RecentCap = 2
  Controls = {"keep"}
  Signals = FALSE
  NoRun = NoRun
  NoId = NoId
  Failures = 1
  Watchers = {FALSE}
SYMMETRY Symmetry
INVARIANTS
  SubmitNeverWaits
  NoLostWakeup
  FinalStateKept
CHECK_DEADLOCK FALSE
