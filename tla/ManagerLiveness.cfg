SPECIFICATION Spec
CONSTANTS
  Ids = {i1}
  Runs = {r1, r2}
  Tasks <- OneTask
  Registered = {"torrent", "debrid", "usenet"}
  MaxConcurrent = 1
  RecentCap = 20
  Controls = {"keep"}
  Signals = TRUE
  NoRun = NoRun
  NoId = NoId
PROPERTIES
  CancelFrees
  SignalDrains
CHECK_DEADLOCK FALSE
