SPECIFICATION DaemonSpec
CONSTANTS
  Ids = {i1}
  Runs = {r1}
  Tasks <- TwoTasks
  Registered = {"debrid"}
  MaxConcurrent = 1
  RecentCap = 20
  Controls = {"keep"}
  Signals = TRUE
  NoRun = NoRun
  NoId = NoId
  Failures = 0
  Watchers = {TRUE, FALSE}
PROPERTIES
  LoopEnds
CHECK_DEADLOCK FALSE
