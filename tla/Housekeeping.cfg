SPECIFICATION KeepingSpec
CONSTANTS
  Items <- MCItems
  Dirs <- MCDirs
  Root = "root"
  Above = "above"
  Home <- MCHome
  Parent <- MCParent
  Workers = {w1, w2, w3}
  NoItem = NoItem
  MaxLevels = 10
  Stuck = {"c"}
  Guarded = {"season2"}
  Lost = 1
  Crashes = 1
  Files = {f1, f2}
  Scanners = {"auto", "command"}
  ProbeWorkers = 1
  BatchSize = 1
  Troubles = 1
INVARIANTS
  OneWorkerPerItem
  DroppedIsGone
  NoEmptyDirLeft
PROPERTIES
  AskedIsConfirmed
  FirmIsKept
  RequestIsServed
