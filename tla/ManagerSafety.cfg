SPECIFICATION SafeSpec
CONSTANTS
  Ids = {i1}
  Runs = {r1, r2}
  Tasks <- MixedTasks
  Registered = {"torrent", "debrid", "usenet"}
  MaxConcurrent = 1
  RecentCap = 1
  Controls = {"delete"}
  Signals = TRUE
  NoRun = NoRun
  NoId = NoId
SYMMETRY Symmetry
INVARIANTS
  SlotsCounted
  FiledIsFinal
  RecentIsTrue
  ListedIsUnfinished
  AttemptsFollowPreference
  UnlistedOnlyIfResent
PROPERTIES
  ImplementsLifecycle
CHECK_DEADLOCK FALSE
