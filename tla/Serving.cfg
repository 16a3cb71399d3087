SPECIFICATION ServingSpec
CONSTANTS
  TaskIds = {i1, i2}
  MaxRuns = 2
  Size = 3
  Setters = {s1, s2}
  MaxFiles = 2
  MaxRequests = 2
  Requesters = {q1, q2}
  t1 = t1
  t2 = t2
  t3 = t3
  Tasks <- MCTasks
  Meta <- MCMeta
  Source <- MCSource
  IsDir <- MCIsDir
  Extras <- MCExtras
  Replaces <- OlderFilm
  Library <- MCLibrary
  MoviesDir = TRUE
  TVShowsDir = TRUE
  Devices = {1, 2}
  Failures = 3
  Seconds = 1
  NoPath = NoPath
  Junk = Junk
  Torn = Torn
  Posts = {"p1", "p2"}
  Packed <- MCPacked
  TaskDir <- MCTaskDir
  MaxSent = 2
  ToolFails = 1
  Reboots = 1
SYMMETRY Symmetry
INVARIANTS
  NoOrphanServed
  NoStaleEntry
  PackedOrUnpacked
  OwnIsKept
  OldIsKept
PROPERTIES
  CancelReachesAll
  OffsetNeverRegresses
CHECK_DEADLOCK FALSE
