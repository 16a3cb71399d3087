SPECIFICATION ProbedSpec
CONSTANTS
  Files = {f1, f2}
  Scanners = {"command"}
  ProbeWorkers = 1
  BatchSize = 1
  Troubles = 1
PROPERTIES
  ScanEnds
CHECK_DEADLOCK FALSE
