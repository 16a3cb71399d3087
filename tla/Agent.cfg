SPECIFICATION AgentSpec
CONSTANTS
  StreamIds = {i1}
  MaxStreams = 2
  LostPosts = 1
  MaxRegistrations = 2
  MaxDaemons = 2
  Losses = 2
PROPERTIES
  StatusArrives
  RunningIsFound
CHECK_DEADLOCK FALSE
