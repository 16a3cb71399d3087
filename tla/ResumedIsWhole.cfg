SPECIFICATION UsenetSpec
CONSTANTS
  Segs = {s1, s2}
  Attempts = {a1, a2}
  Workers = {w1}
  Main = Main
  Deletes = TRUE
  Overlaps = FALSE
  Moves = FALSE
  Kills = 0
  NoSeg = NoSeg
  NoAttempt = NoAttempt
  Torn = Torn
PROPERTIES
  ResumedIsWhole
CHECK_DEADLOCK FALSE
