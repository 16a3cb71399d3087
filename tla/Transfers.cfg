SPECIFICATION TransfersSpec
CONSTANTS
  Segs = {s1, s2}
  Attempts = {a1, a2, a3}
  Workers = {w1, w2}
  Main = Main
  Deletes = TRUE
  Overlaps = FALSE
  Moves = TRUE
  Kills = 1
  NoSeg = NoSeg
  NoAttempt = NoAttempt
  Torn = Torn
  SegmentCount = 3
  Decoded <- MCDecoded
  Overheads = {0, 1}
  MaxAttempts = 2
  Size = 3
  MaxRuns = 3
  Leftovers <- MCLeftovers
  Lengths = {TRUE}
  Sizes = {3}
  RunsOverlap = FALSE
  t1 = t1
  t2 = t2
  h1 = h1
  TorrentIds = {t1, t2}
  Hashes = {h1}
  InfoHash <- OneHash
  File <- MCFile
  Kind <- MCKind
  PieceSize = 2
  MaxDownloads = 2
  Timeouts = {"metadata"}
  Updaters = {u1}
  Latest = 3
  TornBinary = TornBinary
SYMMETRY Symmetry
INVARIANTS
  RecordedIsWritten
  ExitKeepsProgress
  MarkedIsInPlace
  FetchedIsWhole
  NoTorrentLeft
  OneIsWhole
  ResultIsTrue
PROPERTIES
  ReturnedIsWhole
CHECK_DEADLOCK FALSE
