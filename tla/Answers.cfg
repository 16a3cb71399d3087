SPECIFICATION AnswersSpec
CONSTANTS
  Callers = {c1, c2, c3}
  Articles = {a1}
  Conns = {n1, n2, n3}
  MaxConnections = 2
  Cuts = TRUE
  Cut = Cut
  NoConn = NoConn
  NoArticle = NoArticle
  t1 = t1
  h1 = h1
  TorrentIds = {t1}
  Hashes = {h1}
  InfoHash <- OneHash
  File <- MCFile
  Kind <- MCKind
  PieceSize = 2
  MaxDownloads = 1
  Timeouts = {"metadata"}
INVARIANTS
  HeldByOne
  NoneSlipsAway
PROPERTIES
  WaitersServed
  StallFrees
CHECK_DEADLOCK FALSE
