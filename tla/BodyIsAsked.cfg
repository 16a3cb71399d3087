SPECIFICATION PoolSafeSpec
CONSTANTS
  Callers = {c1, c2}
  Articles = {a1, a2}
  Conns = {n1, n2}
  MaxConnections = 1
  Cuts = FALSE
  Cut = Cut
  NoConn = NoConn
  NoArticle = NoArticle
INVARIANTS
  BodyIsAsked
CHECK_DEADLOCK FALSE
