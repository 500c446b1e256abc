SPECIFICATION FairSpec
CHECK_DEADLOCK FALSE
CONSTANTS
  a = a
  b = b
  c = c
  d = d
  Nodes = {a, b, c, d}
  Peers <- Kite
  Miners = {a, d}
  Sharers = {d}
  Txs = {t}
  HopLimit = 1
  MaxBlocks = 2
INVARIANTS TypeOK RootsDivide
PROPERTIES FloodEnds BlocksSpread
