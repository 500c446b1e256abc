SPECIFICATION FairSpec
CHECK_DEADLOCK FALSE
CONSTANTS
  Txs = {}
  MaxBlocks = 4
  MaxOwn = 3
  MaxTxs = 0
  Repeated = TRUE
INVARIANT ForkIsLongest
PROPERTIES ForkNeverShrinks 
