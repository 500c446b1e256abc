SPECIFICATION Spec
CHECK_DEADLOCK FALSE
CONSTANTS
  Txs = {t}
  MaxBlocks = 3
  MaxOwn = 1
  MaxTxs = 1
  Repeated = FALSE
INVARIANT NamesClaimedOnce
