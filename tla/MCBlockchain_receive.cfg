SPECIFICATION Spec
CHECK_DEADLOCK FALSE
CONSTANTS
  Txs = {t, u}
  MaxBlocks = 4
  MaxOwn = 0
  MaxTxs = 1
  Repeated = FALSE
SYMMETRY TxSymmetry
INVARIANTS TypeOK   PendingNotInChain TreeIsHashed
