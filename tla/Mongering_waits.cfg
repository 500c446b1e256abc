SPECIFICATION FairSpec
CONSTANTS
  Peers = {p, q}
  Goroutines = {g1, g2, g3}
  None = none
INVARIANTS TypeOK RegisteredIsOpen
PROPERTY EveryRunEnds
