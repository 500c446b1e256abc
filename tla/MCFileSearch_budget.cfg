SPECIFICATION Spec
CHECK_DEADLOCK FALSE
CONSTANTS
  a = a
  b = b
  c = c
  d = d
  f = f
  g = g
  j = j
  s = s
  t = t
  Nodes = {a, b, c, d}
  Peers <- Ring
  Routed <- Unknown
  Files = {f, g}
  ChunkCount <- Two
  Holds <- Nothing
  Fetching <- Nothing
  Keywords = {j}
  Matches <- Names
  Searches = {s}
  Searcher <- AtA
  Wanted <- ByJ
  StartBudgets <- Three
  maxSearchBudget = 4
  searchMatchesThreshold = 2
  Wide = 16
  Nobody = nobody
INVARIANT SearchedWithinBudget
