SPECIFICATION FairSpec
CHECK_DEADLOCK FALSE
CONSTANTS
  a = a
  b = b
  c = c
  d = d
  f = f
  g = g
  j = j
  s = s
  t = t
  Nodes = {a, b, c}
  Peers <- Star
  Routed <- Known
  Files = {f, g}
  ChunkCount <- Two
  Holds <- Shared
  Fetching <- Nothing
  Keywords = {j}
  Matches <- Names
  Searches = {s, t}
  Searcher <- AtA
  Wanted <- ByJ
  StartBudgets <- Budgets
  maxSearchBudget = 4
  searchMatchesThreshold = 2
  Wide = 16
  Nobody = nobody
INVARIANTS TypeOK  
PROPERTIES BudgetNeverGrows 
