SPECIFICATION FairSpec
CONSTANTS
  a = a
  b = b
  c = c
  Nodes = {a, b, c}
  Speakers = {a}
  Texts = {hello, bye}
  RouteText = none
  NoHop = nohop
  InitialPeers <- Chain
  AddedPeers = {}
  RouteRumoring = FALSE
  MaxId = 2
  MaxInFlight = 2
  MaxMongers = 1
PROPERTIES ImplementsRumorLog Convergence
