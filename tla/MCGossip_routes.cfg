SPECIFICATION Spec
CONSTANTS
  a = a
  b = b
  c = c
  Nodes = {a, b, c}
  Speakers = {a}
  Texts = {hello, bye}
  RouteText = none
  NoHop = nohop
  InitialPeers <- Line
  AddedPeers <- Shortcut
  RouteRumoring = TRUE
  MaxId = 2
  MaxInFlight = 2
  MaxMongers = 1
SYMMETRY TextSymmetry
INVARIANTS TypeOK StoreMatchesClock  NextHopIsAhead NoRoutingLoop
