SPECIFICATION DeliverySpec
CONSTANTS
  a = a
  b = b
  c = c
  Nodes = {a, b, c}
  Speakers = {a, c}
  Texts = {hello}
  RouteText = none
  NoHop = nohop
  InitialPeers <- Line
  AddedPeers <- Shortcut
  RouteRumoring = FALSE
  MaxId = 2
  MaxInFlight = 1
  MaxMongers = 1
  Senders = {c}
  Limits = {0, 2}
  HopLimit = 3
  Wide32 = 6
  MaxMail = 1
INVARIANTS MailTypeOK NoDeadEnd 
