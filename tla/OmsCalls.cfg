\* Mock gateway, two callers, fairness.
SPECIFICATION FairSpec
CONSTANTS
  t1 = t1
  t2 = t2
  c1 = c1
  c2 = c2
  Tasks <- MCTasks
  Clients <- MCClients
  Gateway = "Mock"
  Exclusive = TRUE
  UseSync = TRUE
  MaxBoots = 1
  NoOrder = NoOrder
  NoEid = NoEid
  NoAnswer = NoAnswer
  NoClient = NoClient
  NoId = NoId
INVARIANTS
  OneEndAnnounced
  CancelledIsDead
PROPERTIES
  TerminalIsFinal
  VersionsGrow
  CallsReturn
