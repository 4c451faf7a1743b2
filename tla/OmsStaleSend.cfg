\* Two handles of one order.
SPECIFICATION Spec
CONSTANTS
  t1 = t1
  t2 = t2
  c1 = c1
  c2 = c2
  Tasks <- MCTasks
  Clients <- MCClients
  Gateway = "Polymarket"
  Exclusive = FALSE
  UseSync = FALSE
  MaxBoots = 1
  NoOrder = NoOrder
  NoEid = NoEid
  NoAnswer = NoAnswer
  NoClient = NoClient
  NoId = NoId
INVARIANTS
  AtMostOnceSubmission
