\* A restart on the same day, one caller, two orders.
SPECIFICATION Spec
CONSTANTS
  t1 = t1
  t2 = t2
  c1 = c1
  c2 = c2
  Tasks <- OneTask
  Clients <- MCClients
  Gateway = "Polymarket"
  Exclusive = TRUE
  UseSync = FALSE
  MaxBoots = 2
  NoOrder = NoOrder
  NoEid = NoEid
  NoAnswer = NoAnswer
  NoClient = NoClient
  NoId = NoId
INVARIANTS
  FindsOwnOrder
