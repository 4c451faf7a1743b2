\* Three orders in a queue of two.
SPECIFICATION Spec
CONSTANTS
  c1 = c1
  c2 = c2
  Clients <- MCClients
  Priorities <- MCPriorities
  DefaultPriority = 1
  MaxSize = 2
  MaxRetries = 1
  MaxOrders = 3
CHECK_DEADLOCK FALSE
INVARIANTS
  FailedMeansRetried
