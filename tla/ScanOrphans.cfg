\* As ScanLoop.cfg, at one price and with an execution that may be delayed by a
\* scan: an opportunity that ends while its purchase is pending.
\* MaxOrders and MaxBoots are bounds.
SPECIFICATION Spec
CONSTANTS
  q1 = q1
  q2 = q2
  Questions <- MCQuestions
  Prices <- MCOnePrice
  QueueSize = 1
  MaxAge = 1
  Slips <- MCSlips
  Params <- MCSlowParams
  Capital = 8
  OrderNotional = 4
  MaxPendingOrders = 3
  MaxOrders = 4
  MaxBoots = 2
  PaperCapital = 7
  PositionSize = 4
  MaxPositions = 2
  MaxLoss = 1
SYMMETRY Symmetry
INVARIANTS
  NoOrphans
