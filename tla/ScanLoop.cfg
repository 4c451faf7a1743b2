\* Two questions; positions and orders of four ticks at two prices.
\* MaxOrders and MaxBoots are bounds.
SPECIFICATION Spec
CONSTANTS
  q1 = q1
  q2 = q2
  Questions <- MCQuestions
  Prices <- MCPrices
  QueueSize = 1
  MaxAge = 1
  Slips <- MCSlips
  Params <- MCParams
  Capital = 8
  OrderNotional = 4
  MaxPendingOrders = 3
  MaxOrders = 4
  MaxBoots = 2
  PaperCapital = 7
  PositionSize = 4
  MaxPositions = 2
  MaxLoss = 1
SYMMETRY Symmetry
INVARIANTS
  TypeOK
  BooksFollowTracker
  PaperMoney
  FilesFollowBooks
  PaperNumbersUnique
  NoFileRunsAhead
