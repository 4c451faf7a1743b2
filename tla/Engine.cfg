\* Two questions; orders of two shares at two ticks; two configurations;
\* MaxOrders is a bound: nothing is submitted behind it.
SPECIFICATION Spec
CONSTANTS
  q1 = q1
  q2 = q2
  Questions <- MCQuestions
  Prices <- MCPrices
  Slips <- MCSlips
  Params <- MCParams
  Capital = 9
  OrderNotional = 4
  MaxPendingOrders = 3
  MaxOrders = 4
SYMMETRY Symmetry
INVARIANTS
  TypeOK
  MoneyIsConserved
  ReservedIsPending
  EndsInTime
  EndedAsReported
  SalesKeepPositions
  StatsAddUp
