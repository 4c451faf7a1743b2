\* Two accounts of 21 ticks, two books, a fee of 20 per cent or none, raised to 2
\* and cut at 3 ticks; MaxFills is a bound: nothing is enabled behind it.
SPECIFICATION Spec
CONSTANTS
  main = main
  other = other
  yes = yes
  no = no
  Accounts <- MCAccounts
  DefaultAccount = main
  Books <- MCBooks
  Prices <- MCPrices
  Quantities <- MCQuantities
  MaxPrice = 10
  MaxQuantity = 2
  Capital = 21
  MakerRate = 0
  TakerRate = 20
  MinFee = 2
  MaxFee = 3
  Tolerance = 2
  MaxFills = 3
CHECK_DEADLOCK FALSE
INVARIANTS
  TypeOK
  MoneyIsConserved
  ProfitIsThePositions
  NoFillHalfSettled
  LedgerContinues
  LedgerIsStored
