SPECIFICATION StoriesSpec
CONSTANTS
  Backends = {b1, b2}
  SecondSession = b2
  Nobody = nobody
  Requests <- AllRequests
  Tiers = {"free", "paid"}
  FreeAllowance = 2
  MonthLength = 2
  Skew = 1
  MaxTime = 4
  MaxRows = 4
  MaxPauses = 2
  Horizon = 4
  LotPauses = 3
INVARIANTS
  ExpiryIsRunningTime
  TypeOK
  HistoryReplays
  RefundsAreFair
  FreeMintedOnce
PROPERTIES
  PastBalancesAreFixed ImplementsAccount
