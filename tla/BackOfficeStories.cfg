SPECIFICATION StoriesSpec
CONSTANTS
  w1 = w1
  w2 = w2
  Workers = {w1, w2}
  MaxAttempts = 2
  MaxFailures = 2
  MaxFaults = 2
  a1 = a1
  a2 = a2
  AutopsyIds = {a1, a2, a3, a4}
  r1 = r1
  r2 = r2
  r3 = r3
  r4 = r4
  SpinIds = {r1, r2, r3, r4}
  v1 = v1
  v2 = v2
  v3 = v3
  Visitors = {v1, v2, v3}
  AutopsyCost = 2
  SpinCost = 1
  DailyCeiling = 8
  SpinCeiling = 2
  Caps = {3, 9}
  Costs = {1, 3}
  Unknown = Unknown
  None = None
  MaxTries = 3
  Funds = {1}
  Price = 1
  MaxConcurrent = 1
  MaxVersion = 3
SYMMETRY Alike
INVARIANTS JournalAgrees IrreversibleInItsTime CancellationUndoes CommandsCarriedOut
  SpendWithinCaps BooksAgree RefundIsFinal AttemptsAccounted AdmissionHolds SpinSpendBooked
CHECK_DEADLOCK FALSE
