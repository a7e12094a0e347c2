SPECIFICATION Spec
CONSTANTS
  c1 = c1
  c2 = c2
  c3 = c3
  c4 = c4
  a1 = a1
  a2 = a2
  a3 = a3
  a4 = a4
  Nobody = Nobody
  Callers = {c1, c2, c3, c4}
  Attempts = {a1, a2, a3, a4}
  AttemptOf <- OwnAttempts
  InputOf <- SameInput
  Prices = {0}
  Funds = 0
  MaxFunds = 0
  Cap = 1
  Limit = 1
  MaxBrain = 0
  Deadline = 1
  Grace = 2
  ClaimLimit = 1
  ClearLimit = 3
  Happenings = {}
INVARIANTS UnchargedWithinSlots
CHECK_DEADLOCK FALSE
