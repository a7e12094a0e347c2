SPECIFICATION FairSpec
CONSTANTS
  c1 = c1
  c2 = c2
  c3 = c3
  c4 = c4
  a1 = a1
  a2 = a2
  a3 = a3
  a4 = a4
  Nobody = Nobody
  Callers = {c1, c2}
  Attempts = {a1}
  AttemptOf <- OneAttempt
  InputOf <- SameInput
  Prices = {1}
  Funds = 1
  MaxFunds = 1
  Cap = 1
  Limit = 1
  MaxBrain = 1
  Deadline = 1
  Grace = 2
  ClaimLimit = 1
  ClearLimit = 4
  Happenings = {"crash", "time", "connloss", "activate", "dbfault"}
PROPERTIES EndsAreJust EveryClaimEnds
CHECK_DEADLOCK FALSE
