SPECIFICATION StoriesSpec
CONSTANTS
  c1 = c1
  c2 = c2
  c3 = c3
  c4 = c4
  a1 = a1
  a2 = a2
  a3 = a3
  a4 = a4
  Nobody = Nobody
  Callers = {c1, c2, c3}
  Attempts = {a1, a2, a3}
  AttemptOf <- OwnAttempts
  InputOf <- OneDiffers
  Prices = {0, 1, 2}
  Funds = 2
  MaxFunds = 2
  Cap = 1
  Limit = 2
  MaxBrain = 0
  Deadline = 1
  Grace = 2
  ClaimLimit = 1
  ClearLimit = 3
  Happenings = {}
  p1 = p1
  Profiles = {p1}
  ProfileOf <- OneProfile
  Documents <- BothDocuments
  Credits = 2
  BuildCap = 1
  Builders = {c3}
  Turns = {"crash", "dbfault", "pause", "configure"}
INVARIANTS TypeOK OneVendorRun ChargesAreDue OneIncludedBuild LostDebitsAreReported VendorCallsWithinLimit
PROPERTIES ImplementsContract
CHECK_DEADLOCK FALSE
