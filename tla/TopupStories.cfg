SPECIFICATION StoriesSpec
CONSTANTS
  c1 = c1
  c2 = c2
  c3 = c3
  Callers = {c1, c2, c3}
  Operator = operator
  Nobody = Nobody
  CapPacks = 1
  SafeRetry = 0
  Remembered = 1
  MaxAttempts = 2
  MaxPayments = 2
  MaxNow = 1
  Mishaps = {}
  OldCalls = {o1}
  Window = 1
  Quiescence = 2
  MaxCharges = 1
  MaxRevision = 2
  MaxTicks = 4
SYMMETRY CallersAlike
INVARIANTS PaymentsAreTracked ChargesWithinCap
  CutoverIsSafe
CHECK_DEADLOCK FALSE
