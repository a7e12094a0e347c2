SPECIFICATION StoriesSpec
CONSTANTS
  c1 = c1
  c2 = c2
  Callers = {c1, c2}
  OldCalls = {o1}
  SafeRetry = 2
  Window = 1
  Quiescence = 2
  MaxCheckouts = 2
  MaxAttempts = 2
  MaxRevision = 2
  MaxTicks = 3
  Announced <- NoInvoice
  Mishaps = {"lost", "restore"}
INVARIANTS
  OneDoor
  RowKnowsItsDoor
PROPERTIES
  EventuallyAgrees
CHECK_DEADLOCK FALSE
