SPECIFICATION Spec
CONSTANTS
  MaxSubs = 1
  MaxEvents = 7
  MaxTime = 4
  Skew = 1
  Lag = 0
  GraceLength = 2
CONSTANT Changes <- Refusing
CONSTANT Drifted = {FALSE}
INVARIANTS OnlyPausedInvoicesRefused
CHECK_DEADLOCK FALSE
