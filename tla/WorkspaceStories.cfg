SPECIFICATION StoriesSpec
CONSTANTS
  MaxSubs = 2
  MaxEvents = 8
  MaxTime = 5
  Skew = 1
  Lag = 0
  GraceLength = 2
  Changes <- Dunning
  Drifted = {FALSE}
  m1 = m1
  m2 = m2
  Members = {m1, m2}
  Nobody = Nobody
  Kinds = {"voice", "strategy", "killtest"}
  Interviewed = {"strategy", "killtest"}
  Fields = {1, 2}
  Enough = 1
  MaxDocs = 3
  MaxBegun = 7
  MaxFeedback = 2
  Operations = {}
  Surprises = {}
INVARIANTS
  RowIsCoherent
  SettledRowAgrees
  OneLife
  RefusedAfterPause
  InForceAsConfirmed
  NoEditIsLost
PROPERTIES
  GraceWindowHolds
  OwnerPauseStands
CHECK_DEADLOCK FALSE
