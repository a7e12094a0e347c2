SPECIFICATION BrainSpec
CONSTANTS
  Members = {m1, m2}
  Nobody = Nobody
  Kinds = {"voice", "killtest"}
  Interviewed = {"killtest"}
  Fields = {1}
  Enough = 1
  MaxDocs = 2
  MaxBegun = 7
  MaxFeedback = 0
  Operations = {"write", "answer", "submit", "confirm", "activate"}
  Surprises = {}
INVARIANTS LatestActivationIsCurrent
CHECK_DEADLOCK FALSE
