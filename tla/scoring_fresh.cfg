SPECIFICATION FairSpec
CONSTANTS
  NoScore = NoScore
  Jobs = {j1, j2}
  Requests = {r1, r2, r3}
  Ops = {"role", "formula", "scrape", "delete"}
  UseArq = FALSE
  Overlap = FALSE
  Failures = FALSE
  MaxRestarts = 0
PROPERTIES
  FreshScores
CHECK_DEADLOCK FALSE
