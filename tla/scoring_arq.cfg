SPECIFICATION Spec
CONSTANTS
  NoScore = NoScore
  Jobs = {j1, j2}
  Requests = {r1, r2}
  Ops = {"role", "formula", "upload", "scrape", "delete"}
  UseArq = TRUE
  Overlap = TRUE
  Failures = TRUE
  MaxRestarts = 1
INVARIANTS
  TypeOK
  InsertsSucceed
SYMMETRY symmetry
CHECK_DEADLOCK FALSE
