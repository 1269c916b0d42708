SPECIFICATION FairSpec
CONSTANTS
  None = None
  Users = {u1, u2}
  Persons = {p1, p2}
  Requests = {r1, r2}
  Workers = {}
  Ops = {"start", "enqueue", "enrich"}
  Earlier = {{}}
  Failures = FALSE
  MaxRetries = 2
  MaxRestarts = 1
INVARIANTS
  OneTaskPerUser
PROPERTIES
  WorkEnds
CHECK_DEADLOCK FALSE
