SPECIFICATION Spec
CONSTANTS
  None = None
  Users = {u1}
  Persons = {p1, p2}
  Requests = {r1, r2}
  Workers = {w1, w2}
  Ops = {"start", "status"}
  Earlier = {{p1}, {p2}}
  Failures = TRUE
  MaxRetries = 2
  MaxRestarts = 1
INVARIANTS
  TypeOK
  ClaimExclusive
  CompleteIsSettled
PROPERTIES
  QueueRefines
SYMMETRY symmetry
CHECK_DEADLOCK FALSE
