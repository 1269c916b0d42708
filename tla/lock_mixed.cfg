SPECIFICATION Spec
CONSTANTS
  None = None
  Users = {u1, u2}
  Contacts = {i1, i2}
  Profiles = {p1, p2}
  Requests = {r1}
  Conns = {c1, c2, c3}
  PoolSize = 2
  Failures = TRUE
  MaxCommits = 2
INVARIANTS
  TypeOK
  FirstTransactionExclusive
PROPERTIES
  LocksLeft
SYMMETRY symmetry
CHECK_DEADLOCK FALSE
