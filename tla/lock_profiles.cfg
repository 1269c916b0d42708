SPECIFICATION FairSpec
CONSTANTS
  None = None
  Users = {u1, u2}
  Contacts = {}
  Profiles = {p1, p2, p3}
  Requests = {r1}
  Conns = {c1, c2}
  PoolSize = 1
  Failures = FALSE
  MaxCommits = 2
PROPERTIES
  ImportsEnd
  SessionsServed
CHECK_DEADLOCK FALSE
