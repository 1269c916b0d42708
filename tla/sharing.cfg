SPECIFICATION SharingSpec
CONSTANTS
  Users = {v, f}
  None = None
  Viewer = v
  Friend = f
  p1 = p1
  p2 = p2
  Persons = {p1, p2}
  Orgs = {o1}
  MaxChanges = 2
  Imports = {"linkedin", "contact"}
  Mails = {{"email", "broadcast"}, {"google", "human"}}
  Calls = {c1, c2}
  Cap = 1
  MaxOps = 2
  MaxCalls = 3
  Emails = {e1, e2}
  Sessions = {s1, s2}
  Callbacks = {b1, b2}
  Polls = {q1, q2}
INVARIANTS
  SharingTypeOK
  AnswersMatch
  PrivateIsHidden
  TokensFollowConsent
  AccountsReachable
PROPERTIES
  TrustRefines
  MergeKeepsContacts
  CallsEnd
CHECK_DEADLOCK FALSE
