SPECIFICATION FairSpec
CONSTANTS
  Requests = {r1, r2}
  NoRequest = NoRequest
  Kinds = {"upload", "google"}
  Ops = {"upload", "connect", "sync", "list", "cancel"}
  Existing = FALSE
  Failures = FALSE
  MaxProgress = 1
  MaxRestarts = 0
PROPERTIES
  TasksEnd
  RequestsEnd
CHECK_DEADLOCK FALSE
