SPECIFICATION Spec
CONSTANTS
  Requests = {r1, r2}
  NoRequest = NoRequest
  Kinds = {"upload"}
  Ops = {"upload"}
  Existing = FALSE
  Failures = FALSE
  MaxProgress = 1
  MaxRestarts = 0
PROPERTIES
  UploadNotLost
CHECK_DEADLOCK FALSE
