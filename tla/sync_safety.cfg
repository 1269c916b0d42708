SPECIFICATION Spec
CONSTANTS
  Requests = {r1, r2}
  NoRequest = NoRequest
  Kinds = {"upload", "google"}
  Ops = {"upload", "connect", "sync", "list", "cancel"}
  Existing = FALSE
  Failures = TRUE
  MaxProgress = 1
  MaxRestarts = 1
INVARIANTS
  TypeOK
  SlotHasTask
PROPERTIES
  RecoveryClaims
SYMMETRY symmetry
CHECK_DEADLOCK FALSE
