SPECIFICATION Spec
CONSTANTS
  MaxAttempts = 2
  PostTries = 1
  MaxGets = 2
CHECK_DEADLOCK FALSE
INVARIANTS
  CompletedDownloadSucceeds
