SPECIFICATION FairSpec
CONSTANTS
  trigger = trigger
  index = index
  table = table
  Objects = {trigger, index, table}
  Skippable <- MCSkippable
  SkipLimit = 1
  NumRows = 2
  Modes = {"edge", "postgres", "backup", "backup_only", "storage", "storage_helper", "db_clone", "probe", "inspect"}
  CallbackAttempts = 4
  DownloadAttempts = 3
  MaxLate = 2
INVARIANTS
  RuntimeTypeOK
  SuccessIsEarned
  NothingChangedIsTrue
  OneAcknowledgedOutcome
  RestoreVerdicts
PROPERTY
  RunEnds
CHECK_DEADLOCK FALSE
