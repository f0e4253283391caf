SPECIFICATION FairSpec
CONSTANTS
  MaxAttempts = 2
  PostTries = 2
  MaxGets = 2
CHECK_DEADLOCK FALSE
PROPERTIES
  RunEnds
