SPECIFICATION FairSpec
CONSTANTS
  NumBuckets = 2
  BucketOf <- TwoBuckets
  Concurrency = 1
  BacklogPerSlot = 2
  MaxAttempts = 2
  MaxSystemic = 2
CHECK_DEADLOCK FALSE
INVARIANTS
  CopyTypeOK
  NoIdleSlot
  OutcomesAreHonest
  NothingRunsAfterReturn
PROPERTIES
  AbortMeansNothingWorked
  ImplementsLedger
