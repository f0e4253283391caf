SPECIFICATION FairSpec
CONSTANTS
  r1 = r1
  r2 = r2
  Runs = {r1, r2}
  KindsOf <- OneOfEach
  NoRun = NoRun
  NumPosts = 2
  MaxProgress = 1
  MaxFailures = 1
CHECK_DEADLOCK FALSE
INVARIANTS
  LocalTypeOK
  AcknowledgedIsRecorded
  QuietRunsAreClosed
PROPERTIES
  StaleCallbacksChangeNothing
  JobComesFree
