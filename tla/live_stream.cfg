SPECIFICATION Spec
CONSTANTS
  MaxAttempts = 2
  PostTries = 2
  MaxGets = 3
CHECK_DEADLOCK FALSE
INVARIANTS
  StreamTypeOK
  OneClientAtATime
  SuccessMeansWholeZip
  TimersSpareDownloads
PROPERTIES
  StagesArriveInOrder
