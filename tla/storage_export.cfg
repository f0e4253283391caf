SPECIFICATION FairSpec
CONSTANTS
  BatchOf <- TwoBatches
  SizeOf <- Sizes
  Concurrency = 3
  MaxBytes = 3
  MaxAttempts = 2
  Manifest = Manifest
  MissingList = MissingList
INVARIANTS
  ExportTypeOK
  GateIsSound
  ArchiveIsHonest
PROPERTIES
  ImplementsLedger
CHECK_DEADLOCK FALSE
