SPECIFICATION FairSpec
CONSTANTS
  Runs = {r1, r2}
  NoRun = NoRun
  Tokens = {}
  NoToken = NoToken
  HardTimeouts = {1}
  Grace = 1
  CleanupDelay = 4
  Window = 1
  MaxStarts = 2
  MaxCallbacks = 1
  MaxRestarts = 1
INVARIANTS
  TypeOK
  LiveRunIsSupervised
  AlarmCoversDeadlines
  JobIsAttended
  ContainerDiesFirst
PROPERTIES
  CleanupSparesLiveRuns
  OutcomeChangedOnlyByCallback
  JobIsForgotten
  ImplementsFairLifecycle
