SPECIFICATION Spec
CONSTANTS
  Runs = {r1}
  NoRun = NoRun
  Tokens = {}
  NoToken = NoToken
  HardTimeouts = {2}
  Grace = 1
  CleanupDelay = 8
  Window = 1
  MaxStarts = 1
  MaxCallbacks = 1
  MaxRestarts = 0
INVARIANTS
  DownloadTimeoutMeasuresSilence
