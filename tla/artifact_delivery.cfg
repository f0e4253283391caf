SPECIFICATION DeliverySpec
CONSTANTS
  Runs = {r1, r2}
  NoRun = NoRun
  Tokens = {t1, t2}
  NoToken = NoToken
  HardTimeouts = {1}
  Grace = 1
  CleanupDelay = 4
  Window = 2
  MaxStarts = 2
  MaxCallbacks = 1
  MaxRestarts = 1
  MaxDownloads = 1
SYMMETRY DeliverySymmetry
INVARIANTS
  TokenWithinWindow
  NoStreamAfterFailure
PROPERTIES
  LinkKeepsWorking
  StreamComesFromItsRun
