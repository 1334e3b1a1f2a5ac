SPECIFICATION FairSpec
CONSTANTS
  MaxScanners = 2
  MaxBackends = 2
  Driver <- MCDriver
  MaxEvents = 2
INVARIANTS TypeOK ClaimHasPoller ChangeNotLost AloneIsSafe
PROPERTIES SlotsOutlivePollers HandlersReturn PollingComesBack
CHECK_DEADLOCK FALSE
