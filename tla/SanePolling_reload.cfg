SPECIFICATION Spec
CONSTANTS
  main = main
  other = other
  None = None
  Poller = Poller
  Controller = {main, other}
  Ops <- OpsReload
  MaxDevices = 2
  MaxActions = 1
  Counts = {1, 2}
  OpenErrors = {"denied", "busy"}
INVARIANTS CleanupUnlockHarmless OwnScriptHasDevice TriggeredOptionValid
PROPERTY StopJoinsAll
CHECK_DEADLOCK FALSE
