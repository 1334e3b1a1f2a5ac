SPECIFICATION FairSpec
CONSTANTS
  main = main
  other = other
  None = None
  Poller = Poller
  Controller = {main, other}
  Ops <- OpsHostile
  MaxDevices = 1
  MaxActions = 2
  Counts = {0, 1}
  OpenErrors = {}
INVARIANTS IInv TypeOK NoLostWakeup
PROPERTIES StopReturns TriggerServed
CHECK_DEADLOCK FALSE
