SPECIFICATION Spec
CONSTANTS
  main = main
  other = other
  None = None
  Poller = Poller
  Controller = {main, other}
  Ops <- OpsSteady
  MaxDevices = 1
  MaxActions = 1
  Counts = {1}
  OpenErrors = {}
INVARIANT ScriptHasDevice
