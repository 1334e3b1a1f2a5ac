SPECIFICATION UpSpec
CONSTANTS
  client = client
  local = local
  None = None
  DbusManager = {client}
  SignalManager = {local}
  MaxEvents = 2
PROPERTY TermTerminates
CHECK_DEADLOCK FALSE
