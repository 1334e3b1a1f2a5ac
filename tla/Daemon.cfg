SPECIFICATION FairSpec
CONSTANTS
  client = client
  local = local
  None = None
  DbusManager = {client}
  SignalManager = {local}
  MaxEvents = 2
INVARIANTS TypeOK SessionHasScanner NoNestedStop
PROPERTIES PollingResumes ScannerNoticed HandlersReturn
CHECK_DEADLOCK FALSE
