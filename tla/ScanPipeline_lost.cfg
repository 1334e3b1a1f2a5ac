SPECIFICATION Spec
CONSTANTS
  button = button
  byHand = byHand
  None = None
  Scan = {button, byHand}
  Kept = {byHand}
  MaxPages = 2
  Channels = {"gdrive"}
  PageThreads = 2
  Retries = 2
  MaxFailures = 2
  MaxKills = 0
INVARIANTS NoScanLost
CHECK_DEADLOCK FALSE
