SPECIFICATION FairSpec
CONSTANTS
  button = button
  byHand = byHand
  None = None
  Scan = {button, byHand}
  Kept = {byHand}
  MaxPages = 2
  Channels = {"gdrive", "email"}
  PageThreads = 2
  Retries = 1
  MaxFailures = 2
  MaxKills = 1
INVARIANTS TypeOK DeliveredWhole CopiesInOrder DirectoryOutlivesPages OpenScansListed
PROPERTIES EveryScanEnds EveryScanDelivered DeliveryKept
CHECK_DEADLOCK FALSE
