SPECIFICATION FairSpec
CONSTANTS
  Scanners <- AllScanners
  KeySets <- Fingers
  Trigger <- OnPress
  MaxFailures = 2
INVARIANTS TypeOK NoStaleButton
PROPERTIES OncePerPress HeardAgain
