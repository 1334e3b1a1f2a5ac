SPECIFICATION FairSpec
CONSTANTS
  Size = 3
  Type <- Kinds
  Latched <- Resets
  Configs <- PassConfigs
  MaxFailures = 1
INVARIANTS TypeOK SaneTableInBounds EveryActionStands OneScriptPerOption ActionsMatchChanges
PROPERTY PressFires
CHECK_DEADLOCK FALSE
