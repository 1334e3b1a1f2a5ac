SPECIFICATION Spec
CONSTANTS
  Size = 3
  Type <- Kinds
  Latched <- Resets
  Configs <- PassConfigs
  MaxFailures = 0
INVARIANT FunctionValuePassed
CHECK_DEADLOCK FALSE
