SPECIFICATION Spec
CONSTANTS
  MaxEdits = 2
  MaxFaults = 0
PROPERTIES ReloadFollowsFiles
CHECK_DEADLOCK FALSE
