SPECIFICATION Spec
CONSTANTS
  MaxEdits = 3
  MaxFaults = 0
PROPERTIES ChangesTakeEffect
CHECK_DEADLOCK FALSE
