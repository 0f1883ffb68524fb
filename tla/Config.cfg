SPECIFICATION Spec
CONSTANTS
  MaxEdits = 3
  MaxFaults = 1
INVARIANTS LocalConfigValid ComparedIsInUse QuietFilesInUse
PROPERTIES WatcherSettles FilesSettle
CHECK_DEADLOCK FALSE
