SPECIFICATION Spec
CONSTANTS
  MaxPath = 9
  Paths <- DrivePaths
  Name <- FileName
  Tables = {"given"}
INVARIANTS DriveStaysRelative
CHECK_DEADLOCK FALSE
