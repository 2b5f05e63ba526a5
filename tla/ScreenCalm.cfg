SPECIFICATION CalmFairSpec
CONSTANTS
  MaxStarts = 3
  MaxScreens = 2
INVARIANTS ReaderKept VerdictIsOwn MonitorFed
PROPERTIES UpdateReleased SessionSpec
CHECK_DEADLOCK FALSE
