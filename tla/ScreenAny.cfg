SPECIFICATION Spec
CONSTANTS
  MaxStarts = 1
  MaxScreens = 2
INVARIANTS TypeOK FlagHasOwner
CHECK_DEADLOCK FALSE
