SPECIFICATION SteadySpec
CONSTANTS
  MaxStarts = 2
  MaxScreens = 2
PROPERTY BackKeepsUpdate
CHECK_DEADLOCK FALSE
