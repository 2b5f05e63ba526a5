SPECIFICATION Spec
CONSTANTS
  Base = 8
  ReportType = 2
  Unit = 9
  Full = 4
  CmdBuf = 13
  FwBuf = 60
  Fills = {0, 1}
  MaxTotal = 6
  Images <- MCImages
INVARIANTS ReportIsCommand CommandsCounted ProgressHonest AnswersTold
CHECK_DEADLOCK FALSE
