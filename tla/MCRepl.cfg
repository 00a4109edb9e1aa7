SPECIFICATION Spec
CONSTANTS
  CommandLines <- MCCommandLines
  Lines <- MCLines
  MaxLines = 4
  Keys = {"semicolon", "quote"}
  LineSize = 4
  HistoryMax = 2
  MayFail = TRUE
INVARIANTS
  TypeOK
  InteractiveIsScript
  RunsInOrder
  StatusTellsTheRun
  OrderIsFree
  EnterAlwaysFits
  ScreenShowsLine
  HistoryIsRecent
CHECK_DEADLOCK FALSE
