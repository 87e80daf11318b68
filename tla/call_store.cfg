SPECIFICATION FairSpec
CONSTANTS
  Processes = {p, q}
  Calls <- MCCalls
  OldRows <- MCOldRows
  Failing = TRUE
  Nows <- MCNows
  MaxCalls = 2
  MaxStarts = 2
  Day = 4
  Offset = 2
  Monday = 0
  MonthStarts <- MCMonthStarts
CHECK_DEADLOCK FALSE
INVARIANTS
  WritersFindEveryColumn
  EveryWriteIsKept
  ReportsAgree
  FiguresAreSound
  PeriodsHoldTheirCalls
PROPERTIES
  RowsStay
  MigrationRegroupsNothing
  OpeningEnds
  WritesEnd
