SPECIFICATION RowsSpec
CONSTANTS
  NumRows = 4
  RowsPerShard = 2
  MaxRows = 3
  RowSlots = 2
  MaxCalls = 3
  ReadsFail = FALSE
INVARIANTS
  RowsArrive
CHECK_DEADLOCK FALSE
