SPECIFICATION ReadSpec
CONSTANTS
  Readers = {"reader.c"}
  NumRows = 3
  RowBytes = 2
  MaxRequests = 2
  ShortReads = {"reader.c"}
  Failures = FALSE
INVARIANTS
  ReadsRequestedRows
CHECK_DEADLOCK FALSE
