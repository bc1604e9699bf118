SPECIFICATION Spec
CONSTANTS
  Experts = {0, 1, 2}
  Parts = 2
  Shapes <- EveryRow
  Threads = 2
  Budgets = {2}
  Statuses = {ok, eio}
  Zero = ok
INVARIANTS
  BuffersOutliveReads
CHECK_DEADLOCK FALSE
