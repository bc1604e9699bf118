SPECIFICATION AllSpec
CONSTANTS
  Experts = {0, 1, 2}
  Parts = 2
  Shapes <- CheckpointShapes
  Threads = 2
  Budgets = {0, 1, 2}
  Statuses = {ok, eio}
  Zero = ok
  StoreThreads = {t1, t2}
  Callers = {{t1}, {t1, t2}}
  Watched = t1
  Keys = {k1, k2}
  FutureIds = {1, 2, 3}
  StoreSlots = 1
  Pinned = {k1}
  MaxSpeculative = 1
  MaxPrefetches = 1
  CallsAlone = 5
  CallsTogether = 3
  NoKey = NoKey
  NoFuture = NoFuture
  NumRows = 4
  RowsPerShard = 2
  MaxRows = 2
  RowSlots = 2
  MaxCalls = 3
  ReadsFail = TRUE
  Off = Off
INVARIANTS
  AllTypeOK
  OneReadAtATime
  NeverDisappears
  PrefetchesCountedOnce
  CachedOrPending
  BuffersOutliveGoodCalls
  CachedWereRead
  VanishesOnlyIfNothingFits
PROPERTIES
  CallsReturn
CHECK_DEADLOCK FALSE
