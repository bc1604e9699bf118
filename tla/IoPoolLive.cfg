SPECIFICATION FairSpec
CONSTANTS
  Workers = {w1, w2}
  Jobs = {j1, j2}
  Statuses = {ok, eio}
  Zero = ok
  InitCap = 2
  NoJob = NoJob
  Nobody = Nobody
  Client = Client
PROPERTIES
  WaitReturns
  DestroyReturns
  JobsFinish
  ImplementsJobQueue
