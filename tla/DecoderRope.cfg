SPECIFICATION Spec
CONSTANTS
  Engines = {"model.c"}
  Tokens = {1, 0}
  Eos = 0
  Cap = 6
  RopeRows = 2
  Budget = 10
  Compress = 2
  ConvKernel = 3
  PleKernel = 2
  MinPrefill = 2
  MaxPrefill = 5
  MaxHistory = 5
INVARIANTS
  DecodeMatchesPrefill
CHECK_DEADLOCK FALSE
