SPECIFICATION GenSpec
CONSTANTS
  Engines = {"model.c"}
  Tokens = {0, 1, 2}
  Eos = 0
  Cap = 6
  RopeRows = 6
  Budget = 4
  Compress = 2
  ConvKernel = 3
  PleKernel = 2
  MinPrefill = 2
  MaxPrefill = 4
  MaxHistory = 4
  Options <- WithoutNucleus
  PromptsFed <- Prompt
  NoToken = NoToken
  MaxTokens = 2
  Weights <- AllWeights
  Draws = 4
INVARIANTS
  SamplesLikely
CHECK_DEADLOCK FALSE
