SPECIFICATION FairSpec
CONSTANTS
  Off = Off
  Empty = Empty
  Keys = {1, 2, 3, 4}
  Hashes = {0, 1, 2, 3, 4, 5, 6, 7}
  InitSlots = 4
  j1 = j1
  Readers = {"reader.c", "rowio.c", "storage.py"}
  NumRows = 4
  RowBytes = 2
  MaxRequests = 4
  ShortReads = {"rowio.c", "storage.py"}
  Failures = TRUE
  Engines = {"model.c", "model.py"}
  Tokens = {0, 1, 2}
  Eos = 0
  CutTokens = {0, 1}
  Cap = 6
  RopeRows = 6
  Budget = 4
  Compress = 2
  ConvKernel = 3
  PleKernel = 2
  MinPrefill = 2
  MaxPrefill = 6
  MaxHistory = 4
  CutHistory = 6
  Options <- CommandLines
  PromptsFed <- Prompt
  NoToken = NoToken
  MaxTokens = 3
  Weights <- AllWeights
  Draws = 4
  NumFiles = 2
  Names = {1, 2, 3}
  DataBytes = 2
  MaxEntries = 3
  Numbers <- Offsets
  Sizes = {0, 1, 2, 3}
  Word = 64
  Jobs = {j1}
  Plain = {"]", "1"}
  MaxText = 7
  InitBuf = 4
  Letters = {"s", "r", "e"}
  Marks = {"m"}
  Digits = {"1"}
  Spaces = {" ", "n"}
  Newlines = {"n"}
  Others = {"!"}
  Blank = " "
  Quote = "'"
  Wide = {}
  Contractions <- ContractionTails
  Tables <- Vocabularies
  Added <- AddedTokens
  MaxInput = 4
  Lengths = {1, 2, 3, 4, 5}
  Scores = {0, 1, 2}
INVARIANTS
  AllTypeOK
  ReadsRequestedRows
  RunFitsBlock
  ReadsEachRowOnce
  ProbingEnds
  FindsWhatIsStored
  IndexIsSound
  DescriptorsClosed
  DecodeMatchesPrefill
  SamplesLikely
  GeneratedIsFedAndPrinted
  EncodesAsSpecified
  ParsesAndFrees
  SkipsWholeValues
  SelectsLargest
PROPERTIES
  Terminates
CHECK_DEADLOCK FALSE
