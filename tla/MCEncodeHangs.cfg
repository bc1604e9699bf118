SPECIFICATION EncodeFairSpec
CONSTANTS
  Letters = {"r"}
  Marks = {}
  Digits = {"1"}
  Spaces = {" ", "n", "w"}
  Newlines = {"n"}
  Others = {}
  Blank = " "
  Quote = "'"
  Wide = {"w"}
  Contractions = {}
  Tables <- NoMerges
  Added = {}
  MaxInput = 3
PROPERTIES
  EncodeReturns
CHECK_DEADLOCK FALSE
