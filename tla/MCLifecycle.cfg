SPECIFICATION SpecEnd
CONSTANTS
  SIGNALS = 3
  ANSWERS = {"y", "n", "eof"}
INVARIANTS
  FinishedOnce
  OrderlyEnd
PROPERTIES
  Ends

