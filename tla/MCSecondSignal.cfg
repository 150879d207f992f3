SPECIFICATION SpecEnd
CONSTANTS
  SIGNALS = 2
  ANSWERS = {"y", "n"}
PROPERTIES
  FurtherSignalsIgnored
