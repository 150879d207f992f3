SPECIFICATION Spec
CONSTANTS
  SETUPS <- MCSetups
  MEMSIZES = {6, 17, 64}
  SEEDS = {0, 5}
  TIMES = {0, 1}
  CALLS = 2
  PAGE = 8
  UNROLL = 2
  TOTAL = 30
INVARIANTS
  EachNumberOnce
  ChainVisitsOnce
CHECK_DEADLOCK FALSE
