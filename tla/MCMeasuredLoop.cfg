SPECIFICATION SpecLoop
CONSTANTS
  CPUS = {c1, c2}
  LOADS = 2
  MASTER = c1
  SETUPS <- AllSetups
  TIMES = {3, 4, 9}
  OVERHEAD = 4
  CACHE_SIZE = 10000
  NUM_RESULTS = 2
  WRAP = 1048576
INVARIANTS
  TimestampWorks
  AccessWithdrawn
  ReadsWhatWasPlaced
  CountsWhatWasRead
PROPERTIES
  FastestReported
CHECK_DEADLOCK FALSE
