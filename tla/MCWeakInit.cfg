SPECIFICATION FairSpecW
CONSTANTS
  NUM_RESULTS = 2
  NUM_SHARED_CPUS = 1
  RUNS = 0
  ENTRIES = 0
  EARLY = {}
PROPERTIES
  WaitsForInitialization
