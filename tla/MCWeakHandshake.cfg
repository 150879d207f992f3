SPECIFICATION SpecW
CONSTANTS
  NUM_RESULTS = 2
  NUM_SHARED_CPUS = 1
  RUNS = 1
  ENTRIES = 1
  EARLY = {1}
INVARIANTS
  ExclusiveAccess
  SeenFromPartner
  UsesWhatWasPosted
