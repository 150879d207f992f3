SPECIFICATION FairSpec
CONSTANTS
  NUM_RESULTS = 2
  NUM_SHARED_CPUS = 2
  RUNS = 2
  ENTRIES = 1
INVARIANTS
  AckFromPartner
  BufferGivenBack
  PlacedForMeasurement
PROPERTIES
  NoAckLost
  Terminates
  IsRemoteCall
