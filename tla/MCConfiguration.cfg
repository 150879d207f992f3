SPECIFICATION SpecConfig
CONSTANTS
  CORES = 3
  ALLOWED <- MCAllowed
  CPU_LISTS <- MCCpuLists
  SHARE_LISTS <- MCShareLists
  BIND_LISTS <- MCBindLists
  INPUTS <- MCInputs
  STARTS <- MCStarts
  INVALID = INVALID
INVARIANTS
  ThreadsExist
  OwnCpu
  MemoryAsNamed
  ListAsWritten
  SizesKept
  LegendMatchesResult
