SPECIFICATION Spec
CONSTANTS
  MACHINES <- MCMachines
  L2_FT2000 = 64
  TEXTROOM = 5
  LISTROOM = 6
  CORES = 8
  SETTINGS <- MCSettings
  EXTRAS = {20}
  CACHELINES <- MCLines
  ACCESSES = {1, 2}
  MODES = {"M", "R"}
  MEMSIZES = {64, 200, 1000}
  OFFSETS = {8}
  LINE = 16
  HUGEPAGE = 256
  WORD32 = 1024
  WORD64 = 1000000
  MEMORY = 1150
INVARIANTS
  CachesAsFound
  OverrunsKnown
  SmallCachesFlushed
  BufferHolds
