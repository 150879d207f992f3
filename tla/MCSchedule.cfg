SPECIFICATION SpecReport
CONSTANTS
  KERNELS <- MCKernels
  ACCURACY = 2
  LIMITED = TRUE
  STANDALONE = FALSE
  LINE = 3
  MAX_ADD_INFO_STR = 6
INVARIANTS
  EachSizeMeasured
  CoarseToFine
  RowsAsMeasured
  QuickviewShowsRows
  TextsKept
PROPERTIES
  LoopEnded
