\* Two inputs, built two at a time.
CONSTANTS
  h1 = h1
  batch_size = 2
  n_parallel = 2
  Helper <- OneHelper
SPECIFICATION FairSpec
INVARIANTS
  MeasuredAlone
  LibraryIsThere
  CostsMeanSuccess
  CleanedUp
PROPERTIES
  BatchReturns
