SPECIFICATION Spec
CONSTANTS
  k1 = k1
  k2 = k2
  Keys = {k1, k2}
  States = {s1, s2}
  NoState = NoState
  FlopCt <- Flops
  Costs = {1, 2}
  MaxFloat = 9
  BatchSize = 2
  MaxContinuousError = 1
  Verbose = 1
  MaxInputs = 3
  MaxTrials = 2
INVARIANT TypeOK
INVARIANT BestIsFirstMinimum
INVARIANT ErrorStreak
INVARIANT ResultsAreRecorded
