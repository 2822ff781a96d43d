SPECIFICATION Spec
CONSTANTS
  s1 = s1
  s2 = s2
  s3 = s3
  Keys = {"key"}
  Key = "key"
  NoState = NoState
  FlopCt <- Flops
  MaxFloat = 9
  States = {s1, s2, s3}
  Sampleable = {s1, s2}
  Costs = {1}
  Models <- OneModel
  PSA <- Draft
  Population = 2
  MinPop = 2
  UseMeasured = 1
  NumIters = 1
  NumItersPotential = 0
  PotentialSize = 1
  PotentialIter = 2
  NumMeasure = 1
  NumRandom = 0
  RetryCount = 1
  NTrials = 2
  EarlyStopping = 0
  BatchSize = 1
  Ops = {"search"}
  Raises = FALSE
  Restarts = FALSE
  InitLogs <- EmptyLog
  MaxCalls = 2
INVARIANT ThroughputPerState
