SPECIFICATION Spec
CONSTANTS
  s1 = s1
  s2 = s2
  s3 = s3
  Keys = {"key"}
  Key = "key"
  NoState = NoState
  FlopCt <- Flops
  MaxFloat = 9
  States = {s1, s2, s3}
  Sampleable = {s1, s2}
  Costs = {1}
  Models <- Learned
  PSA <- Draft
  Population = 2
  MinPop = 2
  UseMeasured = 1
  NumIters = 1
  NumItersPotential = 1
  PotentialSize = 1
  PotentialIter = 2
  NumMeasure = 1
  NumRandom = 0
  RetryCount = 1
  NTrials = 2
  EarlyStopping = 1
  BatchSize = 1
  Ops = {"continue", "search", "best"}
  Raises = TRUE
  Restarts = TRUE
  InitLogs <- OldLog
  MaxCalls = 3
INVARIANT TypeOK
PROPERTY KeepsPromise
INVARIANT HeapKeepsBest
