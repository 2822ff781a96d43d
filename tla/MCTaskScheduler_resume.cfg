SPECIFICATION Spec
CONSTANTS
  NumTasks = 2
  Strategy = "round-robin"
  TransferCalls = {}
  NumMeasureTrials = 6
  NumMeasuresPerRound = 3
  EarlyStopping <- None
  PerTaskEarlyStopping = 1
  LoadLogFile = TRUE
  Costs = {1}
  MaxFloat = 9
  TaskWeights <- EqualWeights
  FlopCts <- Flops
  SimilarityTag <- OneGroup
  AlphaNum = 1
  AlphaDen = 5
  Beta = 2
  BackwardWindowSize = 1
  GroupSlack = 0
  InitLogs <- ShortLogs
  MaxStarts = 2
INVARIANT EveryTaskTuned
INVARIANT ResumeKnowsBest
