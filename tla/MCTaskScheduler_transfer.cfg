SPECIFICATION FairSpec
CONSTANTS
  NumTasks = 3
  Strategy = "round-robin"
  TransferCalls = {1}
  NumMeasureTrials = 5
  NumMeasuresPerRound = 3
  EarlyStopping <- None
  PerTaskEarlyStopping = 2
  LoadLogFile = TRUE
  Costs = {1}
  MaxFloat = 9
  TaskWeights <- EqualWeights
  FlopCts <- Flops
  SimilarityTag <- OneGroup
  AlphaNum = 1
  AlphaDen = 5
  Beta = 2
  BackwardWindowSize = 1
  GroupSlack = 0
  InitLogs <- NoLog
  MaxStarts = 2
INVARIANT EveryTaskTuned
PROPERTY Terminates
