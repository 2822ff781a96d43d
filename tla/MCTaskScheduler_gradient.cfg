SPECIFICATION FairSpec
CONSTANTS
  NumTasks = 2
  Strategy = "gradient"
  TransferCalls = {}
  NumMeasureTrials = 5
  NumMeasuresPerRound = 2
  EarlyStopping = 3
  PerTaskEarlyStopping = 2
  LoadLogFile = TRUE
  Costs = {1, 2}
  MaxFloat = 9
  TaskWeights <- EqualWeights
  FlopCts <- Flops
  SimilarityTag <- OneGroup
  AlphaNum = 1
  AlphaDen = 5
  Beta = 2
  BackwardWindowSize = 1
  GroupSlack = 0
  InitLogs <- NoLog
  MaxStarts = 1
INVARIANT BudgetRespected
INVARIANT HistoryFalls
INVARIANT BestScoreIsCurrent
INVARIANT GradientNotPositive
PROPERTY LoopTunesLiveTasks
PROPERTY Terminates
