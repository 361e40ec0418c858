\* Two folds of three bars; thin books, of the time of the decision; a strategy
\* of each kind.
SPECIFICATION Spec
CONSTANTS
  Bps = 10
  NBars = 7
  TrainSize = 1
  TestSize = 3
  StepSize = 0
  OtherWarmup = 0
  Fast = 2
  Slow = 3
  Lookback = 3
  ZEntry = 1
  InitialCash = 20
  PositionSize = 2
  FractionNum = 1
  FractionDen = 2
  FeeBps = 1
  SlippageBps = 1
  Closes = {2, 7}
  BooksAt <- MCBooksAt
  BookAge = 0
INVARIANTS
  TypeOK
  ExposureIsBounded
  SignalsFollowTheirNames
  DrawdownIsWorstLoss
PROPERTIES
  BlownAccountOnlyUnwinds
  TradingOnlyCosts
  ShortfallsAreCounted
  BarsOnlyMoveForward
CHECK_DEADLOCK FALSE
