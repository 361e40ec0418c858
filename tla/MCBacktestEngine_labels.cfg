\* The books that scripts/run_backtest.py provides: those of the label of the bar.
SPECIFICATION Spec
CONSTANTS
  Bps = 10
  NBars = 7
  TrainSize = 1
  TestSize = 3
  StepSize = 0
  OtherWarmup = 0
  Fast = 2
  Slow = 3
  Lookback = 3
  ZEntry = 1
  InitialCash = 20
  PositionSize = 2
  FractionNum = 1
  FractionDen = 2
  FeeBps = 1
  SlippageBps = 1
  Closes = {2, 7}
  BooksAt <- MCBooksAt
  BookAge = 1
PROPERTY
  TradingOnlyCosts
CHECK_DEADLOCK FALSE
