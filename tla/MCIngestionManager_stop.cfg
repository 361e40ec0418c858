\* The consumer ends with a full queue while a lost Binance connection is
\* being unwound.
SPECIFICATION FairSpec
CONSTANTS
  binance = binance  coinbase = coinbase  btc = btc  eth = eth
  Clients <- MCClients
  SnapshotClients <- MCSnapshotClients
  Symbols <- MCSymbols
  QueueSize = 1
  BaseBackoff = 2
  MaxBackoff = 3
  MaxConns <- MCMaxConns
CHECK_DEADLOCK FALSE
PROPERTY
  StopReturns
