\* Connections fail and close, and the script may be stopped at any time.
\* A stopped system stops, and so may one whose stop() does not return.
SPECIFICATION FairSpec
CONSTANTS
  binance = binance  coinbase = coinbase  btc = btc  eth = eth
  Clients <- MCClients
  SnapshotClients <- MCSnapshotClients
  Symbols <- MCSymbols
  QueueSize = 2
  BaseBackoff = 2
  MaxBackoff = 3
  MaxConns <- MCMaxConns
CHECK_DEADLOCK FALSE
INVARIANTS
  TypeOK
  BooksFromOneConnection
  BackoffFollowsFailures
PROPERTIES
  ClearedBooksLostTheirConnection
  ReconnectsUntilStopped
  StopReturnsWithRoom
