# TLA+ models of the market data platform

Modules, model-checking runs and proofs for the parts of the platform whose
correctness depends on the order of events: the live order books, the
TimescaleDB writer, the replay of the logged books, and the backtest engine with
its strategies and metrics. TLC checks every module on small instances; TLAPS
proves every safety property that the passing runs check for every market, bound
and set of faults. Paths below are relative to `src/`.

## 1. Inventory

A pipeline is one process on one asyncio event loop. Exchange clients normalize
messages into one bounded `asyncio.Queue`; one consumer drains it into the
order books (`scripts/run_orderbook.py`) or the database writer
(`scripts/run_pipeline.py`). Later, and offline, the logged book events are
replayed into books for the backtests.

    exchange -> client -> IngestionManager.queue -> OrderBookRegistry -> reader
                                                \-> TimescaleWriter -> TimescaleDB
                                 TimescaleDB -> OrderBookReplayer -> BacktestEngine

| component | state | operations | hard behaviour | what makes it correct |
|---|---|---|---|---|
| order book `src/orderbook/book.py` | `bids`, `asks`, `last_update_id` | `clear`, `apply_snapshot`, `apply_levels` | a size of 0 removes a level | shows what the messages said |
| Binance reconciler `src/orderbook/reconciler.py` | book, `_synced`, `_awaiting_first_diff`, `_pending_diffs` | `handle_snapshot`, `handle_diff`, `handle_connection_event`, `_drain_buffer` | the REST snapshot races the diffs; gaps; a bounded buffer | a synced book is the exchange's book at `last_update_id`; a missed diff is never skipped |
| Coinbase reconciler, same file | the same without ids | the same | nothing in the data shows a loss | exact while nothing is lost, right again after each snapshot |
| registry `src/orderbook/manager.py` | a reconciler per (exchange, symbol) | `run`, `_request_resync`, `is_synced`, `get_book` | a resync becomes a task of its own, which outlives the connection | see the reconcilers; a stale book is withdrawn |
| client base `src/ingestion/base.py` | running flag, backoff | `run_forever`, `stop`, `_emit_connection_event` | reconnect and backoff, cancellation | every connection is reported, in order with its messages |
| Binance client `src/ingestion/binance_client.py` | websocket, snapshot task, resync tasks | `_connect_and_stream`, `_fetch_snapshot_impl`, `trigger_resync`, `_handle_message` | `put_nowait` on a full queue; failed fetches; late snapshots | a cleared book gets a snapshot |
| Coinbase client `src/ingestion/coinbase_client.py` | websocket | the same, resync by a second subscribe | `put_nowait` on a full queue | as above |
| ingestion manager `src/ingestion/manager.py` | queue, tasks, clients | `start`, `stop`, `events`, `request_resync` | several producers on one bounded queue; cancellation at any await | order of each producer is kept; a client's trouble is its own; `stop` returns |
| writer `src/storage/timescale/writer.py` | two buffers, counters, last flush | `run`, `handle_event`, `flush`, `periodic_flush`, `close` | two tasks inside one `flush`; errors and cancellation at any await | each row is waiting or stored, none counted twice |
| replay `src/orderbook/replay.py` | none (the `book_events` table) | `reconstruct` | order of timestamps against order of arrival | the book of that moment, and nothing later |
| execution and fees `src/backtest/execution.py`, `costs.py` | none | `simulate_market_order`, `calculate_fee` | thin and one-sided books | never better than the book, never more than was asked |
| engine `src/backtest/engine.py` | cash, position, shortfalls | `run` | partial fills over a long run of signals | bounded exposure, no free money, no silent shortfall |
| walk-forward `src/backtest/walkforward.py` | none | `split` | window arithmetic | no bar tested twice, none past the end |
| strategies, metrics `src/backtest/strategies/`, `metrics.py` | none | `generate_signal`; `total_return`, `max_drawdown`, `sharpe_ratio`, `buy_and_hold_return` | windows and peaks that are off by one look plausible | say what their names say |
| bar sources `src/backtest/data.py`, `scripts/backfill_binance_klines.py` | none | one query or file each | bars are labelled by their start | - |
| Mongo repository `src/storage/mongo/` | external | one call per method | none: no process calls it | one portfolio per user and name |
| schemas `infra/`, config `src/config.py`, scripts | - | declarative, wiring | - | - |

Interactions: clients call the queue (`await put`, `put_nowait`); the registry
calls reconcilers, and they call back (`resync_cb`) into the manager, which
calls the client's `trigger_resync`; the main task and `periodic_flush` share
the writer's buffers.

`PROJECT.json` lists under `hazards` what is hard to test here, at its line,
with the properties that look at it.

## 2. The modules

| module | models |
|---|---|
| `OrderBook` | the book's maps and how messages change them |
| `Market` | the exchange, as the clients see it: `BookAt[n]`, diffs (U, u), depth-limited snapshots, and `Shows(book, n)` |
| `ReconcilingBookManager` | the events, and the bounded buffer both reconcilers use |
| `BinanceReconciler`, `CoinbaseReconciler` | the reconcilers: one operator per method, from record to record |
| `LiveBook` | abstract: what a reader of the registry is promised |
| `BinanceFeed` | exchange, `BinanceClient`, its tasks, the queue, the registry; refines `LiveBook` |
| `CoinbaseFeed` | the same for Coinbase; refines `LiveBook` while nothing is lost |
| `IngestionManager` | `run_forever` of several clients on one queue, the registry with several symbols, `stop` and cancellation |
| `TimescaleWriter` | both tasks of the writer, from one await to the next |
| `BookReplay` | the log the writer makes of Binance connections, the retention policy, the query and `reconstruct`, beside the live `BinanceReconciler` |
| `Execution`, `Strategies`, `Metrics` | the walk through a book and the fee; the two strategies; total return and drawdown |
| `BacktestEngine` | walk-forward folds and the engine's loop over bars |
| `MC...` | the small markets and books that TLC uses |
| `MarketProofs`, `BinanceFeedProofs`, `CoinbaseFeedProofs` | proofs about books, the feeds and their reconcilers |
| `IngestionManagerProofs`, `TimescaleWriterProofs`, `BookReplayProofs`, `BacktestEngineProofs` | proofs about the module of that name |
| `LeastNumber` | induction for the proofs: iterated and recursive functions |

`OrderBook` < `Market` < `ReconcilingBookManager` < reconcilers < feeds and
`BookReplay` extend each other in that order; `BacktestEngine` extends `Execution`,
`Strategies` and `Metrics`. `IngestionManager` stands alone: it has every client
and symbol at once and reduces a reconciler to the connections its diffs came
from, which is what the feeds, with one symbol each, cannot show.

### How state and actions correspond to the code

**An action is the code from one `await` to the next.** Nothing else on an event
loop can interleave. A handler of a reconciler awaits nothing, so it is one
action with everything it calls: `ConsumeDiff` is `OrderBookRegistry.run` taking
one event, `handle_diff`, the drain, and the creation of the resync task if the
handler asked for one.

*Reconcilers.* `rec.lastId = NoId` is `last_update_id is None`; `rec.resync` is
the call of `resync_cb`, consumed by the registry. `DrainStep` is one iteration
of `_drain_buffer`, which ends where an iteration changes nothing.

*Clients.* `phase` is the place in `run_forever`: `connecting` (also the backoff),
`opening` (the `connected` event waits for room), `streaming`, `closing` (the
`disconnected` event waits for room). `fetch[f]` is a snapshot fetch: `Initial`
is the `snapshot_task` that `_connect_and_stream` cancels, the members of
`Tasks` are resync tasks, which nobody cancels. `LoseDiff` is `put_nowait`
raising `QueueFull`: the handler's boundary turns it into a `malformed_message`
event, whose task waits for room (`malformed`).

*Writer.* `lists` keeps every list object of a table, since `flush` hands a list
to the driver and replaces the attribute afterwards. `Acquired`, `DriverReads`
and `CallReturns` are the steps of one flush; `DriverReads` is apart because the
driver reads the list some time after it is given it. `CutOff` is an exception
that leaves `flush` at an await. `stage` is the shutdown: `run`'s `finally`
clause, its last flush, `close`.

*Manager.* `phase[c]` is the place of a client in `run_forever`: besides those of
the feeds, `unwinding` (awaiting the `snapshot_task` it has cancelled),
`reporting` (the `disconnected` event waits for room), `sleeping` (the backoff),
`cancelled`. `sources` stands for `OrderBookRegistry._books`. `Stop` is the end of
a script: its consumer ends and `IngestionManager.stop` cancels every client,
which `CancelledAt` takes out of every await but one; `GatherReturns` is the end
of `stop`. What the clients do between the end of the consumer and the call of
`stop` they may as well do before, so the two are one action.

*Replay.* `log` holds the events whose rows are in `book_events`, with the
event's timestamp: the exchange's for a diff, the local clock's at parsing for a
snapshot. `Selected` is the query, and `reconstruct` the loop over its rows, as
a recursive function over the moments of the clock: `ApplyGroup` applies what
`groupby` makes of the rows of one moment, which are one event's, since no two
events have the same timestamp. An event without levels leaves no row.
`Reconnect` is a lost connection, with the time until the next one; the log
holds nothing of it, and `conn` in an entry is auxiliary. `DropChunks` is the
retention policy: rows before `oldest` are gone.

*Backtest.* One action per bar, with the signal of a strategy and any close and
book; `NextFold` starts `run` anew. Money is counted in units of 1/`Bps`^2, so that
basis points are exact; a return is a fraction; a strategy compares means and
deviations multiplied out, so nothing is rounded.

*Auxiliary variables.* `failed` (a fetch of this connection has failed), `lost` and
`resynced` (Coinbase), `failures` (manager) record what happened, for the
properties; no guard of an action reads them.

### What is abstracted

- A `Level` is a (side, price) pair. Prices are not compared by anything the
  feed models do; sizes only with 0.
- The REST `limit=1000` is `Visible`: an arbitrary set of levels a snapshot can
  show at each update. `Shows` demands equality when the limit hides nothing,
  and otherwise that no level is wrong.
- One symbol per feed. Trades share the queue but reach no reconciler; they only
  take up room, which a small `QueueSize` makes scarce anyway.
- In the feeds a backoff is time spent in `connecting`, and nothing stops them. In
  `IngestionManager` the sleep is a phase of its own and `backoff` its length.
  Snapshots, trades and malformed events, which there would only take up room,
  are left to the feeds.
- In the writer the interval may have elapsed at any look at the clock, an event
  is one row, and the number of flushes is not counted.
- `BookReplay` loses no event, its clocks agree and its timestamps differ.
- The backtest has whole prices and units: `equity_fraction`, the default, sizes
  with a division that the model cuts to a whole number, towards flat. The trade
  records and the benchmark, which only report, are left out, and so is the Sharpe
  ratio, which needs a square root.
- The splitter's `step` is `StepSize`, 0 where none is given, as in
  `scripts/run_backtest.py`. A negative one, which the constructor does not refuse,
  is left out.
- The engine is given books by an `order_book_provider`. `BookAge` says how old they
  are: 0 is what `run` asks of a provider, 1 what `scripts/run_backtest.py` gives
  it (finding 5).
- The exchange, the network and the database are external: `map` marks what
  stands for them.

## 3. The runs

| run | instance | checks | shows |
|---|---|---|---|
| `binance_safety` | 4 updates, queue 3, buffer 2, 2 resync tasks, every fault | `TypeOK`, `SyncedBookIsExact`, `ClearedBookAwaitsSnapshot`, `ImplementsLiveBook` | whatever order snapshots, diffs, reconnects and losses come in, a synced book is exact and never goes back in time; a cleared book has a snapshot on its way unless a fetch has failed |
| `binance_liveness` | 4 updates, queue 2, buffer 4, disconnects only, a depth limit that hides a level | `SyncedBookIsExact`, `DisconnectWithdrawsBook`, `StableConnectionCatchesUp` | a lost connection withdraws the book; a stable one catches up; no level shows a wrong size |
| `binance_wedge` | 3 updates, queue 2 | `MissedUpdateIsRebuilt` is violated | finding 1 |
| `coinbase_faults` | 4 updates, queue 3, buffer 2, disconnects, losses and resyncs | `TypeOK`, `SyncedBookIsExact`, `ImplementsLiveBook`, `SnapshotRestoresBook`, `DisconnectWithdrawsBook`, `StableConnectionCatchesUp` | until a message is lost the book is exact, never goes back, and catches up; a loss does not outlive its connection |
| `ingestion` | Binance with 2 symbols and 3 connections, Coinbase with 1 and 2; queue 2 | `TypeOK`, `BooksFromOneConnection`, `BackoffFollowsFailures`, `ClearedBooksLostTheirConnection`, `ReconnectsUntilStopped`, `StopReturnsWithRoom` | no book mixes two connections or pays for the other exchange's loss; lost connections are tried again, the delay follows the failures; `stop` returns if the reports find room |
| `ingestion_stop` | the same, queue 1 | `StopReturns` is violated | finding 2 |
| `writer_serial` | 4 events, batch 2, errors and a cancellation | `TypeOK`, `SerialFlushesLoseNothing`, `ClosedWriterStoredAll`, `TimerFlushesRows` | if no two flushes race, nothing is lost or counted twice, a clean close has stored everything, the timer reaches every row |
| `writer_race` | 3 events, no faults | `BufferedOrStored` is violated | finding 3 |
| `replay_ordered` | 3 updates, 2 connections, retention | `TypeOK`, `OrderedLogReplaysExactly`, `OrderedReplayIsLiveBook`, `RetentionOnlyHidesLevels`, `ReplayHasNoLookahead` | a log whose timestamps put the snapshot first replays exactly until another connection's rows, and to the live book; dropped rows hide levels and falsify none; no replay looks ahead |
| `replay_raw` | 3 updates, 1 connection, no retention | `ReplayIsLiveBook` is violated | finding 4 |
| `backtest` | 7 bars, 2 folds of 3, closes 2 and 7, windows of 2 and 3 bars, both sizings, both strategies and one of any signals; books too thin, deep and one-sided, of the time of the decision | `TypeOK`, `ExposureIsBounded`, `SignalsFollowTheirNames`, `DrawdownIsWorstLoss`, `BlownAccountOnlyUnwinds`, `TradingOnlyCosts`, `ShortfallsAreCounted`, `BarsOnlyMoveForward` | partial fills never overshoot or go unreported, a blown account only unwinds, no trade earns by itself, signals and drawdown are what they say, with the default step bars are decided at most once, in order |
| `backtest_labels` | the same, books of the start of the bar | `TradingOnlyCosts` is violated | finding 5 |

### Bounds, and why they are enough

`MaxUpdates` 3 or 4: a snapshot, a diff it covers, one that bridges it, a
contiguous one and a gap fit into four updates. The market adds, changes and
removes levels and returns one to a former size, so a skipped or doubled diff
is seen. `MaxPending` is 2 where buffers should overflow and 4 where they should
not. `QueueSize` 2 or 3 is full most of the time, which is when the order of
producers matters. Two resync `Tasks`, besides the first snapshot, let a stale
snapshot meet a newer one; `ConsumeDiff` waits when both are in flight, a bound
on the number of outstanding resyncs, not of the code. `MaxLost` 2 bounds the
pending `malformed_message` tasks of Coinbase; Binance's are bounded by
`MaxUpdates`. The writer needs two rows in one table and one in the other, and a
third for what follows; `MaxEvents` 4 gives it. In `ingestion` three connections
are a clean close between two failures, or the doubling of the backoff and its
maximum, which `MaxBackoff` 3 puts at the second failure; two symbols of one
exchange are one that has a reconciler and one that gets it after a loss. Two
connections in `replay_ordered` are rows before and after one that the log does
not show. In `backtest` three bars per fold let a turn fall short twice, and with
closes 2 and 7 an account of 20 is blown by one short position.

The folds follow each other by the default step, as in `scripts/run_backtest.py`;
what a smaller step makes of them is proved (`NoBarTwice`).

In `backtest` the windows are 2 and 3, because with a fast window of 1 the fast
average is the last close and a window that is off by one is easily missed.

The theorems of section 5 hold for every value of all of these.

`CHECK_DEADLOCK FALSE` is given where the system stops: the writer has closed,
the market of the replay has been logged, the folds are over, `stop` has returned
or cannot.

### Fairness

The event loop runs every ready task, so a task that is ready and not blocked
on the queue eventually runs: `WF` of `run_forever`'s steps, of each fetch, of
the `malformed_message` tasks and of the consumer. The exchange publishes and a
REST request that does not fail is answered. No fault, resync request, event
of the writer or cancellation is ever due.

- In `BinanceFeed` a task that waits for room has weak fairness only: others may
  win the room for ever, and the liveness properties hold all the same. The
  fairness of the consumer is stated on the queue (`WF_queue(Take)`), because only
  `Consume` shortens it.
- `CoinbaseFeed` has `SF` on `ReceiveDiff`: the queue is emptied over and over, and
  the stream's own reader is not starved by the other putters, which are
  finitely many when the connection is stable.
- `IngestionManager` has `SF` on the puts of reports: its consumer, once it runs,
  takes event after event without giving way (`queue.get` returns at once while
  there is one), so the queue is emptied over and over and each waiting put gets
  its turn. No connection is ever due to end.
- In the writer the timer fires and the database answers or raises.

`StableConnectionCatchesUp` assumes what it says: the connection stays up from
some moment on. `TimerFlushesRows` excepts an ended timer, since a database
error ends `periodic_flush` for good (see the end of section 4).

## 4. Findings

1. *A missed diff before the first one wedges the Binance book.*
   `src/orderbook/reconciler.py:147`: while a snapshot waits for its first diff,
   a buffered diff beyond `last_update_id + 1` ends the loop without a resync.
   `reconciler.py:15` says such a book must be rebuilt, and `reconciler.py:38`
   that missed updates are handled by resync. In the run `binance_wedge` the first
   diff of the connection meets a full queue, and the next one starts beyond the
   snapshot, which is older than both.
2. *`stop` can wait for ever.* `src/ingestion/binance_client.py:89` awaits the
   cancelled `snapshot_task` under `suppress(CancelledError)`, which also swallows
   a cancellation of the client that arrives there. `run_forever` goes on to report
   the lost connection; with the queue full and its consumer gone, that put never
   returns, and neither does the `gather` of `stop`. Run `ingestion_stop`.
3. *The writer drops rows appended during a flush.* `writer.py:132` counts and
   replaces the buffer as it is after the await. Run `writer_race`.
4. *A replay is not the live book.* `replay.py:53` clears at a snapshot that the
   log stamps after diffs which the live book applied on top of it. Run
   `replay_raw`; `OrderedReplayIsLiveBook` says when the claim is true.
5. *Backtests are filled at prices of before the decision.* `engine.py:163` asks for
   the book as of the label of the bar, which is its start in both bar sources;
   the order is decided at its close. A strategy that reacts to a move trades
   against the book from before it. Run `backtest_labels`.
6. *There is no jitter.* `base.py:64` sleeps for exactly the doubled delay; its
   docstring (`base.py:34`) and `README.md:107` say that jitter is added. Clients
   that fail together come back together. The run `ingestion` shows it by what it
   confirms: `BackoffFollowsFailures` makes the delay a function of the failures
   alone, which no jitter would leave true.

The properties of the passing runs leave out three things the code does against
its own documentation:

- A failed snapshot fetch is not repeated: a reconciler without a snapshot buffers
  and asks for none (`reconciler.py:110`), though `README.md:101` calls "no snapshot
  yet" the same trigger as a gap. The book stays empty until the connection is
  lost. `ClearedBookAwaitsSnapshot` says that the failure does not outlive it.
- The first database error in `periodic_flush` ends that task (`writer.py:153`),
  and a row of a quiet market waits for the next event, though `writer.py:148` says
  it is flushed "even if no event arrives". `TimerFlushesRows` excepts it;
  `ClosedWriterStoredAll` says that the row is stored at the latest by a clean close.
- The log holds no connection events, so after a reconnect a replay applies the new
  diffs to the old book (`replay.py:60`) until the next snapshot row: a mixture the
  exchange never had, where `replay.py:41` promises the book "exactly as it stood".
  `OrderedLogReplaysExactly` says that the snapshot ends it.

A resync of Coinbase after the first snapshot was lost is overwritten by the
diffs that were buffered meanwhile (`reconciler.py:179`), though
`coinbase_client.py:88` calls it enough to recover: `SnapshotRestoresBook` excepts
that case. Nothing in the repository asks Coinbase for a resync by itself.

## 5. The proofs

Every theorem follows from the named assumptions on the constants of its module
alone. Three have a hypothesis more, which is about the instance: `FullDepth`
(`Visible` hides no level) and `FairBooks` (bids at most and asks at least at the
close, none of before the decision). The runs that check the same property
satisfy it: `coinbase_faults`, `backtest` and `replay_ordered`, whose
`OrderedReplayIsLiveBook` states `FullDepth` itself.

Each proof module begins with a type lemma per step, and states its invariants
as conjunctions that the runs' properties follow from. Where a property is not
inductive, this is what had to be added:

**Books** (`MarketProofs`). `ApplyDiffShows`: a diff (U, u) takes a book that shows
n to one that shows u, if U <= n + 1 <= u + 1. Everything about either feed rests
on it.

**Binance** (`BinanceFeedProofs`).

- `SyncedBookCorrect`. An unsynced book may become synced without being replaced,
  so `ReconcilerInv` says that *any* book with an id shows that update, and that a
  book with an id is either synced or awaits its first diff. Each handler keeps
  it, and nothing else touches the reconciler.
- `FeedImplementsLiveBook`. That a reader never sees an older update depends on the
  stream and not on the reconciler: a late snapshot may well be older than what
  was shown. `StreamInv` says that the diffs in the queue are in order and all
  newer than the newest update shown, and `Reach` that whatever the reconciler
  holds becomes synced only by a diff that takes it past that update.
- `ClearedBooksAwaitASnapshot`. A `disconnected` event of an earlier connection may
  still be in the queue when the snapshot of this one joins it, and would clear
  it. `AwaitInv` counts a snapshot, in the queue or in the book, only if no such
  event is behind it; it holds because the client puts them in that order.
- `DrainEnds`, `DrainedBufferIsEmpty`: the loop of `_drain_buffer` is at a fixed
  point after one iteration per buffered diff, so `Drain` is the whole loop; a
  drain that leaves the reconciler synced has emptied the buffer.

**Coinbase** (`CoinbaseFeedProofs`). Without ids in the data exactness is a matter
of the queue alone. `Contiguous` says that while nothing has been lost each diff
starts where the message before it ended, the first where the book is, and that
nothing is buffered; `Ordered` that messages go forward, reconnects included.
`SyncedBookCorrect` and, with `FullDepth`, `FeedImplementsLiveBook` follow: with a
depth limit two books may show the same update. `SnapshotsRestoreTheBook` is an
action property and needs `FreshInv`: until a resync is asked for, the events in
front of a snapshot leave the reconciler with an empty buffer, so nothing older
can be applied on top of it.

**Ingestion manager** (`IngestionManagerProofs`).

- `OneConnectionAtATime`, `OnlyItsOwnEndClearsABook`. `OrderInv` treats the registry
  as place 0 of the queue: between what is of two connections of a client there
  is a `disconnected` event of that client, and the end of an earlier connection
  is still to come, in the queue or by a client that has yet to report it.
- `BackoffIsExponential`. `BackoffInv` relates `backoff` to the number of failures
  in every phase, before and after the attempt that fails. The power of two is
  the recursive function `Doubled`. The delay is exactly that (finding 6).

**Writer** (`TimescaleWriterProofs`).

- `NothingIsLost`. The counter is right in every state, races or not
  (`CountersInv`). Without a race `CallsInv` adds that a driver call in flight is
  the only one for its table, has the list that still is the buffer, and has sent
  what that buffer still holds; so what is stored, counted and dropped when it
  returns is the same.
- `CloseStoresAll` needs `StageInv`: what has been written at each stage of the
  shutdown.

**Replay** (`BookReplayProofs`).

- `ReplayNeverLooksAhead`. `PastInv` says that an event, logged or on its way, is
  stamped after the updates it covers; the replay is at an update of a row it
  selected.
- `OrderedLogsReplay`, `RetentionHidesLevels`. `StampInv`: stamps differ, those of an
  earlier connection are earlier, and within a connection they follow the
  updates. `TransitInv`: the diffs on their way go on from each other and from the
  last that arrived. That is not enough, because a diff without levels leaves no
  row: between an update the replay is at and the next logged diff there may be a
  hole, which does no harm only if nothing came of it. `LinkInv` says so: there is
  another logged diff between the two, or the book is the same at both. The loop
  keeps `Follows`, over a `Window` of one connection's rows: the book shows the
  last update of a row that is already applied and that none before it passes.
  `ReconstructRun` takes `reconstruct` from one moment to the next.
- `OrderedReplaysAreLive`. `LiveInv` adds where the live book is: the buffer holds
  diffs that go on from each other up to the last that arrived; once synced the
  book is at that diff, not before its connection's snapshot, and the buffer is
  empty. `LinkInv` says that nothing has changed since the update of the replay.

**Backtest** (`BacktestEngineProofs`).

- `ExposureStaysBounded`, `ShortfallsAreTold`, `BlownAccountUnwinds`: a fill is
  between 0 and what was asked, for any book (an invariant of the walk over its
  levels), so a position never passes its target.
- `TradingCosts` (with `FairBooks`): the walk never pays less than the close per
  unit, and fee and slippage are not negative.
- `DrawdownIsWorst`: `WorstUpTo` is the invariant of the loop of `max_drawdown`, that
  the peak is the greatest value so far and the worst decline is attained and not
  exceeded by any pair so far. Fractions are compared crosswise (`LessIsOrder`).
- `SignalsAreTrue`: a sum over a window splits at any place and lies between the
  bounds of its terms, so an average over a window whose closes stand out lies
  beyond that of the other. After a flat window of n bars the last close is
  (n - 1) / sqrt(n) deviations from the mean (`FlatDeviation`), so mean reversion
  bets against it if `z_entry` is less. `SignalInv` says that the signal is the
  strategy's.
- `NoBarTwice`: `OrderInv` says that the next bar is as many bars after the first of
  its fold as the curve has values, and follows the bar decided last; at the first
  bar of a fold it may be before it by the overlap of the test windows, which is
  none with the default step.

**Induction** (`LeastNumber`). The library's induction theorems take an operator as a
parameter, which none of the provers used here can instantiate, so the argument
is by the least member of a set of natural numbers. `IterationExists` and
`RecursionExists` say that the recursive functions of the models have the value
their equation gives, `IntervalInduction` is induction for a property given as a
set. The loops of the reconcilers and the replay, the backoff, the walk of an
order, the sums of the strategies and the drawdown rest on them.

Only model-checked: the liveness properties (`DisconnectWithdrawsBook`,
`StableConnectionCatchesUp`, `ReconnectsUntilStopped`, `StopReturnsWithRoom`,
`TimerFlushesRows`), since liveness under fairness and `ENABLED` are out of the
prover's reach.

## 6. Not modelled

Bar sources (one read each; that they label bars by their start is `BookAge`), the
Sharpe ratio and the benchmark, symbol maps, configuration, the scripts' wiring
and the schemas but for one retention policy. The scripts matter in one respect,
which the models assume: the queue has one consumer. The Mongo repository is one
database call per method, without state of its own, and nothing but its tests
calls it.

## 7. Plan

Done, in this order: order book, market and reconcilers; `BinanceFeed` with
`LiveBook`; its proofs; `CoinbaseFeed`; `TimescaleWriter`; `BookReplay`;
`Execution` and `BacktestEngine`; `IngestionManager`; reconnects and retention in
`BookReplay`; both sizings, `Strategies` and `Metrics` in `BacktestEngine`;
`MarketProofs` and the proofs of both feeds, the manager, the writer, the backtest
and the replay.

Nothing that the runs check and the prover can reach is left without a theorem.
What could be added is in section 6: the Sharpe ratio and the benchmark, which need
roots and fractions; the rest has next to no state.
