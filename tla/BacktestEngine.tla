----------------------------- MODULE BacktestEngine -----------------------------
(***************************************************************************)
(* A walk-forward backtest: the folds of WalkForwardSplitter               *)
(* (walkforward.py), one after the other as scripts/run_backtest.py runs   *)
(* them, and in each of them BacktestEngine.run (engine.py) over the bars  *)
(* of the test window, up to the metrics of its equity curve.  Prices and  *)
(* order books are the environment; the strategy is one of the two there   *)
(* are, or another with any signals.  Quantities are whole numbers.        *)
(***************************************************************************)
EXTENDS Execution, Strategies, Metrics

CONSTANTS NBars, TrainSize, TestSize,
          StepSize,        \* step of the splitter, 0 if it is not given
          OtherWarmup,     \* warmup_bars() of the other strategy
          InitialCash,
          PositionSize,    \* for fixed_units
          FractionNum, FractionDen,  \* position_fraction, for equity_fraction
          FeeBps,
          SlippageBps,     \* FALLBACK_SLIPPAGE_BPS
          Closes,          \* the closes that occur
          BooksAt,         \* BooksAt[c]: the books that occur at close c,
                           \* [bids, asks], best price first
          BookAge          \* how many bars a book is older than the close:
                           \* see order_book_provider

\* Both sides of a book, best price first.
Levels == [price : Nat, size : Nat]
Books == [bids : Seq(Levels), asks : Seq(Levels)]

ASSUME EngineAssumption ==
  /\ NBars \in Nat /\ TrainSize \in Nat \ {0} /\ TestSize \in Nat \ {0}
  /\ StepSize \in Nat
  /\ OtherWarmup \in Nat /\ InitialCash \in Nat /\ PositionSize \in Nat
  /\ FractionNum \in Nat /\ FractionDen \in Nat \ {0}
  /\ FeeBps \in Nat /\ SlippageBps \in 0..Bps
  /\ Closes \subseteq Nat \ {0}
  /\ \A c \in Closes : BooksAt[c] \subseteq Books
  /\ BookAge \in {0, 1}

VARIABLES
  closes,      \* the closes of the bars
  strategy,    \* which strategy runs
  sizing_mode,
  fold,        \* number of the fold that runs
  bar,         \* the bar decided last, -1 before the first
  next,        \* the bar that run decides next
  cash,        \* in Money
  position,
  shortfalls,  \* fill_shortfalls of this fold
  signal,      \* signal of the bar decided last
  curve        \* equity_values of this fold, in Money

setup == <<closes, strategy, sizing_mode>>
vars == <<setup, fold, bar, next, cash, position, shortfalls, signal, curve>>

warmup_bars ==
  CASE strategy = "momentum" -> Slow
    [] strategy = "mean_reversion" -> Lookback
    [] OTHER -> OtherWarmup

------------------------------------------------------------------------------
(* WalkForwardSplitter. *)

\* Mutant: the windows move on bar by bar.
Step_One == 1

\* step or test_size
Step == IF StepSize = 0 THEN TestSize ELSE StepSize

\* Fold k, if the bars suffice for it.
TestStart(k) == k * Step + TrainSize
TestEnd(k) == TestStart(k) + TestSize

IsFold(k) == TestEnd(k) <= NBars

Larger(x, y) == IF x > y THEN x ELSE y

\* The first bar that run decides in fold k.
FirstBar(k) == Larger(TestStart(k), warmup_bars)

------------------------------------------------------------------------------

TypeOK ==
  /\ closes \in [0..(NBars - 1) -> Closes]
  /\ strategy \in {"momentum", "mean_reversion", "other"}
  /\ sizing_mode \in {"equity_fraction", "fixed_units"}
  /\ fold \in Nat
  /\ bar \in -1..(NBars - 1)
  /\ next \in Nat
  /\ cash \in Int
  /\ position \in Int
  /\ shortfalls \in Nat
  /\ signal \in Signals
  /\ curve \in Seq(Int) /\ Len(curve) <= TestSize

Init ==
  /\ closes \in [0..(NBars - 1) -> Closes]
  /\ strategy \in {"momentum", "mean_reversion", "other"}
  /\ sizing_mode \in {"equity_fraction", "fixed_units"}
  /\ fold = 0
  /\ bar = -1
  /\ next = FirstBar(0)
  /\ cash = Money(InitialCash)
  /\ position = 0
  /\ shortfalls = 0
  /\ signal = 0
  /\ curve = <<>>

\* bars.iloc[: i + 1]
History(i) == [k \in 1..(i + 1) |-> closes[k - 1]]

generate_signal(history) ==
  CASE strategy = "momentum" -> {momentum(history)}
    [] strategy = "mean_reversion" -> {mean_reversion(history)}
    [] OTHER -> Signals

Worth(amount, held, c) == amount + Money(held * c)

\* Mutant: an account that is worth less than nothing is sized all the same.
EquityTarget_Unguarded(s, equity, c) ==
  s * ((equity * FractionNum) \div (FractionDen * Money(c)))

\* equity_fraction; a blown account is flat.
EquityTarget(s, equity, c) ==
  IF equity <= 0 THEN 0
  ELSE s * ((equity * FractionNum) \div (FractionDen * Money(c)))

_target_position(s, equity, c) ==
  IF sizing_mode = "fixed_units" THEN s * PositionSize
  ELSE EquityTarget(s, equity, c)

NoBook == [bids |-> <<>>, asks |-> <<>>]

\* The books there may be for bar i.  `run` asks for a book as of the decision,
\* which is made at the close of the bar: BookAge = 0.  It passes the label of
\* the bar, though, which in both bar sources is the start of its bucket, when
\* the bar before it closed: BookAge = 1.
order_book_provider(i) == BooksAt[closes[i - BookAge]] \cup {NoBook}

Direction(qty) == IF qty > 0 THEN 1 ELSE -1

\* Mutant: a seller is given the better price too.
FallbackNotional_AlwaysBelow(qty, c) == qty * c * (Bps - SlippageBps) * Bps

\* The order at the close, moved against the trader.
FallbackNotional(qty, c) ==
  qty * c * (Bps + Direction(qty) * SlippageBps) * Bps

\* The order for qty units (negative to sell) at close c, with the order book
\* b if it has a level on either side.
Executed(qty, c, b) ==
  LET walked == simulate_market_order(IF qty > 0 THEN b.asks ELSE b.bids,
                                      Magnitude(qty))
  IN  IF b = NoBook
      THEN [filled |-> qty, notional |-> FallbackNotional(qty, c)]
      ELSE [filled |-> Direction(qty) * walked.filled,
            notional |-> Direction(qty) * Money(walked.notional)]

\* Mutant: a shortfall is counted only if nothing was filled.
Short_Nothing(done, qty) == done.filled = 0

\* Fill.is_full_fill does not hold.
Short(done, qty) == done.filled # qty

Trade(qty, c, b) ==
  LET done == Executed(qty, c, b)
  IN  /\ cash' = cash - done.notional - calculate_fee(done.notional, FeeBps)
      /\ position' = position + done.filled
      /\ shortfalls' = shortfalls + (IF Short(done, qty) THEN 1 ELSE 0)

\* One bar: the strategy's signal, the trade it takes, if any, the equity.
DecideBar ==
  /\ IsFold(fold)
  /\ next < TestEnd(fold)
  /\ LET c == closes[next]
     IN  /\ signal' \in generate_signal(History(next))
         /\ LET qty == _target_position(signal', Worth(cash, position, c), c) - position
            IN  IF qty = 0 THEN UNCHANGED <<cash, position, shortfalls>>
                ELSE \E b \in order_book_provider(next) : Trade(qty, c, b)
         /\ curve' = Append(curve, Worth(cash', position', c))
  /\ bar' = next
  /\ next' = next + 1
  /\ UNCHANGED <<setup, fold>>

\* Mutant: the curve goes on from that of the fold before.
NextFold_KeepsCurve ==
  /\ IsFold(fold)
  /\ next >= TestEnd(fold)
  /\ fold' = fold + 1
  /\ next' = FirstBar(fold + 1)
  /\ cash' = Money(InitialCash)
  /\ position' = 0
  /\ shortfalls' = 0
  /\ UNCHANGED <<setup, bar, signal, curve>>

\* The next fold starts with the initial cash and no position.
NextFold ==
  /\ IsFold(fold)
  /\ next >= TestEnd(fold)
  /\ fold' = fold + 1
  /\ next' = FirstBar(fold + 1)
  /\ cash' = Money(InitialCash)
  /\ position' = 0
  /\ shortfalls' = 0
  /\ curve' = <<>>
  /\ UNCHANGED <<setup, bar, signal>>

Next == DecideBar \/ NextFold

\* BacktestResult, of the bars decided in this fold.
Result ==
  [total_return    |-> total_return(curve),
   max_drawdown    |-> max_drawdown(curve),
   fill_shortfalls |-> shortfalls]

Spec == Init /\ [][Next]_vars

------------------------------------------------------------------------------
(* Properties. *)

\* However orders are cut short and signals turn, with fixed_units the
\* exposure never exceeds the position size: a shortfall is made up for, never
\* overshot.
ExposureIsBounded ==
  sizing_mode = "fixed_units" => Magnitude(position) <= PositionSize

\* An account that is worth nothing any more is not "shorting further" (or
\* buying on): with equity_fraction, while it is blown a trade only brings the
\* position closer to flat, thin as the books may be.
BlownAccountOnlyUnwinds ==
  [][DecideBar /\ sizing_mode = "equity_fraction"
       /\ Worth(cash, position, closes[next]) <= 0
     => /\ Magnitude(position') <= Magnitude(position)
        /\ position' * position >= 0]_vars

\* Bids are below the close of their time and asks above it, so trading only
\* costs, "against the trader" as slippage is (engine.py): valued at the close
\* that decided it, an account is worth no more after a trade than before.
TradingOnlyCosts ==
  [][DecideBar => Worth(cash', position', closes[next])
                    <= Worth(cash, position, closes[next])]_vars

\* A position that missed its target is never silent: it is counted as a
\* shortfall of its bar, and nothing else is.
ShortfallsAreCounted ==
  [][DecideBar =>
       LET c == closes[next]
           target == _target_position(signal', Worth(cash, position, c), c)
       IN  shortfalls' = shortfalls + 1 <=> position' # target]_vars

\* The bars of a test window that the next one has again: none by default, and
\* then the windows are "non-overlapping" (walkforward.py).
Overlap == IF StepSize \in 1..TestSize THEN TestSize - StepSize ELSE 0

\* Walk-forward: in a fold no bar is decided twice or after a later one.  From one
\* fold to the next neither, unless the step is smaller than the test window: a
\* fold may then go back to bars that were decided before, but by no more than
\* what the windows overlap by.
BarsOnlyMoveForward ==
  [][DecideBar =>
       IF curve = <<>> THEN bar' + Overlap > bar ELSE bar' > bar]_vars

\* All closes of the bars `recent` are on one side, `way`, of those of `earlier`.
StandOut(recent, earlier, way) ==
  \A j \in recent : \A i \in earlier : Sign(closes[j] - closes[i]) = way

Before == (bar - Lookback + 1)..(bar - 1)

\* The closes before the last are one, and a close that leaves them, which is
\* (n - 1) / sqrt(n) deviations from the mean of its n bars, is beyond z_entry.
FlatBefore ==
  /\ \A i, j \in Before : closes[i] = closes[j]
  /\ (Lookback - 1) * (Lookback - 1) > ZEntry * ZEntry * Lookback

\* The strategies are what they are called: momentum follows prices that have
\* left the range of its slow window within the fast one, whichever way; mean
\* reversion never follows a last close that stands out from its window, and bets
\* against one that leaves a flat window.
SignalsFollowTheirNames ==
  \A way \in {-1, 1} :
    bar >= warmup_bars =>
      /\ strategy = "momentum"
           /\ StandOut((bar - Fast + 1)..bar, (bar - Slow + 1)..(bar - Fast), way)
         => signal = way
      /\ strategy = "mean_reversion" /\ StandOut({bar}, Before, way)
         => signal # way /\ (FlatBefore => signal = -way)

\* The reported drawdown is the worst loss between any two bars of the fold, of
\* whoever bought into the strategy at the first and left at the second.
DrawdownIsWorstLoss ==
  LET worst == Result.max_drawdown
  IN  Len(curve) >= 2 /\ (\A i \in DOMAIN curve : curve[i] > 0) =>
        /\ \A i \in DOMAIN curve : \A j \in i..Len(curve) :
             ~Less(Change(curve[j], curve[i]), worst)
        /\ \E i \in DOMAIN curve : \E j \in i..Len(curve) :
             ~Less(worst, Change(curve[j], curve[i]))
        /\ ~Less(Result.total_return, worst)

=================================================================================
