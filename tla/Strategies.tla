------------------------------- MODULE Strategies -------------------------------
(***************************************************************************)
(* The strategies of src/src/backtest/strategies: the signal at the last   *)
(* bar of a history, a sequence of integer closes.  Means and deviations   *)
(* are compared without being divided, so nothing is rounded.              *)
(***************************************************************************)
EXTENDS Integers, SequencesExt

CONSTANTS Fast, Slow,        \* the windows of MomentumStrategy
          Lookback, ZEntry   \* those of MeanReversionStrategy

ASSUME StrategyAssumption ==
  /\ Fast \in Nat \ {0} /\ Slow \in Nat /\ Fast < Slow
  /\ Lookback \in Nat \ {0} /\ ZEntry \in Nat

Signals == {-1, 0, 1}

\* iloc[-n:]
Window(history, n) == SubSeq(history, Len(history) - n + 1, Len(history))

Total(xs) ==
  LET sum[k \in 0..Len(xs)] == IF k = 0 THEN 0 ELSE sum[k - 1] + xs[k]
  IN  sum[Len(xs)]

Squares(xs) == Total([k \in DOMAIN xs |-> xs[k] * xs[k]])

Sign(x) == IF x > 0 THEN 1 ELSE IF x < 0 THEN -1 ELSE 0

\* Mutant: the fast average is taken over the oldest bars of the slow window.
FastTotal_Oldest(history) == Total(SubSeq(Window(history, Slow), 1, Fast))

FastTotal(history) == Total(Window(history, Fast))

\* MomentumStrategy.generate_signal: fast_ma against slow_ma.
momentum(history) ==
  IF Len(history) < Slow THEN 0
  ELSE Sign(FastTotal(history) * Slow - Total(Window(history, Slow)) * Fast)

\* MeanReversionStrategy.generate_signal.  With n closes of sum S and sum of
\* squares Q, the last close is (n x - S) / n from their mean, and their sample
\* variance is (n Q - S^2) / (n (n - 1)).
mean_reversion(history) ==
  LET n      == Lookback
      window == Window(history, n)
      off    == n * Last(history) - Total(window)
      spread == n * Squares(window) - Total(window) * Total(window)
  IN  IF Len(history) < n \/ spread = 0 THEN 0
      ELSE IF off * off * (n - 1) > ZEntry * ZEntry * n * spread THEN -Sign(off)
      ELSE 0

=================================================================================
