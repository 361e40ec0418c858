-------------------------------- MODULE Execution --------------------------------
(***************************************************************************)
(* ExecutionSimulator (src/src/backtest/execution.py) and the taker fee    *)
(* (costs.py).  One side of a book is the sequence of its levels, best     *)
(* price first, as simulate_market_order lists them.  Prices and           *)
(* quantities are integers.  The average price of a fill is left as the    *)
(* fraction notional / filled, and money is counted in units of 1 / Bps^2, *)
(* so that basis points are exact.                                         *)
(***************************************************************************)
EXTENDS Integers, Sequences

CONSTANT Bps      \* basis points in one: 10_000

ASSUME BpsAssumption == Bps \in Nat \ {0}

Money(x) == x * Bps * Bps

Magnitude(x) == IF x < 0 THEN -x ELSE x

Lesser(x, y) == IF x < y THEN x ELSE y

\* Mutant: the level gives all it has.
Take_All(fill, level) == IF fill.remaining > 0 THEN level.size ELSE 0

Take(fill, level) == Lesser(fill.remaining, level.size)

\* One iteration over the levels; with nothing remaining it takes nothing.
Walk(fill, level) ==
  [remaining |-> fill.remaining - Take(fill, level),
   filled    |-> fill.filled + Take(fill, level),
   notional  |-> fill.notional + Take(fill, level) * level.price]

\* The fill of a market order for qty that meets these levels.
simulate_market_order(levels, qty) ==
  LET after[k \in 0..Len(levels)] ==
        IF k = 0 THEN [remaining |-> qty, filled |-> 0, notional |-> 0]
        ELSE Walk(after[k - 1], levels[k])
  IN  after[Len(levels)]

\* The fee on an amount of Money.
calculate_fee(notional, feeBps) == (Magnitude(notional) * feeBps) \div Bps

==================================================================================
