--------------------------------- MODULE Metrics ---------------------------------
(***************************************************************************)
(* The metrics of src/src/backtest/metrics.py that need no square root, on *)
(* an equity curve: a sequence of integers that starts above zero.  A      *)
(* return is a fraction [num, den] of positive denominator.                *)
(***************************************************************************)
EXTENDS Integers, Sequences

Zero == [num |-> 0, den |-> 1]

\* x / y - 1
Change(x, y) == [num |-> x - y, den |-> y]

Less(f, g) == f.num * g.den < g.num * f.den

total_return(curve) ==
  IF Len(curve) < 2 \/ curve[1] = 0 THEN Zero
  ELSE Change(curve[Len(curve)], curve[1])

\* Mutant: the decline from the start, not from the peak.
Peak_First(peak, equity) == peak

\* cummax
Peak(peak, equity) == IF equity > peak THEN equity ELSE peak

max_drawdown(curve) ==
  LET at[k \in 1..Len(curve)] ==
        IF k = 1 THEN [peak |-> curve[1], worst |-> Zero]
        ELSE LET peak == Peak(at[k - 1].peak, curve[k])
                 drop == Change(curve[k], peak)
             IN  [peak |-> peak,
                  worst |-> IF Less(drop, at[k - 1].worst) THEN drop
                            ELSE at[k - 1].worst]
  IN  IF Len(curve) < 2 THEN Zero ELSE at[Len(curve)].worst

==================================================================================
