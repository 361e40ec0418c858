---------------------------- MODULE MCBacktestEngine ----------------------------
(***************************************************************************)
(* Small books for BacktestEngine: too thin for a turn of the position or  *)
(* deep enough on the second level, and empty on one side.                 *)
(***************************************************************************)
EXTENDS BacktestEngine

Level(p, s) == [price |-> p, size |-> s]

MCBooksAt ==
  [c \in Closes |->
     { [bids |-> << Level(c, 1), Level(c - 1, 2) >>,
        asks |-> << Level(c, 1), Level(c + 2, 9) >>],
       [bids |-> << >>, asks |-> << Level(c + 1, 1) >>] }]

=================================================================================
