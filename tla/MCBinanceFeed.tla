----------------------------- MODULE MCBinanceFeed -----------------------------
(***************************************************************************)
(* A small market for BinanceFeed: levels appear, change and disappear,    *)
(* and one of them returns to the size it had.                             *)
(***************************************************************************)
EXTENDS BinanceFeed, TLC

CONSTANTS b1, b2, a1,     \* three levels
          t1, t2

MCLevels == {b1, b2, a1}
MCTasks == {t1, t2}
MCNoTasks == {}    \* without losses there are no gaps

MCBookAt ==
  [n \in 0..MaxUpdates |->
     CASE n = 0 -> b1 :> 1
       [] n = 1 -> b1 :> 1 @@ a1 :> 2
       [] n = 2 -> b1 :> 2 @@ a1 :> 2
       [] n = 3 -> a1 :> 2 @@ b2 :> 1
       [] n = 4 -> a1 :> 2 @@ b1 :> 1
       [] OTHER -> b1 :> 1 @@ b2 :> 2]

\* A depth limit that hides nothing, and one that hides b2.
MCVisible == [n \in 0..MaxUpdates |-> MCLevels]
MCShallow == [n \in 0..MaxUpdates |-> {b1, a1}]

Symmetry == Permutations(MCTasks)

================================================================================
