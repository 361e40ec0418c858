----------------------------- MODULE MCCoinbaseFeed -----------------------------
(***************************************************************************)
(* A small market for CoinbaseFeed: levels appear, change and disappear,   *)
(* and one of them returns to the size it had.                             *)
(***************************************************************************)
EXTENDS CoinbaseFeed, TLC

CONSTANTS b1, b2, a1     \* three levels

MCLevels == {b1, b2, a1}

MCBookAt ==
  [n \in 0..MaxUpdates |->
     CASE n = 0 -> b1 :> 1
       [] n = 1 -> b1 :> 1 @@ a1 :> 2
       [] n = 2 -> b1 :> 2 @@ a1 :> 2
       [] n = 3 -> a1 :> 2 @@ b2 :> 1
       [] OTHER -> a1 :> 2 @@ b1 :> 1]

\* level2_batch snapshots list every level.
MCVisible == [n \in 0..MaxUpdates |-> MCLevels]

=================================================================================
