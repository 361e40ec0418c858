------------------------------ MODULE MCBookReplay ------------------------------
(***************************************************************************)
(* A small market for BookReplay: levels appear, change and disappear.     *)
(***************************************************************************)
EXTENDS BookReplay

CONSTANTS b1, b2, a1     \* three levels

MCLevels == {b1, b2, a1}

MCBookAt ==
  [n \in 0..MaxUpdates |->
     CASE n = 0 -> b1 :> 1
       [] n = 1 -> b1 :> 1 @@ a1 :> 2
       [] n = 2 -> b1 :> 2 @@ a1 :> 2
       [] n = 3 -> a1 :> 2 @@ b2 :> 1
       [] OTHER -> a1 :> 2 @@ b1 :> 1]

MCVisible == [n \in 0..MaxUpdates |-> MCLevels]

=================================================================================
