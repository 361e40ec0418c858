-------------------------------- MODULE Market --------------------------------
(***************************************************************************)
(* The exchange as the clients of src/src/ingestion see it.  The exchange  *)
(* numbers the updates of a symbol's book; BookAt[n] is its book after     *)
(* update n.  A depth diff (U, u) lists the levels touched by the updates  *)
(* U..u with their sizes after u; a REST snapshot numbered n lists the     *)
(* levels of BookAt[n] that its depth limit (limit=1000 in                 *)
(* binance_client.py) lets through.  The exchange is external: this is     *)
(* what the clients assume of it.                                          *)
(***************************************************************************)
EXTENDS OrderBook, Integers

CONSTANTS MaxUpdates,  \* bound: the exchange publishes updates 1..MaxUpdates
          BookAt,      \* BookAt[n]: the exchange's book after update n
          Visible      \* Visible[n]: the levels within a snapshot's depth limit

ASSUME MarketAssumption ==
  /\ MaxUpdates \in Nat
  /\ BookAt \in [0..MaxUpdates -> Books]
  /\ Visible \in [0..MaxUpdates -> SUBSET Levels]

Ids == 0..MaxUpdates

SizeAt(n, l) == IF l \in DOMAIN BookAt[n] THEN BookAt[n][l] ELSE 0

\* The levels that did not rest at their final size through updates U..u.
Touched(U, u) ==
  { l \in Levels : \E i \in (U - 1)..u : SizeAt(i, l) # SizeAt(u, l) }

DiffLevels(U, u) == [ l \in Touched(U, u) |-> SizeAt(u, l) ]

SnapshotLevels(n) ==
  [ l \in DOMAIN BookAt[n] \cap Visible[n] |-> BookAt[n][l] ]

\* The depth limit never hides a level.
FullDepth == \A n \in Ids : DOMAIN BookAt[n] \subseteq Visible[n]

(***************************************************************************)
(* A local book shows update n: every level in it has the size it has on   *)
(* the exchange after update n, and none is missing unless a depth limit   *)
(* hid it from a snapshot.                                                 *)
(***************************************************************************)
Shows(book, n) ==
  /\ DOMAIN book \subseteq DOMAIN BookAt[n]
  /\ \A l \in DOMAIN book : book[l] = BookAt[n][l]
  /\ FullDepth => DOMAIN book = DOMAIN BookAt[n]

===============================================================================
