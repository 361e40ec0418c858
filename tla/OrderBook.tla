------------------------------ MODULE OrderBook ------------------------------
(***************************************************************************)
(* The in-memory book of src/src/orderbook/book.py: bids and asks as maps  *)
(* from price to size.  A member of Levels stands for one (side, price)    *)
(* pair, so a book is a partial function from Levels to positive sizes;    *)
(* its domain is the set of keys of the two SortedDicts.                   *)
(***************************************************************************)
EXTENDS Naturals

CONSTANTS Levels,    \* the (side, price) pairs that occur
          Sizes      \* the sizes a resting level may have

ASSUME SizesAssumption == Sizes \subseteq Nat \ {0}

Books == UNION { [S -> Sizes] : S \in SUBSET Levels }

EmptyBook == [l \in {} |-> 1]

\* What a message may carry: sizes by level, where 0 asks for removal.
Changes == UNION { [S -> Sizes \cup {0}] : S \in SUBSET Levels }

\* Mutant: a size of 0 is skipped, the level stays.
apply_levels_KeepsRemoved(book, levels) ==
  LET set == { l \in DOMAIN levels : levels[l] # 0 }
  IN  [ l \in DOMAIN book \cup set |-> IF l \in set THEN levels[l] ELSE book[l] ]

(***************************************************************************)
(* OrderBook.apply_levels: every level listed replaces the size held at    *)
(* that level, and a size of 0 pops the key.                               *)
(***************************************************************************)
apply_levels(book, levels) ==
  LET kept == DOMAIN book \ DOMAIN levels
      set  == { l \in DOMAIN levels : levels[l] # 0 }
  IN  [ l \in kept \cup set |-> IF l \in set THEN levels[l] ELSE book[l] ]

(***************************************************************************)
(* OrderBook.apply_snapshot: clear, then load the levels of positive size. *)
(***************************************************************************)
apply_snapshot(levels) ==
  [ l \in { k \in DOMAIN levels : levels[k] > 0 } |-> levels[l] ]

==============================================================================
