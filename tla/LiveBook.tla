------------------------------- MODULE LiveBook -------------------------------
(***************************************************************************)
(* What the order book layer promises a reader of OrderBookRegistry        *)
(* (is_synced and get_book), whatever the exchange, the connection and the *)
(* event queue do: while it says it is synced, the book is the exchange's  *)
(* book after some update, and a reader never sees an update older than    *)
(* one it has been shown.  src/README.md calls the layer "queryable live   *)
(* order books"; the reconcilers implement it.                             *)
(***************************************************************************)
EXTENDS Market

VARIABLES serving,   \* is_synced
          book,      \* the book a reader gets while serving
          shown      \* the newest update a reader has been shown

vars == <<serving, book, shown>>

TypeOK ==
  /\ serving \in BOOLEAN
  /\ book \in Books
  /\ shown \in Ids

Init == ~serving /\ book = EmptyBook /\ shown = 0

\* A snapshot and the diff that bridges it put a book on show.
Attach ==
  /\ ~serving
  /\ serving'
  /\ \E n \in Ids : n >= shown /\ shown' = n /\ Shows(book', n)

\* Later updates are applied.
Advance ==
  /\ serving
  /\ serving'
  /\ \E n \in Ids : n > shown /\ shown' = n /\ Shows(book', n)

\* The book can no longer be trusted.
Withdraw ==
  /\ serving
  /\ ~serving'
  /\ book' = EmptyBook
  /\ shown' = shown

Next == Attach \/ Advance \/ Withdraw

Spec == Init /\ [][Next]_vars

===============================================================================
