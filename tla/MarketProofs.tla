------------------------------ MODULE MarketProofs ------------------------------
(***************************************************************************)
(* Lemmas about the operators that the two feeds share: OrderBook, Market  *)
(* and ReconcilingBookManager.                                             *)
(***************************************************************************)
EXTENDS ReconcilingBookManager, SequenceTheorems, TLAPS

------------------------------------------------------------------------------
(* Books. *)

\* The empty book is a book.
LEMMA EmptyBookType == EmptyBook \in Books
<1>1. EmptyBook \in [{} -> Sizes] /\ {} \in SUBSET Levels
  BY DEF EmptyBook
<1> QED BY <1>1 DEF Books

\* The size a level shows on the exchange is one a message may carry.
LEMMA SizeAtType ==
  ASSUME NEW n \in Ids, NEW l
  PROVE  /\ SizeAt(n, l) \in Sizes \cup {0}
         /\ SizeAt(n, l) # 0 <=> l \in DOMAIN BookAt[n]
         /\ l \in DOMAIN BookAt[n] => BookAt[n][l] = SizeAt(n, l) /\ l \in Levels
<1>1. PICK S \in SUBSET Levels : BookAt[n] \in [S -> Sizes]
  BY MarketAssumption DEF Ids, Books
<1> QED BY <1>1, SizesAssumption DEF SizeAt

\* apply_levels with a diff of the exchange yields a book.
LEMMA ApplyDiffType ==
  ASSUME NEW book \in Books, NEW U \in Ids, NEW u \in Ids
  PROVE  apply_levels(book, DiffLevels(U, u)) \in Books
<1> DEFINE new == apply_levels(book, DiffLevels(U, u))
<1>1. PICK S \in SUBSET Levels : book \in [S -> Sizes]
  BY DEF Books
<1>2. DOMAIN DiffLevels(U, u) = Touched(U, u) /\ Touched(U, u) \subseteq Levels
  BY DEF DiffLevels, Touched
<1>3. DOMAIN new \subseteq Levels
  BY <1>1, <1>2 DEF apply_levels
<1>4. new \in [DOMAIN new -> Sizes]
  <2>1. \A l \in Touched(U, u) : DiffLevels(U, u)[l] \in Sizes \cup {0}
    BY <1>2, SizeAtType DEF DiffLevels
  <2> QED BY <1>1, <1>2, <2>1 DEF apply_levels
<1> QED BY <1>3, <1>4 DEF Books

\* A snapshot of the exchange yields a book that shows it.
LEMMA SnapshotShows ==
  ASSUME NEW n \in Ids
  PROVE  /\ apply_snapshot(SnapshotLevels(n)) \in Books
         /\ Shows(apply_snapshot(SnapshotLevels(n)), n)
<1> DEFINE new == apply_snapshot(SnapshotLevels(n))
           D == DOMAIN BookAt[n] \cap Visible[n]
<1>1. PICK S \in SUBSET Levels : BookAt[n] \in [S -> Sizes]
  BY MarketAssumption DEF Ids, Books
<1>2. SnapshotLevels(n) = [l \in D |-> BookAt[n][l]]
  BY DEF SnapshotLevels
<1>3. ASSUME NEW l \in D PROVE BookAt[n][l] \in Sizes /\ BookAt[n][l] > 0
  <2>1. BookAt[n][l] \in Sizes
    BY <1>1
  <2>2. BookAt[n][l] \in Nat /\ BookAt[n][l] # 0
    BY <2>1, SizesAssumption
  <2> QED BY <2>1, <2>2
<1>4. new = [l \in D |-> BookAt[n][l]]
  <2>1. {k \in DOMAIN SnapshotLevels(n) : SnapshotLevels(n)[k] > 0} = D
    BY <1>2, <1>3
  <2> QED BY <1>2, <2>1 DEF apply_snapshot
<1>5. new \in Books
  <2>1. D \subseteq Levels
    BY <1>1
  <2>2. new \in [D -> Sizes]
    BY <1>3, <1>4
  <2> QED BY <2>1, <2>2 DEF Books
<1>6. Shows(new, n)
  BY <1>1, <1>4 DEF Shows, FullDepth
<1> QED BY <1>5, <1>6

\* The heart of reconciliation: a diff (U, u) takes a book that shows any of
\* the updates U - 1 .. u to one that shows u.  Hence the bridging condition
\* U <= lastUpdateId + 1 <= u, and the sequence condition U = last + 1.
LEMMA ApplyDiffShows ==
  ASSUME NEW book \in Books, NEW n \in Ids, Shows(book, n),
         NEW U \in Ids, NEW u \in Ids, U >= 1, U - 1 <= n, n <= u
  PROVE  Shows(apply_levels(book, DiffLevels(U, u)), u)
<1> DEFINE new == apply_levels(book, DiffLevels(U, u))
           T == Touched(U, u)
           kept == DOMAIN book \ T
           set == {l \in T : SizeAt(u, l) # 0}
<1>1. DOMAIN DiffLevels(U, u) = T /\ \A l \in T : DiffLevels(U, u)[l] = SizeAt(u, l)
  BY DEF DiffLevels
<1>2. new = [l \in kept \cup set |-> IF l \in set THEN SizeAt(u, l) ELSE book[l]]
  <2>1. {l \in DOMAIN DiffLevels(U, u) : DiffLevels(U, u)[l] # 0} = set
    BY <1>1
  <2>2. \A l \in set : DiffLevels(U, u)[l] = SizeAt(u, l)
    BY <1>1
  <2> QED BY <1>1, <2>1, <2>2 DEF apply_levels
<1>3. ASSUME NEW l \in Levels, l \notin T PROVE SizeAt(n, l) = SizeAt(u, l)
  <2>1. n \in (U - 1)..u
    BY DEF Ids
  <2> QED BY <1>3, <2>1 DEF Touched
<1>4. \A l \in DOMAIN book : l \in Levels /\ l \in DOMAIN BookAt[n]
                             /\ book[l] = SizeAt(n, l)
  BY SizeAtType DEF Shows, Books
<1>5. \A l \in kept : SizeAt(u, l) = book[l] /\ l \in DOMAIN BookAt[u]
  <2> SUFFICES ASSUME NEW l \in kept
               PROVE  SizeAt(u, l) = book[l] /\ l \in DOMAIN BookAt[u]
    OBVIOUS
  <2>1. /\ l \in Levels /\ l \in DOMAIN BookAt[n] /\ book[l] = SizeAt(n, l)
        /\ SizeAt(n, l) = SizeAt(u, l)
    BY <1>3, <1>4
  <2> QED BY <2>1, SizeAtType
<1>6. \A l \in set : l \in DOMAIN BookAt[u]
  BY SizeAtType
<1>7. DOMAIN new = kept \cup set /\ \A l \in DOMAIN new : new[l] = SizeAt(u, l)
  BY <1>2, <1>5
<1>8. DOMAIN new \subseteq DOMAIN BookAt[u]
  BY <1>5, <1>6, <1>7
<1>9. \A l \in DOMAIN new : new[l] = BookAt[u][l]
  BY <1>7, <1>8, SizeAtType
<1>10. ASSUME FullDepth PROVE DOMAIN BookAt[u] \subseteq DOMAIN new
  <2> SUFFICES ASSUME NEW l \in DOMAIN BookAt[u], l \notin T PROVE l \in DOMAIN book
    BY <1>7, SizeAtType
  <2>1. l \in Levels /\ SizeAt(n, l) # 0
    BY <1>3, SizeAtType
  <2>2. DOMAIN book = DOMAIN BookAt[n]
    BY <1>10 DEF Shows
  <2> QED BY <2>1, <2>2, SizeAtType
<1> QED BY <1>8, <1>9, <1>10 DEF Shows

------------------------------------------------------------------------------
(* Buffers and queues. *)

\* The event of the queue q after which a reconciler has nothing left.
ClearsAt(q, i) == q[i].type = "connection" /\ q[i].kind = "disconnected"

\* The bounded buffer is a buffer of diffs of the one it bounds.
LEMMA BoundBufferType ==
  ASSUME NEW q \in Seq(Diffs)
  PROVE  /\ BoundBuffer(q) \in Seq(Diffs)
         /\ \A i \in DOMAIN BoundBuffer(q) :
              \E j \in DOMAIN q : BoundBuffer(q)[i] = q[j]
<1> DEFINE m == Len(q) - MaxPending + 1
           n == Len(q)
<1>1. CASE Len(q) > MaxPending
  <2>1. m \in 1..n /\ m - 1 \in Nat /\ n \in Nat
    BY <1>1, MaxPendingAssumption
  <2>2. SubSeq(q, m, n) \in Seq(Diffs)
    BY <2>1
  <2>3. \A i \in DOMAIN SubSeq(q, m, n) :
          i + m - 1 \in DOMAIN q /\ SubSeq(q, m, n)[i] = q[i + m - 1]
    BY <2>1
  <2> QED BY <1>1, <2>2, <2>3 DEF BoundBuffer
<1>2. CASE ~(Len(q) > MaxPending)
  BY <1>2 DEF BoundBuffer
<1> QED BY <1>1, <1>2

\* What joins a queue and what leaves it.
LEMMA QueueType ==
  ASSUME NEW q \in Seq(Events)
  PROVE  /\ \A e \in Events : Append(q, e) \in Seq(Events)
         /\ q # <<>> => Head(q) \in Events /\ Tail(q) \in Seq(Events)
  OBVIOUS

\* An event of each type.
LEMMA EventTypes ==
  ASSUME NEW e \in Events
  PROVE  /\ e.type = "diff" => e \in Diffs
         /\ e.type = "snapshot" => e.id \in Ids
  BY DEF Events, Diffs, Snapshots, ConnectionEvents

=================================================================================
