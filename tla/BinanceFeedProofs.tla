-------------------------- MODULE BinanceFeedProofs --------------------------
(***************************************************************************)
(* Theorems of BinanceReconciler and of BinanceFeed, for every market,     *)
(* every queue size and any number of faults.  The loop of _drain_buffer   *)
(* is a recursive function: what is proved of it is proved by the          *)
(* induction of module LeastNumber.                                        *)
(***************************************************************************)
EXTENDS BinanceFeed, MarketProofs, LeastNumber

------------------------------------------------------------------------------
(* The loop. *)

\* The n iterations of the drain loop exist: the recursive function is the
\* function its equation describes.
LEMMA IterationsDef ==
  ASSUME NEW r, NEW n \in Nat
  PROVE  Iterations(r, n) =
           [k \in 0..n |-> IF k = 0 THEN r ELSE DrainStep(Iterations(r, n)[k - 1])]
<1> DEFINE IsLoop(f, m) ==
             f = [k \in 0..m |-> IF k = 0 THEN r ELSE DrainStep(f[k - 1])]
           S == {m \in Nat : \E f : IsLoop(f, m)}
<1>1. 0 \in S
  <2> DEFINE f == [k \in 0..0 |-> r]
  <2>1. IsLoop(f, 0)
    OBVIOUS
  <2> QED BY <2>1
<1>2. ASSUME NEW m \in Nat, m \in S PROVE m + 1 \in S
  <2>1. PICK f : IsLoop(f, m)
    BY <1>2
  <2> DEFINE g == [k \in 0..(m + 1) |-> IF k = 0 THEN r ELSE DrainStep(f[k - 1])]
  <2>2. \A k \in 0..m : g[k] = f[k]
    <3> HIDE DEF IsLoop
    <3>1. \A k \in 0..m : f[k] = IF k = 0 THEN r ELSE DrainStep(f[k - 1])
      BY <2>1 DEF IsLoop
    <3>2. \A k \in 0..m : k \in 0..(m + 1)
      OBVIOUS
    <3> QED BY <3>1, <3>2
  <2>3. IsLoop(g, m + 1)
    <3>1. ASSUME NEW k \in 0..(m + 1), k # 0 PROVE f[k - 1] = g[k - 1]
      <4>1. k - 1 \in 0..m
        BY <3>1
      <4> QED BY <4>1, <2>2
    <3> HIDE DEF IsLoop
    <3>2. g = [k \in 0..(m + 1) |-> IF k = 0 THEN r ELSE DrainStep(g[k - 1])]
      BY <3>1, Zenon
    <3> QED BY <3>2, Zenon DEF IsLoop
  <2>4. m + 1 \in Nat
    OBVIOUS
  <2> QED BY <2>3, <2>4
<1>3. n \in S
  <2> HIDE DEF S
  <2> QED BY <1>1, <1>2, SetInduction
<1>4. PICK f : IsLoop(f, n)
  BY <1>3
<1> QED BY <1>4, Zenon DEF Iterations

\* A property of the loop, given by what holds after k iterations.
LEMMA IterationsInduction ==
  ASSUME NEW r, NEW n \in Nat, NEW S,
         r \in S[0],
         \A k \in Nat : \A s \in S[k] : DrainStep(s) \in S[k + 1]
  PROVE  \A k \in 0..n : Iterations(r, n)[k] \in S[k]
<1> DEFINE it == Iterations(r, n)
           T == {k \in Nat : k <= n => it[k] \in S[k]}
<1>1. it = [k \in 0..n |-> IF k = 0 THEN r ELSE DrainStep(it[k - 1])]
  BY IterationsDef
<1> HIDE DEF it
<1>2. 0 \in T
  <2>1. 0 \in 0..n
    OBVIOUS
  <2>2. it[0] = r
    BY <1>1, <2>1
  <2> QED BY <2>2
<1>3. ASSUME NEW k \in Nat, k \in T PROVE k + 1 \in T
  <2> SUFFICES ASSUME k + 1 <= n PROVE it[k + 1] \in S[k + 1]
    OBVIOUS
  <2>1. k <= n /\ k + 1 \in 0..n /\ k + 1 # 0 /\ (k + 1) - 1 = k
    OBVIOUS
  <2>2. it[k + 1] = DrainStep(it[(k + 1) - 1])
    BY <1>1, <2>1, Zenon
  <2>3. it[k] \in S[k]
    BY <1>3, <2>1
  <2> QED BY <2>1, <2>2, <2>3
<1>4. Nat \subseteq T
  <2> HIDE DEF T
  <2> QED BY <1>2, <1>3, SetInduction
<1> QED BY <1>4 DEF it

\* What every iteration keeps, the loop keeps.
LEMMA DrainInduction ==
  ASSUME NEW r, Len(r.pending) \in Nat, NEW P,
         r \in P, \A s \in P : DrainStep(s) \in P
  PROVE  Drain(r) \in P
<1> DEFINE n == Len(r.pending)
           S == [k \in Nat |-> P]
<1>1. \A k \in Nat : \A s \in S[k] : DrainStep(s) \in S[k + 1]
  OBVIOUS
<1>2. r \in S[0]
  OBVIOUS
<1>3. \A k \in 0..n : Iterations(r, n)[k] \in S[k]
  <2> HIDE DEF S
  <2> QED BY <1>1, <1>2, IterationsInduction
<1>4. n \in 0..n
  OBVIOUS
<1> QED BY <1>3, <1>4 DEF Drain

------------------------------------------------------------------------------
(* The reconciler. *)

\* What holds of a reconciler between two calls, and within the drain loop:
\* a book with an id shows that update, and only a snapshot that waits for
\* its first diff has an id without being served.
ReconcilerInv(r) ==
  /\ r \in Reconcilers
  /\ r.lastId # NoId => Shows(r.book, r.lastId)
  /\ r.synced => r.lastId # NoId /\ ~r.awaiting
  /\ r.lastId # NoId /\ ~r.synced => r.awaiting

\* The head of a buffer is a diff, and the rest a buffer.
LEMMA PendingHead ==
  ASSUME NEW q \in Seq(Diffs), q # <<>>
  PROVE  /\ Head(q) \in Diffs
         /\ Tail(q) \in Seq(Diffs)
         /\ Len(Tail(q)) = Len(q) - 1
         /\ \A i \in DOMAIN Tail(q) : i + 1 \in DOMAIN q /\ Tail(q)[i] = q[i + 1]
         /\ 1 \in DOMAIN q /\ Head(q) = q[1]
  OBVIOUS

\* Applying a diff to a served or bridged book.
LEMMA ApplyDiffInv ==
  ASSUME NEW r \in Reconcilers, NEW d \in Diffs,
         r.lastId # NoId, Shows(r.book, r.lastId),
         d.first - 1 <= r.lastId, r.lastId <= d.last
  PROVE  /\ ApplyDiff(r, d) \in Reconcilers
         /\ Shows(ApplyDiff(r, d).book, d.last)
         /\ ApplyDiff(r, d).lastId = d.last
         /\ ApplyDiff(r, d) = [r EXCEPT !.book = ApplyDiff(r, d).book,
                                        !.lastId = d.last]
<1>1. d.first \in Ids /\ d.last \in Ids /\ d.first >= 1 /\ d.first - 1 <= r.lastId
  BY DEF Diffs, Ids
<1>2. r.book \in Books /\ r.lastId \in Ids
  BY DEF Reconcilers
<1>3. apply_levels(r.book, DiffLevels(d.first, d.last)) \in Books
  BY <1>1, <1>2, ApplyDiffType
<1>4. Shows(apply_levels(r.book, DiffLevels(d.first, d.last)), d.last)
  BY <1>1, <1>2, ApplyDiffShows
<1> QED BY <1>1, <1>3, <1>4 DEF ApplyDiff, Reconcilers

\* A gap leaves a reconciler with nothing to serve.
LEMMA GapInv ==
  ASSUME NEW r \in Reconcilers
  PROVE  ReconcilerInv(Gap(r)) /\ Gap(r).lastId = NoId /\ ~Gap(r).synced
         /\ Gap(r).pending = <<>>
<1>1. /\ Gap(r).lastId = NoId /\ Gap(r).synced = FALSE
      /\ Gap(r).awaiting = TRUE /\ Gap(r).pending = <<>>
  BY DEF Gap, Reconcilers
<1>2. Gap(r) \in Reconcilers
  <2>1. <<>> \in Seq(Diffs)
    OBVIOUS
  <2> QED BY <2>1, EmptyBookType DEF Gap, Reconcilers
<1> QED BY <1>1, <1>2 DEF ReconcilerInv

\* One iteration of the drain loop.
LEMMA DrainStepInv ==
  ASSUME NEW r, ReconcilerInv(r)
  PROVE  ReconcilerInv(DrainStep(r))
<1>1. CASE r.pending = <<>>
  BY <1>1 DEF DrainStep
<1>2. CASE r.pending # <<>>
  <2> DEFINE d == Head(r.pending)
  <2>0. r \in Reconcilers /\ r.pending \in Seq(Diffs) /\ r.lastId \in Ids \cup {NoId}
    BY DEF ReconcilerInv, Reconcilers
  <2>1. /\ d \in Diffs /\ d.first \in Ids /\ d.last \in Ids
        /\ 1 <= d.first /\ d.first <= d.last
    BY <1>2, <2>0, PendingHead DEF Diffs
  <2>2. /\ ReconcilerInv(Popped(r))
        /\ Popped(r).lastId = r.lastId /\ Popped(r).book = r.book
    BY <1>2, <2>0, PendingHead DEF ReconcilerInv, Popped, Reconcilers
  <2> HIDE DEF d
  <2>3. CASE d.last <= r.lastId
    BY <1>2, <2>2, <2>3 DEF DrainStep, d
  <2>4. CASE ~(d.last <= r.lastId) /\ r.awaiting /\ Bridges(r, d)
    <3>1. r.lastId # NoId /\ d.first - 1 <= r.lastId /\ r.lastId <= d.last
      BY <2>0, <2>1, <2>4 DEF Bridges, NoId, Ids, MarketAssumption
    <3>2. LET a == ApplyDiff(Popped(r), d)
          IN  a \in Reconcilers /\ Shows(a.book, a.lastId) /\ a.lastId \in Ids
      BY <2>1, <2>2, <3>1, ApplyDiffInv DEF ReconcilerInv
    <3>3. DrainStep(r) = [ApplyDiff(Popped(r), d)
                            EXCEPT !.awaiting = FALSE, !.synced = TRUE]
      BY <1>2, <2>4 DEF DrainStep, d
    <3> DEFINE a == ApplyDiff(Popped(r), d)
    <3> HIDE DEF a
    <3>4. a \in Reconcilers /\ Shows(a.book, a.lastId) /\ a.lastId \in Ids
      BY <3>2 DEF a
    <3>5. /\ DrainStep(r) \in Reconcilers
          /\ DrainStep(r).book = a.book /\ DrainStep(r).lastId = a.lastId
          /\ DrainStep(r).awaiting = FALSE /\ DrainStep(r).synced = TRUE
      BY <3>3, <3>4 DEF Reconcilers, a
    <3> QED BY <3>4, <3>5 DEF ReconcilerInv, NoId, Ids
  <2>5. CASE ~(d.last <= r.lastId) /\ r.awaiting /\ ~Bridges(r, d)
    BY <1>2, <2>5 DEF DrainStep, d
  <2>6. CASE ~(d.last <= r.lastId) /\ ~r.awaiting /\ d.first = r.lastId + 1
    <3>1. r.lastId # NoId /\ d.first - 1 <= r.lastId /\ r.lastId <= d.last
      BY <2>0, <2>1, <2>6 DEF NoId, Ids, MarketAssumption
    <3> DEFINE p == Popped(r)
               a == ApplyDiff(p, d)
    <3> HIDE DEF p, a
    <3>2. /\ p \in Reconcilers /\ p.lastId = r.lastId
          /\ p.synced = r.synced /\ p.awaiting = r.awaiting
          /\ Shows(p.book, p.lastId)
      BY <2>0, <2>2, <3>1 DEF ReconcilerInv, Popped, Reconcilers, p
    <3>3. a \in Reconcilers /\ Shows(a.book, a.lastId) /\ a.lastId = d.last
      BY <2>1, <3>1, <3>2, ApplyDiffInv DEF a
    <3>4. a.synced = p.synced /\ a.awaiting = p.awaiting
      BY <3>2 DEF ApplyDiff, Reconcilers, a
    <3>5. DrainStep(r) = a
      BY <1>2, <2>6 DEF DrainStep, d, a, p
    <3>6. r.synced /\ ~r.awaiting
      BY <2>6, <3>1, <2>0 DEF ReconcilerInv
    <3>7. a.synced /\ ~a.awaiting
      BY <3>2, <3>4, <3>6
    <3>8. a.lastId # NoId
      BY <2>1, <3>3 DEF NoId, Ids, MarketAssumption
    <3>9. ReconcilerInv(a)
      BY <3>3, <3>7, <3>8 DEF ReconcilerInv
    <3> QED BY <3>5, <3>9
  <2>7. CASE ~(d.last <= r.lastId) /\ ~r.awaiting /\ d.first # r.lastId + 1
    BY <1>2, <2>0, <2>7, GapInv DEF DrainStep, d
  <2> QED BY <2>3, <2>4, <2>5, <2>6, <2>7
<1> QED BY <1>1, <1>2

\* The whole loop.
LEMMA DrainInv ==
  ASSUME NEW r, ReconcilerInv(r)
  PROVE  ReconcilerInv(Drain(r))
<1> DEFINE P == {s \in Reconcilers : ReconcilerInv(s)}
<1>1. \A s \in P : DrainStep(s) \in P
  BY DrainStepInv DEF ReconcilerInv
<1>2. Len(r.pending) \in Nat
  BY DEF ReconcilerInv, Reconcilers
<1>3. r \in P
  BY DEF ReconcilerInv
<1>4. Drain(r) \in P
  <2> HIDE DEF P
  <2> QED BY <1>1, <1>2, <1>3, DrainInduction
<1> QED BY <1>4

\* The three handlers keep the invariant.
LEMMA BufferedInv ==
  ASSUME NEW r, ReconcilerInv(r), NEW d \in Diffs
  PROVE  ReconcilerInv(Buffered(r, d))
<1>1. r \in Reconcilers /\ Append(r.pending, d) \in Seq(Diffs)
  BY DEF ReconcilerInv, Reconcilers
<1>2. BoundBuffer(Append(r.pending, d)) \in Seq(Diffs)
  BY <1>1, BoundBufferType
<1>3. /\ Buffered(r, d) \in Reconcilers
      /\ Buffered(r, d).book = r.book /\ Buffered(r, d).lastId = r.lastId
      /\ Buffered(r, d).synced = r.synced /\ Buffered(r, d).awaiting = r.awaiting
  BY <1>1, <1>2 DEF Buffered, Reconcilers
<1> QED BY <1>3 DEF ReconcilerInv

LEMMA HandleDiffInv ==
  ASSUME NEW r, ReconcilerInv(r), NEW d \in Diffs
  PROVE  ReconcilerInv(handle_diff(r, d))
<1>0. r \in Reconcilers
  BY DEF ReconcilerInv
<1>1. CASE ~r.synced
  BY <1>1, BufferedInv, DrainInv DEF handle_diff
<1>2. CASE r.synced /\ d.first = r.lastId + 1
  <2> DEFINE a == ApplyDiff(r, d)
  <2> HIDE DEF a
  <2>1. /\ r.lastId # NoId /\ ~r.awaiting /\ Shows(r.book, r.lastId)
        /\ r.lastId \in Ids
    BY <1>0, <1>2 DEF ReconcilerInv, Reconcilers
  <2>2. d.first - 1 <= r.lastId /\ r.lastId <= d.last /\ d.last \in Ids
    BY <1>2, <2>1 DEF Diffs, Ids, MarketAssumption
  <2>3. a \in Reconcilers /\ Shows(a.book, a.lastId) /\ a.lastId = d.last
    BY <1>0, <2>1, <2>2, ApplyDiffInv DEF a
  <2>4. a.synced /\ ~a.awaiting
    BY <1>0, <1>2, <2>1 DEF ApplyDiff, Reconcilers, a
  <2>5. a.lastId # NoId
    BY <2>2, <2>3 DEF NoId, Ids, MarketAssumption
  <2>6. ReconcilerInv(a)
    BY <2>3, <2>4, <2>5 DEF ReconcilerInv
  <2> QED BY <1>2, <2>6 DEF handle_diff, a
<1>3. CASE r.synced /\ d.first # r.lastId + 1
  BY <1>0, <1>3, GapInv DEF handle_diff
<1> QED BY <1>1, <1>2, <1>3

\* The state of a reconciler when handle_snapshot starts to drain.
LEMMA SnapshotInv ==
  ASSUME NEW r, ReconcilerInv(r), NEW n \in Ids
  PROVE  LET s == [r EXCEPT !.book = apply_snapshot(SnapshotLevels(n)),
                            !.lastId = n, !.synced = FALSE, !.awaiting = TRUE]
         IN  /\ ReconcilerInv(s)
             /\ s.pending = r.pending /\ s.lastId = n /\ ~s.synced /\ s.awaiting
<1> DEFINE b == apply_snapshot(SnapshotLevels(n))
           s == [r EXCEPT !.book = b, !.lastId = n,
                          !.synced = FALSE, !.awaiting = TRUE]
<1>1. b \in Books /\ Shows(b, n)
  BY SnapshotShows
<1> HIDE DEF b
<1>2. /\ s \in Reconcilers /\ s.book = b /\ s.lastId = n
      /\ s.synced = FALSE /\ s.awaiting = TRUE /\ s.pending = r.pending
  BY <1>1 DEF ReconcilerInv, Reconcilers
<1>3. ReconcilerInv(s)
  BY <1>1, <1>2 DEF ReconcilerInv
<1> QED BY <1>2, <1>3 DEF b

LEMMA HandleSnapshotInv ==
  ASSUME NEW r, ReconcilerInv(r), NEW n \in Ids
  PROVE  ReconcilerInv(handle_snapshot(r, n))
  BY SnapshotInv, DrainInv DEF handle_snapshot

LEMMA HandleConnectionEventInv ==
  ASSUME NEW r, ReconcilerInv(r), NEW kind
  PROVE  ReconcilerInv(handle_connection_event(r, kind))
<1> DEFINE s == [r EXCEPT !.synced = FALSE, !.book = EmptyBook,
                          !.lastId = NoId, !.pending = <<>>]
<1>1. s \in Reconcilers /\ s.lastId = NoId /\ s.synced = FALSE
  <2>1. <<>> \in Seq(Diffs)
    OBVIOUS
  <2> QED BY <2>1, EmptyBookType DEF ReconcilerInv, Reconcilers
<1>2. ReconcilerInv(s)
  BY <1>1 DEF ReconcilerInv
<1> QED BY <1>2 DEF handle_connection_event, Clears

------------------------------------------------------------------------------
(* The loop ends. *)

\* Len(pending) iterations are enough: after them _drain_buffer has reached
\* its end, where another iteration would change nothing.
LEMMA DrainEnds ==
  ASSUME NEW r, ReconcilerInv(r)
  PROVE  DrainStep(Drain(r)) = Drain(r)
<1> DEFINE n == Len(r.pending)
           Ended(s) == DrainStep(s) = s
           S == [k \in Nat |->
                   {s \in Reconcilers :
                      ReconcilerInv(s) /\ (Ended(s) \/ Len(s.pending) <= n - k)}]
<1>1. n \in Nat /\ r \in S[0]
  BY DEF ReconcilerInv, Reconcilers
<1>2. ASSUME NEW k \in Nat, NEW s \in S[k] PROVE DrainStep(s) \in S[k + 1]
  <2>1. /\ s \in Reconcilers /\ ReconcilerInv(s) /\ s.pending \in Seq(Diffs)
        /\ Ended(s) \/ Len(s.pending) <= n - k
    BY <1>2 DEF Reconcilers
  <2>2. ReconcilerInv(DrainStep(s)) /\ DrainStep(s) \in Reconcilers
    BY <2>1, DrainStepInv DEF ReconcilerInv
  <2>3. Ended(s) => Ended(DrainStep(s))
    OBVIOUS
  <2>4. ~Ended(s) => Ended(DrainStep(s)) \/ Len(DrainStep(s).pending) <= n - (k + 1)
    <3> SUFFICES ASSUME ~Ended(s)
                 PROVE  Ended(DrainStep(s)) \/ Len(DrainStep(s).pending) <= n - (k + 1)
      OBVIOUS
    <3>1. s.pending # <<>>
      BY DEF DrainStep
    <3>2. Len(Tail(s.pending)) = Len(s.pending) - 1 /\ Len(s.pending) \in Nat
      BY <2>1, <3>1, PendingHead
    <3>3. DrainStep(s).pending = Tail(s.pending) \/ DrainStep(s).pending = <<>>
      BY <2>1, <3>1 DEF DrainStep, Popped, ApplyDiff, Gap, Reconcilers
    <3>4. DrainStep(s).pending = <<>> => Ended(DrainStep(s))
      BY Zenon DEF DrainStep
    <3>5. n \in Nat
      BY <1>1
    <3>6. Len(s.pending) <= n - k
      BY <2>1
    <3> HIDE DEF n
    <3>7. ASSUME DrainStep(s).pending = Tail(s.pending)
          PROVE  Len(DrainStep(s).pending) <= n - (k + 1)
      BY <3>2, <3>5, <3>6, <3>7
    <3> QED BY <3>3, <3>4, <3>7
  <2> QED BY <2>2, <2>3, <2>4
<1>3. \A k \in 0..n : Iterations(r, n)[k] \in S[k]
  <2>1. \A k \in Nat : \A s \in S[k] : DrainStep(s) \in S[k + 1]
    BY <1>2
  <2> HIDE DEF S, n
  <2> QED BY <1>1, <2>1, IterationsInduction
<1>4. n \in 0..n /\ n \in Nat /\ Drain(r) = Iterations(r, n)[n]
  BY <1>1 DEF Drain
<1>5. Drain(r) \in Reconcilers /\ (Ended(Drain(r)) \/ Len(Drain(r).pending) <= n - n)
  BY <1>3, <1>4
<1>6. CASE Len(Drain(r).pending) <= n - n
  <2>1. Drain(r).pending = <<>>
    BY <1>1, <1>5, <1>6 DEF Reconcilers
  <2> QED BY <2>1 DEF DrainStep
<1> QED BY <1>5, <1>6

\* A reconciler that serves a book has emptied its buffer.
LEMMA DrainedBufferIsEmpty ==
  ASSUME NEW r, ReconcilerInv(r), Drain(r).synced
  PROVE  Drain(r).pending = <<>>
<1> DEFINE s == Drain(r)
<1>1. ReconcilerInv(s) /\ DrainStep(s) = s
  BY DrainInv, DrainEnds
<1> HIDE DEF s
<1> SUFFICES ASSUME s.pending # <<>>, s.synced PROVE FALSE
  BY DEF s
<1>2. s \in Reconcilers /\ ~s.awaiting
  BY <1>1 DEF ReconcilerInv
<1>3. Tail(s.pending) # s.pending /\ s.pending # <<>>
  BY <1>2, PendingHead DEF Reconcilers
<1>4. DrainStep(s).pending = Tail(s.pending) \/ DrainStep(s).pending = <<>>
  BY <1>2, <1>3 DEF DrainStep, Popped, ApplyDiff, Gap, Reconcilers
<1> QED BY <1>1, <1>3, <1>4

------------------------------------------------------------------------------
(* What the loop can reach. *)

\* Buffered diffs between lo and hi can only take a book to an id in between.
Within(q, lo, hi) == \A i \in DOMAIN q : lo < q[i].first /\ q[i].last <= hi

LEMMA DrainBounds ==
  ASSUME NEW r, ReconcilerInv(r), ~r.synced, NEW lo \in Int, NEW hi \in Int,
         Within(r.pending, lo, hi)
  PROVE  /\ Within(Drain(r).pending, lo, hi)
         /\ Drain(r).synced => lo < Drain(r).lastId /\ Drain(r).lastId <= hi
<1> DEFINE Good(s) == /\ Within(s.pending, lo, hi)
                      /\ s.synced => lo < s.lastId /\ s.lastId <= hi
           P == {s \in Reconcilers : ReconcilerInv(s) /\ Good(s)}
<1>1. r \in P /\ Len(r.pending) \in Nat
  BY DEF ReconcilerInv, Reconcilers
<1>2. ASSUME NEW s \in P PROVE DrainStep(s) \in P
  <2> DEFINE d == Head(s.pending)
  <2>1. s \in Reconcilers /\ ReconcilerInv(s) /\ Good(s) /\ s.pending \in Seq(Diffs)
    BY DEF Reconcilers
  <2>2. ReconcilerInv(DrainStep(s)) /\ DrainStep(s) \in Reconcilers
    BY <2>1, DrainStepInv DEF ReconcilerInv
  <2>3. CASE s.pending = <<>>
    BY <2>1, <2>3 DEF DrainStep
  <2>4. CASE s.pending # <<>>
    <3>1. /\ d \in Diffs /\ d.first \in Int /\ d.last \in Int /\ d.first <= d.last
          /\ lo < d.first /\ d.last <= hi
      BY <2>1, <2>4, PendingHead DEF Diffs, Ids, Within
    <3>2. Within(Tail(s.pending), lo, hi)
      BY <2>1, <2>4, PendingHead DEF Within
    <3>3. Within(<<>>, lo, hi)
      BY DEF Within
    <3> HIDE DEF d
    <3>4. \/ DrainStep(s) = s
          \/ /\ DrainStep(s).pending = Tail(s.pending)
             /\ DrainStep(s).synced => s.synced \/ DrainStep(s).lastId = d.last
             /\ DrainStep(s).lastId \in {s.lastId, d.last}
          \/ DrainStep(s).pending = <<>> /\ ~DrainStep(s).synced
      BY <2>1, <2>4 DEF DrainStep, Popped, ApplyDiff, Gap, Reconcilers, d
    <3>5. lo < d.last
      BY <3>1
    <3>6. Good(DrainStep(s))
      BY <2>1, <3>1, <3>2, <3>3, <3>4, <3>5
    <3> QED BY <2>2, <3>6
  <2> QED BY <2>3, <2>4
<1>3. Drain(r) \in P
  <2> HIDE DEF P
  <2> QED BY <1>1, <1>2, DrainInduction
<1> QED BY <1>3

\* Where a reconciler can stand when what it has shown ends at lo and what it
\* has been given ends at hi.
Reach(r, lo, hi) ==
  /\ r.synced => lo <= r.lastId /\ r.lastId <= hi /\ r.pending = <<>>
  /\ ~r.synced => Within(r.pending, lo, hi)

\* A call with a diff between lo and hi; a served book moves forward.
LEMMA DiffReach ==
  ASSUME NEW r, ReconcilerInv(r), NEW lo \in Int, NEW hi \in Int,
         Reach(r, lo, hi), NEW d \in Diffs, lo < d.first, d.last <= hi
  PROVE  /\ Reach(handle_diff(r, d), lo, hi)
         /\ handle_diff(r, d).synced => lo < handle_diff(r, d).lastId
<1>0. /\ r \in Reconcilers /\ r.pending \in Seq(Diffs)
      /\ d.first \in Int /\ d.last \in Int /\ d.first <= d.last
  BY DEF ReconcilerInv, Reconcilers, Diffs, Ids
<1>1. CASE ~r.synced
  <2> DEFINE q == Append(r.pending, d)
             b == Buffered(r, d)
  <2>1. q \in Seq(Diffs) /\ Within(q, lo, hi)
    BY <1>0, <1>1 DEF Reach, Within
  <2> HIDE DEF q
  <2>2. Within(BoundBuffer(q), lo, hi)
    BY <2>1, BoundBufferType DEF Within
  <2>3. b.pending = BoundBuffer(q) /\ ~b.synced
    BY <1>0, <1>1 DEF Buffered, Reconcilers, q
  <2>4. ReconcilerInv(b) /\ Within(b.pending, lo, hi)
    BY <2>2, <2>3, BufferedInv
  <2> HIDE DEF b
  <2>5. CASE r.lastId = NoId
    BY <1>1, <2>3, <2>4, <2>5 DEF handle_diff, Reach, b
  <2>6. CASE r.lastId # NoId
    <3>1. handle_diff(r, d) = Drain(b)
      BY <1>1, <2>6 DEF handle_diff, b
    <3>2. /\ Within(Drain(b).pending, lo, hi)
          /\ Drain(b).synced => lo < Drain(b).lastId /\ Drain(b).lastId <= hi
      BY <2>3, <2>4, DrainBounds
    <3>3. Drain(b).synced => Drain(b).pending = <<>>
      BY <2>4, DrainedBufferIsEmpty
    <3>4. Drain(b).lastId \in Int
      BY <2>4, DrainInv DEF ReconcilerInv, Reconcilers, Ids, NoId
    <3> QED BY <3>1, <3>2, <3>3, <3>4 DEF Reach
  <2> QED BY <2>5, <2>6
<1>2. CASE r.synced /\ d.first = r.lastId + 1
  <2> DEFINE a == ApplyDiff(r, d)
  <2>1. handle_diff(r, d) = a
    BY <1>2 DEF handle_diff
  <2>2. a.lastId = d.last /\ a.synced = r.synced /\ a.pending = r.pending
    BY <1>0 DEF ApplyDiff, Reconcilers
  <2> HIDE DEF a
  <2> QED BY <1>0, <1>2, <2>1, <2>2 DEF Reach
<1>3. CASE r.synced /\ d.first # r.lastId + 1
  <2>1. handle_diff(r, d) = Gap(r)
    BY <1>3 DEF handle_diff
  <2>2. Within(<<>>, lo, hi)
    BY DEF Within
  <2> QED BY <1>0, <2>1, <2>2, GapInv DEF Reach
<1> QED BY <1>1, <1>2, <1>3

\* A call with a snapshot, whatever its id: a served book is withdrawn.
LEMMA SnapshotReach ==
  ASSUME NEW r, ReconcilerInv(r), NEW lo \in Int, NEW hi \in Int,
         Reach(r, lo, hi), NEW n \in Ids
  PROVE  /\ Reach(handle_snapshot(r, n), lo, hi)
         /\ r.synced => ~handle_snapshot(r, n).synced
<1> DEFINE s == [r EXCEPT !.book = apply_snapshot(SnapshotLevels(n)),
                          !.lastId = n, !.synced = FALSE, !.awaiting = TRUE]
<1>1. ReconcilerInv(s) /\ ~s.synced /\ s.pending = r.pending
  BY SnapshotInv
<1>2. handle_snapshot(r, n) = Drain(s)
  BY DEF handle_snapshot
<1> HIDE DEF s
<1>3. Within(<<>>, lo, hi)
  BY DEF Within
<1>4. Within(s.pending, lo, hi)
  BY <1>1, <1>3 DEF Reach
<1>5. /\ Within(Drain(s).pending, lo, hi)
      /\ Drain(s).synced => lo < Drain(s).lastId /\ Drain(s).lastId <= hi
  BY <1>1, <1>4, DrainBounds
<1>6. Drain(s).synced => Drain(s).pending = <<>>
  BY <1>1, DrainedBufferIsEmpty
<1>7. Drain(s).lastId \in Int
  BY <1>1, DrainInv DEF ReconcilerInv, Reconcilers, Ids, NoId
<1>8. r.synced => ~Drain(s).synced
  \* The buffer is empty: the bounds of DrainBounds can be chosen as we like.
  <2> SUFFICES ASSUME r.synced, Drain(s).synced PROVE FALSE
    OBVIOUS
  <2>1. s.pending = <<>>
    BY <1>1 DEF Reach
  <2>2. Within(s.pending, 1, 0)
    BY <2>1 DEF Within
  <2>3. 1 < Drain(s).lastId /\ Drain(s).lastId <= 0
    BY <1>1, <2>2, DrainBounds
  <2> QED BY <1>7, <2>3
<1> QED BY <1>2, <1>5, <1>6, <1>7, <1>8 DEF Reach

\* A call with a connection event clears the reconciler or leaves it alone.
LEMMA ConnectionEventReach ==
  ASSUME NEW r, ReconcilerInv(r), NEW lo, NEW hi, Reach(r, lo, hi), NEW kind
  PROVE  /\ Reach(handle_connection_event(r, kind), lo, hi)
         /\ \/ handle_connection_event(r, kind) = r
            \/ ~handle_connection_event(r, kind).synced
<1> DEFINE s == [r EXCEPT !.synced = FALSE, !.book = EmptyBook,
                          !.lastId = NoId, !.pending = <<>>]
<1>1. s.synced = FALSE /\ s.pending = <<>>
  BY DEF ReconcilerInv, Reconcilers
<1>2. Reach(s, lo, hi)
  BY <1>1 DEF Reach, Within
<1> QED BY <1>1, <1>2 DEF handle_connection_event, Clears

------------------------------------------------------------------------------
(* A book is not dropped in silence. *)

\* A reconciler has a snapshot, or it has asked for one.
HasOrAsks(r) == r.lastId # NoId \/ r.resync

\* No iteration of the loop, and so no drain, gives up a snapshot without
\* asking for another one.
LEMMA DrainHasOrAsks ==
  ASSUME NEW r, ReconcilerInv(r), HasOrAsks(r)
  PROVE  HasOrAsks(Drain(r))
<1> DEFINE P == {s \in Reconcilers : ReconcilerInv(s) /\ HasOrAsks(s)}
<1>1. r \in P /\ Len(r.pending) \in Nat
  BY DEF ReconcilerInv, Reconcilers
<1>2. ASSUME NEW s \in P PROVE DrainStep(s) \in P
  <2> DEFINE d == Head(s.pending)
  <2>1. /\ s \in Reconcilers /\ ReconcilerInv(s) /\ HasOrAsks(s)
        /\ s.pending \in Seq(Diffs)
    BY DEF Reconcilers
  <2>2. ReconcilerInv(DrainStep(s)) /\ DrainStep(s) \in Reconcilers
    BY <2>1, DrainStepInv DEF ReconcilerInv
  <2>3. CASE s.pending = <<>>
    BY <2>1, <2>3 DEF DrainStep
  <2>4. CASE s.pending # <<>>
    <3>1. d \in Diffs /\ d.last # NoId
      BY <2>1, <2>4, PendingHead DEF Diffs, Ids, NoId
    <3> HIDE DEF d
    <3>2. \/ DrainStep(s).lastId = s.lastId /\ DrainStep(s).resync = s.resync
          \/ DrainStep(s).lastId = d.last
          \/ DrainStep(s).resync
      BY <2>1, <2>4 DEF DrainStep, Popped, ApplyDiff, Gap, Reconcilers, d
    <3> QED BY <2>1, <2>2, <3>1, <3>2 DEF HasOrAsks
  <2> QED BY <2>3, <2>4
<1>3. Drain(r) \in P
  <2> HIDE DEF P
  <2> QED BY <1>1, <1>2, DrainInduction
<1> QED BY <1>3

\* After a snapshot there is one, or another one is asked for.
LEMMA SnapshotHasOrAsks ==
  ASSUME NEW r, ReconcilerInv(r), NEW n \in Ids
  PROVE  HasOrAsks(handle_snapshot(r, n))
<1> DEFINE s == [r EXCEPT !.book = apply_snapshot(SnapshotLevels(n)),
                          !.lastId = n, !.synced = FALSE, !.awaiting = TRUE]
<1>1. ReconcilerInv(s) /\ s.lastId = n
  BY SnapshotInv
<1>2. handle_snapshot(r, n) = Drain(s)
  BY DEF handle_snapshot
<1> HIDE DEF s
<1>3. n # NoId
  BY DEF Ids, NoId
<1> QED BY <1>1, <1>2, <1>3, DrainHasOrAsks DEF HasOrAsks

\* A diff takes no snapshot away unless another one is asked for.
LEMMA DiffHasOrAsks ==
  ASSUME NEW r, ReconcilerInv(r), r.lastId # NoId, NEW d \in Diffs
  PROVE  HasOrAsks(handle_diff(r, d))
<1>1. r \in Reconcilers /\ d.last # NoId
  BY DEF ReconcilerInv, Diffs, Ids, NoId
<1>2. CASE ~r.synced
  <2> DEFINE b == Buffered(r, d)
  <2>1. ReconcilerInv(b) /\ b.lastId = r.lastId
    BY <1>1, BufferedInv DEF Buffered, Reconcilers
  <2>2. handle_diff(r, d) = Drain(b)
    BY <1>2 DEF handle_diff
  <2> HIDE DEF b
  <2> QED BY <2>1, <2>2, DrainHasOrAsks DEF HasOrAsks
<1>3. CASE r.synced /\ d.first = r.lastId + 1
  <2>1. handle_diff(r, d).lastId = d.last
    BY <1>1, <1>3 DEF handle_diff, ApplyDiff, Reconcilers
  <2> QED BY <1>1, <2>1 DEF HasOrAsks
<1>4. CASE r.synced /\ d.first # r.lastId + 1
  <2>1. handle_diff(r, d).resync
    BY <1>1, <1>4 DEF handle_diff, Gap, Reconcilers
  <2> QED BY <2>1 DEF HasOrAsks
<1> QED BY <1>2, <1>3, <1>4

------------------------------------------------------------------------------
(* Types, and the reconciler's invariant. *)

\* The reconciler's invariant is inductive together with the types: every
\* handler keeps it, and nothing but a handler touches the reconciler.
FeedInv == TypeOK /\ ReconcilerInv(rec)

\* The end of a handler, whatever the handler.
LEMMA HandledType ==
  ASSUME FeedInv, NEW r, ReconcilerInv(r), queue # <<>>, Handled(r)
  PROVE  FeedInv'
<1>1. r \in Reconcilers
  BY DEF ReconcilerInv
<1>2. /\ rec' \in Reconcilers
      /\ rec'.book = r.book /\ rec'.lastId = r.lastId
      /\ rec'.synced = r.synced /\ rec'.awaiting = r.awaiting
  BY <1>1 DEF Handled, Reconcilers
<1>3. ReconcilerInv(rec')
  BY <1>2 DEF ReconcilerInv
<1>4. served' \in Ids
  <2>1. r.synced => r.lastId \in Ids
    BY <1>1 DEF ReconcilerInv, Reconcilers
  <2> QED BY <2>1 DEF Handled, FeedInv, TypeOK
<1>5. queue' \in Seq(Events)
  BY QueueType DEF Handled, FeedInv, TypeOK
<1>6. fetch' \in [Fetches -> FetchStates]
  <2>1. Requested \in FetchStates
    BY MarketAssumption DEF Requested, FetchStates, Ids
  <2> QED BY <2>1 DEF Handled, FeedInv, TypeOK
<1>7. UNCHANGED <<published, phase, sent, malformed, failed>>
  BY DEF Handled
<1> QED BY <1>2, <1>3, <1>4, <1>5, <1>6, <1>7 DEF FeedInv, TypeOK

LEMMA FeedInit == Init => FeedInv
<1> SUFFICES ASSUME Init PROVE FeedInv
  OBVIOUS
<1>1. 0 \in Ids /\ Idle \in FetchStates
  BY MarketAssumption DEF Ids, Idle, FetchStates
<1>2. NewReconciler \in Reconcilers
  <2>1. <<>> \in Seq(Diffs)
    OBVIOUS
  <2> QED BY <2>1, EmptyBookType DEF NewReconciler, Reconcilers
<1>3. ReconcilerInv(rec)
  BY <1>2 DEF Init, NewReconciler, ReconcilerInv
<1>4. TypeOK
  <2>1. <<>> \in Seq(Events)
    OBVIOUS
  <2> QED BY <1>1, <1>2, <2>1 DEF Init, TypeOK
<1> QED BY <1>3, <1>4 DEF FeedInv

LEMMA FeedStep == FeedInv /\ [Next]_vars => FeedInv'
<1> SUFFICES ASSUME FeedInv, [Next]_vars PROVE FeedInv'
  OBVIOUS
<1> USE DEF FeedInv
<1>1. /\ Idle \in FetchStates /\ Requested \in FetchStates
      /\ Initial \in Fetches
  BY MarketAssumption DEF Ids, Idle, Requested, FetchStates, Fetches
<1>2. /\ ConnectionEvent("connected") \in Events
      /\ ConnectionEvent("disconnected") \in Events
      /\ ConnectionEvent("malformed_message") \in Events
  BY DEF ConnectionEvent, ConnectionEvents, Events
<1>3. CASE Publish
  BY <1>3, MarketAssumption DEF Publish, TypeOK, Ids
<1>4. CASE Connect
  BY <1>4 DEF Connect, TypeOK
<1>5. CASE ConnectFails
  BY <1>5 DEF ConnectFails, TypeOK
<1>6. CASE EmitConnected
  BY <1>1, <1>2, <1>6, QueueType DEF EmitConnected, Put, TypeOK
<1>7. CASE Disconnect
  BY <1>1, <1>7 DEF Disconnect, TypeOK
<1>8. CASE EmitDisconnected
  BY <1>2, <1>8, QueueType DEF EmitDisconnected, Put, TypeOK
<1>9. CASE ReceiveDiff
  <2>1. PICK u \in (sent + 1)..published :
          /\ Put([type |-> "diff", first |-> sent + 1, last |-> u])
          /\ sent' = u
    BY <1>9 DEF ReceiveDiff
  <2>2. u \in Ids /\ sent + 1 \in Ids /\ 1 <= sent + 1 /\ sent + 1 <= u
    BY MarketAssumption DEF TypeOK, Ids
  <2>3. [type |-> "diff", first |-> sent + 1, last |-> u] \in Events
    BY <2>2 DEF Diffs, Events
  <2> QED BY <1>9, <2>1, <2>2, <2>3, QueueType DEF ReceiveDiff, Put, TypeOK
<1>10. CASE LoseDiff
  BY <1>10, MarketAssumption DEF LoseDiff, TypeOK, Ids
<1>11. CASE EmitMalformed
  BY <1>2, <1>11, QueueType DEF EmitMalformed, Put, TypeOK
<1>12. ASSUME NEW f \in Fetches, Answer(f) PROVE FeedInv'
  BY <1>12 DEF Answer, FetchStates, TypeOK
<1>13. ASSUME NEW f \in Fetches, FetchFails(f) PROVE FeedInv'
  BY <1>1, <1>13 DEF FetchFails, TypeOK
<1>14. ASSUME NEW f \in Fetches, PutSnapshot(f) PROVE FeedInv'
  <2>1. [type |-> "snapshot", id |-> fetch[f].id] \in Events
    BY DEF Snapshots, Events, FetchStates, TypeOK
  <2> QED BY <1>1, <1>14, <2>1, QueueType DEF PutSnapshot, Put, TypeOK
<1>15. CASE ConsumeDiff
  <2>1. queue # <<>> /\ Head(queue) \in Diffs
    BY <1>15, QueueType, EventTypes DEF ConsumeDiff, TypeOK
  <2>2. ReconcilerInv(handle_diff(rec, Head(queue)))
    BY <2>1, HandleDiffInv
  <2> QED BY <1>15, <2>1, <2>2, HandledType DEF ConsumeDiff
<1>16. CASE ConsumeSnapshot
  <2>1. queue # <<>> /\ Head(queue).id \in Ids
    BY <1>16, QueueType, EventTypes DEF ConsumeSnapshot, TypeOK
  <2>2. ReconcilerInv(handle_snapshot(rec, Head(queue).id))
    BY <2>1, HandleSnapshotInv
  <2> QED BY <1>16, <2>1, <2>2, HandledType DEF ConsumeSnapshot
<1>17. CASE ConsumeConnectionEvent
  <2>1. ReconcilerInv(handle_connection_event(rec, Head(queue).kind))
    BY HandleConnectionEventInv
  <2> QED BY <1>17, <2>1, HandledType DEF ConsumeConnectionEvent
<1>18. CASE UNCHANGED vars
  BY <1>18 DEF vars, TypeOK
<1> QED
  BY <1>3, <1>4, <1>5, <1>6, <1>7, <1>8, <1>9, <1>10, <1>11, <1>12, <1>13,
     <1>14, <1>15, <1>16, <1>17, <1>18 DEF Next, Consume

\* Every variable of the feed keeps its type.
THEOREM TypeCorrect == Spec => []TypeOK
<1>1. FeedInv => TypeOK
  BY DEF FeedInv
<1> QED BY <1>1, FeedInit, FeedStep, PTL DEF Spec

\* The book served by OrderBookRegistry is never wrong: while it is synced it
\* is the exchange's book after update last_update_id.
THEOREM SyncedBookCorrect == Spec => []SyncedBookIsExact
<1>1. FeedInv => SyncedBookIsExact
  BY DEF FeedInv, ReconcilerInv, SyncedBookIsExact
<1> QED BY <1>1, FeedInit, FeedStep, PTL DEF Spec

------------------------------------------------------------------------------
(* The order of the stream. *)

\* The diffs in the queue are in order and after everything shown or buffered,
\* so that whatever the reconciler attaches to comes after what it has shown.
IsDiff(i) == queue[i].type = "diff"

StreamInv ==
  /\ served <= sent /\ sent <= published
  /\ \A i \in DOMAIN queue :
       IsDiff(i) => served < queue[i].first /\ queue[i].last <= sent
  /\ \A i, j \in DOMAIN queue :
       i < j /\ IsDiff(i) /\ IsDiff(j) => queue[i].last < queue[j].first
  /\ Reach(rec, served, sent)
  /\ \A j \in DOMAIN queue : IsDiff(j) => Reach(rec, served, queue[j].first - 1)
  /\ rec.synced => rec.lastId = served

OrderedInv == FeedInv /\ StreamInv

LEMMA OrderedInit == Init => OrderedInv
<1> SUFFICES ASSUME Init PROVE StreamInv
  BY FeedInit DEF OrderedInv
<1>1. DOMAIN queue = {} /\ rec.pending = <<>> /\ ~rec.synced
  BY DEF Init, NewReconciler
<1> QED BY <1>1 DEF Init, StreamInv, Reach, Within

\* Putting an event at the end of the queue: a diff must be new.
LEMMA PutStream ==
  ASSUME OrderedInv, NEW e \in Events, queue' = Append(queue, e),
         UNCHANGED <<rec, served, published>>, sent' \in Ids,
         sent <= sent', sent' <= published,
         e.type = "diff" => sent < e.first /\ e.last <= sent'
  PROVE  StreamInv'
<1>1. /\ queue \in Seq(Events) /\ sent \in Int /\ served \in Int /\ sent' \in Int
      /\ published \in Int /\ StreamInv /\ rec.lastId \in Int
  BY DEF OrderedInv, FeedInv, TypeOK, Ids, Reconcilers, NoId
<1>2. /\ DOMAIN queue' = 1..(Len(queue) + 1) /\ DOMAIN queue = 1..Len(queue)
      /\ Len(queue) \in Nat
      /\ \A i \in DOMAIN queue : queue'[i] = queue[i] /\ i \in DOMAIN queue'
      /\ queue'[Len(queue) + 1] = e
  BY <1>1
<1>3. ASSUME NEW i \in DOMAIN queue', queue'[i].type = "diff"
      PROVE  queue'[i] \in Diffs /\ queue'[i].first \in Int /\ queue'[i].last \in Int
  <2>1. queue'[i] \in Events
    BY <1>1, <1>2
  <2> QED BY <1>3, <2>1, EventTypes DEF Diffs, Ids
<1>4. \A i \in DOMAIN queue' : queue'[i].type = "diff" =>
        served < queue'[i].first /\ queue'[i].last <= sent'
  BY <1>1, <1>2, <1>3 DEF StreamInv, IsDiff
<1>5. \A i, j \in DOMAIN queue' :
        i < j /\ queue'[i].type = "diff" /\ queue'[j].type = "diff"
        => queue'[i].last < queue'[j].first
  <2> SUFFICES ASSUME NEW i \in DOMAIN queue', NEW j \in DOMAIN queue', i < j,
                      queue'[i].type = "diff", queue'[j].type = "diff"
               PROVE  queue'[i].last < queue'[j].first
    OBVIOUS
  <2>1. i \in DOMAIN queue
    BY <1>2
  <2>2. CASE j \in DOMAIN queue
    BY <1>1, <1>2, <2>1, <2>2 DEF StreamInv, IsDiff
  <2>3. CASE j = Len(queue) + 1
    <3>1. queue[i].last <= sent /\ sent < e.first
      BY <1>1, <1>2, <2>1, <2>3 DEF StreamInv, IsDiff
    <3> QED BY <1>1, <1>2, <1>3, <2>1, <2>3, <3>1
  <2> QED BY <1>2, <2>2, <2>3
<1>6. ASSUME NEW hi \in Int, sent <= hi PROVE Reach(rec, served, hi)
  <2>1. \A i \in DOMAIN rec.pending : rec.pending[i].last \in Int
    BY DEF OrderedInv, FeedInv, TypeOK, Reconcilers, Diffs, Ids
  <2> QED BY <1>1, <1>6, <2>1 DEF StreamInv, Reach, Within
<1>7. \A j \in DOMAIN queue' : queue'[j].type = "diff" =>
        Reach(rec, served, queue'[j].first - 1)
  <2> SUFFICES ASSUME NEW j \in DOMAIN queue', queue'[j].type = "diff"
               PROVE  Reach(rec, served, queue'[j].first - 1)
    OBVIOUS
  <2>1. CASE j \in DOMAIN queue
    BY <1>1, <1>2, <2>1 DEF StreamInv, IsDiff
  <2>2. CASE j = Len(queue) + 1
    BY <1>1, <1>2, <1>3, <1>6, <2>2
  <2> QED BY <1>2, <2>1, <2>2
<1> QED BY <1>1, <1>4, <1>5, <1>6, <1>7 DEF StreamInv, IsDiff

\* Only the exchange and the connection move: the rest stays in order.
LEMMA IdleStream ==
  ASSUME OrderedInv, UNCHANGED <<queue, rec, served>>,
         sent' \in Ids, published' \in Ids, sent <= sent', sent' <= published'
  PROVE  StreamInv'
<1>1. /\ sent \in Int /\ served \in Int /\ sent' \in Int /\ published' \in Int
      /\ StreamInv /\ rec.lastId \in Int /\ queue \in Seq(Events)
  BY DEF OrderedInv, FeedInv, TypeOK, Ids, Reconcilers, NoId
<1>2. \A i \in DOMAIN queue : IsDiff(i) => queue[i].last \in Int
  <2> SUFFICES ASSUME NEW i \in DOMAIN queue, IsDiff(i) PROVE queue[i].last \in Int
    OBVIOUS
  <2>1. queue[i] \in Events
    BY <1>1
  <2> QED BY <2>1, EventTypes DEF IsDiff, Diffs, Ids
<1>3. \A i \in DOMAIN rec.pending : rec.pending[i].last \in Int
  BY DEF OrderedInv, FeedInv, TypeOK, Reconcilers, Diffs, Ids
<1>4. Reach(rec, served, sent')
  BY <1>1, <1>3 DEF StreamInv, Reach, Within
<1>5. \A i \in DOMAIN queue : IsDiff(i) => queue[i].last <= sent'
  BY <1>1, <1>2 DEF StreamInv
<1>6. served <= sent'
  BY <1>1 DEF StreamInv
<1> QED BY <1>1, <1>4, <1>5, <1>6 DEF StreamInv, IsDiff

\* The bounds a handler's result must respect: everything sent, and every
\* diff behind the event it was called with.
Bounds ==
  {sent} \cup { queue[j].first - 1 : j \in {k \in DOMAIN queue : k > 1 /\ IsDiff(k)} }

\* Each bound is above the event at the head and above what came before.
LEMMA BoundsReach ==
  ASSUME OrderedInv, queue # <<>>, NEW hi \in Bounds
  PROVE  /\ hi \in Int /\ served <= hi
         /\ Reach(rec, served, hi)
         /\ IsDiff(1) => served < queue[1].first /\ queue[1].last <= hi
<1>1. /\ queue \in Seq(Events) /\ sent \in Int /\ served \in Int /\ StreamInv
      /\ 1 \in DOMAIN queue
  BY DEF OrderedInv, FeedInv, TypeOK, Ids
<1>2. CASE hi = sent
  BY <1>1, <1>2 DEF StreamInv
<1>3. CASE hi # sent
  <2>1. PICK j \in DOMAIN queue : j > 1 /\ IsDiff(j) /\ hi = queue[j].first - 1
    BY <1>3 DEF Bounds
  <2>2. queue[j] \in Events /\ queue[1] \in Events
    BY <1>1
  <2>3. queue[j].first \in Int /\ (IsDiff(1) => queue[1].last \in Int)
    BY <2>1, <2>2, EventTypes DEF IsDiff, Diffs, Ids
  <2> QED BY <1>1, <2>1, <2>3 DEF StreamInv
<1> QED BY <1>2, <1>3

\* After a handler whose result stays within the bounds, order holds again.
LEMMA HandledStream ==
  ASSUME OrderedInv, queue # <<>>, NEW r, ReconcilerInv(r), Handled(r),
         \A hi \in Bounds : Reach(r, served, hi)
  PROVE  StreamInv'
<1>1. /\ queue \in Seq(Events) /\ sent \in Int /\ served \in Int /\ StreamInv
      /\ r \in Reconcilers /\ r.lastId \in Int
  BY DEF OrderedInv, FeedInv, TypeOK, ReconcilerInv, Reconcilers, Ids, NoId
<1>2. /\ queue' = Tail(queue) /\ DOMAIN queue = 1..Len(queue) /\ Len(queue) \in Nat
      /\ DOMAIN queue' = 1..(Len(queue) - 1)
      /\ \A i \in DOMAIN queue' : i + 1 \in DOMAIN queue /\ queue'[i] = queue[i + 1]
  BY <1>1 DEF Handled
<1>3. /\ rec'.lastId = r.lastId /\ rec'.synced = r.synced /\ rec'.pending = r.pending
      /\ served' = IF r.synced THEN r.lastId ELSE served
      /\ sent' = sent /\ published' = published
  BY <1>1 DEF Handled, Reconcilers
<1>4. \A lo, hi : Reach(rec', lo, hi) <=> Reach(r, lo, hi)
  BY <1>3 DEF Reach
<1>5. ASSUME NEW hi \in Bounds
      PROVE  Reach(r, served', hi) /\ served <= served' /\ served' <= hi
  <2>1. Reach(r, served, hi) /\ served <= hi /\ hi \in Int
    BY BoundsReach
  <2> QED BY <1>1, <1>3, <2>1 DEF Reach
<1>6. sent \in Bounds
  BY DEF Bounds
<1>7. ASSUME NEW i \in DOMAIN queue', queue'[i].type = "diff"
      PROVE  /\ queue'[i].first - 1 \in Bounds /\ queue'[i].first \in Int
             /\ served' < queue'[i].first
             /\ queue'[i].last <= sent
             /\ Reach(r, served', queue'[i].first - 1)
  <2>1. i + 1 \in DOMAIN queue /\ i + 1 > 1 /\ IsDiff(i + 1) /\ queue'[i] = queue[i + 1]
    BY <1>2, <1>7 DEF IsDiff
  <2>2. queue'[i].first - 1 \in Bounds
    BY <2>1 DEF Bounds
  <2>3. queue[i + 1] \in Events
    BY <1>1, <2>1
  <2>4. queue'[i].first \in Int
    BY <1>7, <2>1, <2>3, EventTypes DEF Diffs, Ids
  <2>5. served' \in Int
    BY <1>1, <1>3
  <2>6. served' <= queue'[i].first - 1 /\ Reach(r, served', queue'[i].first - 1)
    BY <1>5, <2>2
  <2>7. queue'[i].last <= sent
    BY <1>1, <2>1 DEF StreamInv
  <2> QED BY <2>2, <2>4, <2>5, <2>6, <2>7
<1>8. \A i, j \in DOMAIN queue' :
        i < j /\ queue'[i].type = "diff" /\ queue'[j].type = "diff"
        => queue'[i].last < queue'[j].first
  <2> SUFFICES ASSUME NEW i \in DOMAIN queue', NEW j \in DOMAIN queue', i < j,
                      queue'[i].type = "diff", queue'[j].type = "diff"
               PROVE  queue'[i].last < queue'[j].first
    OBVIOUS
  <2>1. i + 1 \in DOMAIN queue /\ j + 1 \in DOMAIN queue /\ i + 1 < j + 1
    BY <1>2
  <2>2. IsDiff(i + 1) /\ IsDiff(j + 1)
    BY <1>2 DEF IsDiff
  <2> QED BY <1>1, <1>2, <2>1, <2>2 DEF StreamInv
<1>9. Reach(rec', served', sent') /\ served' <= sent'
  BY <1>3, <1>4, <1>5, <1>6
<1>10. sent' <= published'
  BY <1>1, <1>3 DEF StreamInv
<1>11. rec'.synced => rec'.lastId = served'
  BY <1>3
<1> QED BY <1>3, <1>4, <1>7, <1>8, <1>9, <1>10, <1>11 DEF StreamInv, IsDiff

\* What each consumption makes of the reconciler: the event at the head is
\* handled, the result respects the bounds, and a book that stays served is
\* left alone or moves forward.
Forward(r) ==
  rec.synced /\ r.synced => r = rec \/ served < r.lastId

LEMMA ConsumeResult ==
  ASSUME OrderedInv, Consume
  PROVE  /\ queue # <<>>
         /\ \E r : /\ ReconcilerInv(r) /\ Handled(r) /\ Forward(r)
                   /\ \A hi \in Bounds : Reach(r, served, hi)
<1>1. /\ queue \in Seq(Events) /\ ReconcilerInv(rec) /\ served \in Int /\ sent \in Bounds
  BY DEF OrderedInv, FeedInv, TypeOK, Ids, Bounds
<1>2. CASE ConsumeDiff
  <2> DEFINE d == Head(queue)
             r == handle_diff(rec, d)
  <2>1. queue # <<>> /\ d \in Diffs /\ Handled(r) /\ IsDiff(1) /\ d = queue[1]
    BY <1>1, <1>2, QueueType, EventTypes DEF ConsumeDiff, IsDiff
  <2>2. ReconcilerInv(r)
    BY <1>1, <2>1, HandleDiffInv
  <2> HIDE DEF d
  <2>3. ASSUME NEW hi \in Bounds
        PROVE  Reach(r, served, hi) /\ (r.synced => served < r.lastId)
    <3>1. hi \in Int /\ Reach(rec, served, hi) /\ served < d.first /\ d.last <= hi
      BY <2>1, <2>3, BoundsReach
    <3> QED BY <1>1, <2>1, <3>1, DiffReach
  <2>4. r.synced => served < r.lastId
    BY <1>1, <2>3
  <2> QED BY <2>1, <2>2, <2>3, <2>4 DEF Forward
<1>3. CASE ConsumeSnapshot
  <2> DEFINE n == Head(queue).id
             r == handle_snapshot(rec, n)
  <2>1. queue # <<>> /\ n \in Ids /\ Handled(r)
    BY <1>1, <1>3, QueueType, EventTypes DEF ConsumeSnapshot
  <2>2. ReconcilerInv(r)
    BY <1>1, <2>1, HandleSnapshotInv
  <2> HIDE DEF n
  <2>3. ASSUME NEW hi \in Bounds
        PROVE  Reach(r, served, hi) /\ (rec.synced => ~r.synced)
    <3>1. hi \in Int /\ Reach(rec, served, hi)
      BY <2>1, <2>3, BoundsReach
    <3> QED BY <1>1, <2>1, <3>1, SnapshotReach
  <2>4. rec.synced => ~r.synced
    BY <1>1, <2>3
  <2> QED BY <2>1, <2>2, <2>3, <2>4 DEF Forward
<1>4. CASE ConsumeConnectionEvent
  <2> DEFINE kind == Head(queue).kind
             r == handle_connection_event(rec, kind)
  <2>1. queue # <<>> /\ Handled(r)
    BY <1>4 DEF ConsumeConnectionEvent
  <2> HIDE DEF kind
  <2>2. ReconcilerInv(r)
    BY <1>1, HandleConnectionEventInv
  <2>3. ASSUME NEW hi \in Bounds
        PROVE  Reach(r, served, hi) /\ (r = rec \/ ~r.synced)
    <3>1. Reach(rec, served, hi)
      BY <2>1, <2>3, BoundsReach
    <3> QED BY <1>1, <3>1, ConnectionEventReach
  <2>4. r = rec \/ ~r.synced
    BY <1>1, <2>3
  <2> QED BY <2>1, <2>2, <2>3, <2>4 DEF Forward
<1> QED BY <1>2, <1>3, <1>4 DEF Consume

\* Order is kept by every step.
LEMMA OrderedStep == OrderedInv /\ [Next]_vars => OrderedInv'
<1> SUFFICES ASSUME OrderedInv, [Next]_vars PROVE StreamInv'
  BY FeedStep DEF OrderedInv
<1>1. /\ TypeOK /\ sent \in Ids /\ published \in Ids /\ served \in Ids
      /\ sent <= published /\ StreamInv
  BY DEF OrderedInv, FeedInv, TypeOK, StreamInv
<1>2. \A i \in Ids : i \in Int /\ i <= i
  BY DEF Ids
<1>3. /\ ConnectionEvent("connected") \in Events
      /\ ConnectionEvent("disconnected") \in Events
      /\ ConnectionEvent("malformed_message") \in Events
      /\ \A k : ConnectionEvent(k).type # "diff"
  BY DEF ConnectionEvent, ConnectionEvents, Events
<1>4. CASE Publish
  <2>1. published' \in Ids /\ sent' = sent /\ sent <= published'
    BY <1>1, <1>4, MarketAssumption DEF Publish, Ids
  <2> QED BY <1>1, <1>2, <1>4, <2>1, IdleStream DEF Publish
<1>5. CASE Connect
  BY <1>1, <1>2, <1>5, IdleStream DEF Connect
<1>6. CASE ConnectFails \/ Disconnect
  BY <1>1, <1>2, <1>6, IdleStream DEF ConnectFails, Disconnect
<1>7. CASE EmitConnected \/ EmitDisconnected \/ EmitMalformed
  <2>1. /\ UNCHANGED <<rec, served, published, sent>>
        /\ \E e \in Events : e.type # "diff" /\ queue' = Append(queue, e)
    BY <1>3, <1>7 DEF EmitConnected, EmitDisconnected, EmitMalformed, Put
  <2> QED BY <1>1, <1>2, <2>1, PutStream
<1>8. CASE ReceiveDiff
  <2>1. PICK u \in (sent + 1)..published :
          /\ Put([type |-> "diff", first |-> sent + 1, last |-> u])
          /\ sent' = u
    BY <1>8 DEF ReceiveDiff
  <2> DEFINE e == [type |-> "diff", first |-> sent + 1, last |-> u]
  <2>2. u \in Ids /\ sent < u /\ u <= published /\ sent < sent + 1
    BY <1>1, MarketAssumption DEF Ids
  <2>3. e \in Events
    BY <1>1, <2>2, MarketAssumption DEF Diffs, Events, Ids
  <2>4. queue' = Append(queue, e) /\ UNCHANGED <<rec, served, published>>
    BY <1>8, <2>1 DEF ReceiveDiff, Put
  <2>5. sent <= sent' /\ sent' <= published /\ sent < e.first /\ e.last <= sent'
    BY <1>1, <1>2, <2>1, <2>2 DEF Ids
  <2> QED BY <2>1, <2>2, <2>3, <2>4, <2>5, PutStream
<1>9. CASE LoseDiff
  <2>1. PICK u \in (sent + 1)..published : sent' = u
    BY <1>9 DEF LoseDiff
  <2>2. u \in Ids /\ sent <= u /\ u <= published
    BY <1>1, MarketAssumption DEF Ids
  <2> QED BY <1>1, <1>9, <2>1, <2>2, IdleStream DEF LoseDiff
<1>10. ASSUME NEW f \in Fetches, Answer(f) \/ FetchFails(f) PROVE StreamInv'
  BY <1>1, <1>2, <1>10, IdleStream DEF Answer, FetchFails
<1>11. ASSUME NEW f \in Fetches, PutSnapshot(f) PROVE StreamInv'
  <2> DEFINE e == [type |-> "snapshot", id |-> fetch[f].id]
  <2>1. e \in Events /\ e.type # "diff"
    BY <1>1 DEF Snapshots, Events, FetchStates, TypeOK
  <2>2. queue' = Append(queue, e) /\ UNCHANGED <<rec, served, published, sent>>
    BY <1>11 DEF PutSnapshot, Put
  <2> QED BY <1>1, <1>2, <2>1, <2>2, PutStream
<1>12. CASE Consume
  BY <1>12, ConsumeResult, HandledStream
<1>13. CASE UNCHANGED vars
  BY <1>1, <1>2, <1>13, IdleStream DEF vars
<1> QED
  BY <1>4, <1>5, <1>6, <1>7, <1>8, <1>9, <1>10, <1>11, <1>12, <1>13 DEF Next

------------------------------------------------------------------------------
(* The feed implements LiveBook. *)

\* A step of the feed, seen by a reader, is a step of LiveBook or nothing.
LEMMA StepRefines == OrderedInv /\ [Next]_vars => [Live!Next]_(Live!vars)
<1> SUFFICES ASSUME OrderedInv, [Next]_vars PROVE [Live!Next]_(Live!vars)
  OBVIOUS
<1>1. CASE UNCHANGED <<rec, served>>
  BY <1>1 DEF Live!vars, is_synced, get_book
<1>2. CASE Consume
  <2>1. PICK r : /\ ReconcilerInv(r) /\ Handled(r) /\ Forward(r)
                 /\ \A hi \in Bounds : Reach(r, served, hi)
    BY <1>2, ConsumeResult
  <2>2. /\ r \in Reconcilers /\ rec \in Reconcilers /\ served \in Ids
        /\ rec.synced => rec.lastId = served
    BY <2>1 DEF OrderedInv, FeedInv, TypeOK, StreamInv, ReconcilerInv
  <2>3. /\ rec'.book = r.book /\ rec'.lastId = r.lastId /\ rec'.synced = r.synced
        /\ served' = IF r.synced THEN r.lastId ELSE served
    BY <2>1, <2>2 DEF Handled, Reconcilers
  <2>4. r.synced => /\ r.lastId \in Ids /\ Live!Shows(r.book, r.lastId)
                    /\ served <= r.lastId
    <3>1. sent \in Bounds
      BY DEF Bounds
    <3>2. r.synced => served <= r.lastId
      BY <2>1, <3>1 DEF Reach
    <3>3. r.synced => r.lastId \in Ids /\ Shows(r.book, r.lastId)
      BY <2>1, <2>2 DEF ReconcilerInv, Reconcilers
    <3> QED BY <3>2, <3>3 DEF Live!Shows, Shows, Live!FullDepth, FullDepth, Live!Ids, Ids
  <2>5. CASE ~rec.synced /\ ~r.synced
    BY <2>2, <2>3, <2>5 DEF Live!vars, Reconcilers, is_synced, get_book
  <2>6. CASE ~rec.synced /\ r.synced
    <3>1. r.lastId \in Live!Ids /\ r.lastId >= served /\ served' = r.lastId
      BY <2>2, <2>3, <2>4, <2>6 DEF Live!Ids, Ids
    <3>2. Live!Attach
      BY <2>3, <2>4, <2>6, <3>1 DEF Live!Attach, is_synced, get_book
    <3> QED BY <3>2 DEF Live!Next
  <2>7. CASE rec.synced /\ ~r.synced
    <3>1. Live!Withdraw
      BY <2>3, <2>7 DEF Live!Withdraw, EmptyBook, Live!EmptyBook, is_synced, get_book
    <3> QED BY <3>1 DEF Live!Next
  <2>8. CASE rec.synced /\ r.synced /\ r = rec
    BY <2>2, <2>3, <2>8 DEF Live!vars, is_synced, get_book
  <2>9. CASE rec.synced /\ r.synced /\ served < r.lastId
    <3>1. r.lastId \in Live!Ids /\ r.lastId > served /\ served' = r.lastId
      BY <2>2, <2>3, <2>4, <2>9 DEF Live!Ids, Ids
    <3>2. Live!Advance
      BY <2>3, <2>4, <2>9, <3>1 DEF Live!Advance, is_synced, get_book
    <3> QED BY <3>2 DEF Live!Next
  <2> QED BY <2>1, <2>5, <2>6, <2>7, <2>8, <2>9 DEF Forward
<1> QED
  BY <1>1, <1>2 DEF Next, vars, Publish, Connect, ConnectFails, EmitConnected,
     Disconnect, EmitDisconnected, ReceiveDiff, LoseDiff, EmitMalformed,
     Answer, FetchFails, PutSnapshot

\* The promise to readers holds whatever the exchange, the connection, the
\* queue and the fetches do.
THEOREM FeedImplementsLiveBook == Spec => ImplementsLiveBook
<1>1. Init => Live!Init
  BY MarketAssumption
     DEF Init, NewReconciler, Live!Init, EmptyBook, Live!EmptyBook, is_synced, get_book
<1>2. OrderedInv /\ [Next]_vars => OrderedInv'
  BY OrderedStep
<1> QED BY <1>1, <1>2, OrderedInit, StepRefines, PTL DEF Spec, ImplementsLiveBook, Live!Spec

------------------------------------------------------------------------------
(* A cleared book gets another snapshot. *)

\* What must not happen to the reconciler on an open stream is that a
\* disconnected event of an earlier connection, still in the queue, takes the
\* snapshot of this one away: a snapshot counts when no such event is behind it.
Awaited ==
  \/ \E f \in Fetches : fetch[f].pc # "idle"
  \/ \E i \in DOMAIN queue :
       queue[i].type = "snapshot" /\ \A k \in DOMAIN queue : i < k => ~ClearsAt(queue, k)
  \/ rec.lastId # NoId /\ \A k \in DOMAIN queue : ~ClearsAt(queue, k)

AwaitInv == FeedInv /\ (phase = "streaming" /\ ~failed => Awaited)

\* Events that do not clear the book join the queue.
LEMMA AwaitedPut ==
  ASSUME FeedInv, Awaited, UNCHANGED <<fetch, rec>>,
         NEW e \in Events, queue' = Append(queue, e), e # ConnectionEvent("disconnected")
  PROVE  Awaited'
<1>1. queue \in Seq(Events)
  BY DEF FeedInv, TypeOK
<1>2. /\ DOMAIN queue' = 1..(Len(queue) + 1) /\ DOMAIN queue = 1..Len(queue)
      /\ Len(queue) \in Nat
      /\ \A i \in DOMAIN queue : queue'[i] = queue[i] /\ i \in DOMAIN queue'
      /\ queue'[Len(queue) + 1] = e
  BY <1>1
<1>3. ~ClearsAt(queue', Len(queue) + 1)
  <2> SUFFICES ASSUME e.type = "connection", e.kind = "disconnected" PROVE FALSE
    BY <1>2 DEF ClearsAt
  <2>1. e \in ConnectionEvents
    BY DEF Events, Diffs, Snapshots
  <2> QED BY <2>1 DEF ConnectionEvents, ConnectionEvent
<1>4. \A k \in DOMAIN queue' : ClearsAt(queue', k) => k \in DOMAIN queue /\ ClearsAt(queue, k)
  BY <1>2, <1>3 DEF ClearsAt
<1>5. CASE \E i \in DOMAIN queue :
             /\ queue[i].type = "snapshot"
             /\ \A k \in DOMAIN queue : i < k => ~ClearsAt(queue, k)
  BY <1>2, <1>4, <1>5 DEF Awaited
<1>6. CASE \E f \in Fetches : fetch[f].pc # "idle"
  BY <1>6 DEF Awaited
<1>7. CASE rec.lastId # NoId /\ \A k \in DOMAIN queue : ~ClearsAt(queue, k)
  BY <1>4, <1>7 DEF Awaited
<1> QED BY <1>5, <1>6, <1>7 DEF Awaited

\* A snapshot joins the queue.
LEMMA AwaitedSnapshot ==
  ASSUME FeedInv, NEW e, e.type = "snapshot", queue' = Append(queue, e)
  PROVE  Awaited'
<1>1. queue \in Seq(Events)
  BY DEF FeedInv, TypeOK
<1>2. /\ DOMAIN queue' = 1..(Len(queue) + 1) /\ Len(queue) + 1 \in DOMAIN queue'
      /\ queue'[Len(queue) + 1] = e
      /\ \A k \in DOMAIN queue' : ~(Len(queue) + 1 < k)
  BY <1>1
<1> QED BY <1>2 DEF Awaited

\* What a handler makes of the reconciler on an open stream.
LEMMA ConsumeHasOrAsks ==
  ASSUME FeedInv, Consume
  PROVE  \E r : /\ r \in Reconcilers /\ Handled(r) /\ queue # <<>>
                /\ queue[1].type = "snapshot" => HasOrAsks(r)
                /\ rec.lastId # NoId /\ ~ClearsAt(queue, 1) => HasOrAsks(r)
<1>1. /\ ReconcilerInv(rec) /\ queue \in Seq(Events) /\ queue # <<>>
      /\ Head(queue) = queue[1] /\ Head(queue) \in Events
  BY QueueType DEF FeedInv, TypeOK, Consume, ConsumeDiff, ConsumeSnapshot,
                   ConsumeConnectionEvent
<1>2. CASE ConsumeDiff
  <2> DEFINE r == handle_diff(rec, Head(queue))
  <2>1. Head(queue) \in Diffs /\ queue[1].type = "diff" /\ Handled(r)
    BY <1>1, <1>2, EventTypes DEF ConsumeDiff
  <2>2. r \in Reconcilers /\ (rec.lastId # NoId => HasOrAsks(r))
    BY <1>1, <2>1, HandleDiffInv, DiffHasOrAsks DEF ReconcilerInv
  <2> QED BY <1>1, <2>1, <2>2
<1>3. CASE ConsumeSnapshot
  <2> DEFINE r == handle_snapshot(rec, Head(queue).id)
  <2>1. Head(queue).id \in Ids /\ Handled(r)
    BY <1>1, <1>3, EventTypes DEF ConsumeSnapshot
  <2>2. r \in Reconcilers /\ HasOrAsks(r)
    BY <1>1, <2>1, HandleSnapshotInv, SnapshotHasOrAsks DEF ReconcilerInv
  <2> QED BY <1>1, <2>1, <2>2
<1>4. CASE ConsumeConnectionEvent
  <2> DEFINE r == handle_connection_event(rec, Head(queue).kind)
  <2>1. queue[1].type = "connection" /\ Handled(r)
    BY <1>1, <1>4 DEF ConsumeConnectionEvent
  <2>2. r \in Reconcilers
    BY <1>1, HandleConnectionEventInv DEF ReconcilerInv
  <2>3. Head(queue).kind \in {"connected", "disconnected", "malformed_message"}
    BY <1>1, <2>1 DEF Events, Diffs, Snapshots, ConnectionEvents
  <2>4. ~ClearsAt(queue, 1) => r = rec
    BY <1>1, <2>1, <2>3 DEF ClearsAt, handle_connection_event, Clears
  <2> QED BY <1>1, <2>1, <2>2, <2>4 DEF HasOrAsks
<1> QED BY <1>2, <1>3, <1>4 DEF Consume

\* An event leaves the queue.
LEMMA AwaitedConsume ==
  ASSUME FeedInv, Awaited, Consume
  PROVE  Awaited'
<1>1. PICK r : /\ r \in Reconcilers /\ Handled(r) /\ queue # <<>>
               /\ queue[1].type = "snapshot" => HasOrAsks(r)
               /\ rec.lastId # NoId /\ ~ClearsAt(queue, 1) => HasOrAsks(r)
  BY ConsumeHasOrAsks
<1>2. /\ queue \in Seq(Events) /\ fetch \in [Fetches -> FetchStates]
      /\ Tasks \subseteq Fetches
  BY DEF FeedInv, TypeOK, Fetches
<1>3. CASE r.resync
  <2>1. PICK t \in Tasks : fetch' = [fetch EXCEPT ![t] = Requested]
    BY <1>1, <1>3 DEF Handled
  <2>2. t \in Fetches /\ fetch'[t] = Requested
    BY <1>2, <2>1
  <2>3. fetch'[t].pc # "idle"
    BY <2>2 DEF Requested
  <2> QED BY <2>2, <2>3 DEF Awaited
<1>4. CASE ~r.resync
  <2>1. /\ queue' = Tail(queue) /\ fetch' = fetch /\ rec'.lastId = r.lastId
        /\ HasOrAsks(r) => r.lastId # NoId
    BY <1>1, <1>4 DEF Handled, Reconcilers, HasOrAsks
  <2>2. /\ DOMAIN queue' = 1..(Len(queue) - 1) /\ DOMAIN queue = 1..Len(queue)
        /\ Len(queue) \in Nat \ {0} /\ 1 \in DOMAIN queue
        /\ \A k \in DOMAIN queue' : k + 1 \in DOMAIN queue /\ queue'[k] = queue[k + 1]
    BY <1>1, <1>2, <2>1
  <2>3. CASE \E f \in Fetches : fetch[f].pc # "idle"
    BY <2>1, <2>3 DEF Awaited
  <2>4. ASSUME NEW i \in DOMAIN queue, queue[i].type = "snapshot",
               \A k \in DOMAIN queue : i < k => ~ClearsAt(queue, k)
        PROVE  Awaited'
    <3>1. CASE i = 1
      <4>1. rec'.lastId # NoId
        BY <1>1, <2>1, <2>4, <3>1
      <4>2. \A k \in DOMAIN queue' : ~ClearsAt(queue', k)
        BY <2>2, <2>4, <3>1 DEF ClearsAt
      <4> QED BY <4>1, <4>2 DEF Awaited
    <3>2. CASE i # 1
      <4>1. i - 1 \in DOMAIN queue' /\ queue'[i - 1] = queue[i]
        BY <2>2, <3>2
      <4>2. \A k \in DOMAIN queue' : i - 1 < k => ~ClearsAt(queue', k)
        <5> SUFFICES ASSUME NEW k \in DOMAIN queue', i - 1 < k
                     PROVE  ~ClearsAt(queue', k)
          OBVIOUS
        <5>1. i < k + 1 /\ k + 1 \in DOMAIN queue /\ queue'[k] = queue[k + 1]
          BY <2>2
        <5> QED BY <2>4, <5>1 DEF ClearsAt
      <4> QED BY <2>4, <4>1, <4>2 DEF Awaited
    <3> QED BY <3>1, <3>2
  <2>5. CASE rec.lastId # NoId /\ \A k \in DOMAIN queue : ~ClearsAt(queue, k)
    <3>1. rec'.lastId # NoId
      BY <1>1, <2>1, <2>2, <2>5
    <3>2. \A k \in DOMAIN queue' : ~ClearsAt(queue', k)
      BY <2>2, <2>5 DEF ClearsAt
    <3> QED BY <3>1, <3>2 DEF Awaited
  <2> QED BY <2>3, <2>4, <2>5 DEF Awaited
<1> QED BY <1>3, <1>4

LEMMA AwaitStep == AwaitInv /\ [Next]_vars => AwaitInv'
<1> SUFFICES ASSUME AwaitInv, [Next]_vars, phase' = "streaming", ~failed'
             PROVE  Awaited'
  BY FeedStep DEF AwaitInv
<1>1. FeedInv /\ fetch \in [Fetches -> FetchStates] /\ Initial \in Fetches
  BY DEF AwaitInv, FeedInv, TypeOK, Fetches
<1>2. CASE EmitConnected
  <2>1. fetch'[Initial] = Requested
    BY <1>1, <1>2 DEF EmitConnected
  <2>2. fetch'[Initial].pc # "idle"
    BY <2>1 DEF Requested
  <2> QED BY <1>1, <2>2 DEF Awaited
<1>3. CASE Connect \/ ConnectFails \/ Disconnect \/ EmitDisconnected
  BY <1>3 DEF Connect, ConnectFails, Disconnect, EmitDisconnected
<1>4. ASSUME NEW f \in Fetches, FetchFails(f) PROVE FALSE
  BY <1>4 DEF FetchFails
\* Every other step is one of an open stream.
<1>5. ASSUME UNCHANGED <<phase, failed>> PROVE Awaited
  BY <1>5 DEF AwaitInv
<1>6. CASE Publish \/ LoseDiff \/ UNCHANGED vars
  <2>1. UNCHANGED <<phase, failed, fetch, queue, rec>>
    BY <1>6 DEF Publish, LoseDiff, vars
  <2> QED BY <1>5, <2>1 DEF Awaited
<1>7. CASE ReceiveDiff
  <2>1. PICK u \in (sent + 1)..published :
          Put([type |-> "diff", first |-> sent + 1, last |-> u])
    BY <1>7 DEF ReceiveDiff
  <2> DEFINE e == [type |-> "diff", first |-> sent + 1, last |-> u]
  <2>2. e \in Events
    <3>1. sent \in Ids /\ published \in Ids
      BY <1>1 DEF FeedInv, TypeOK
    <3>2. u \in Ids /\ sent + 1 \in Ids /\ 1 <= sent + 1 /\ sent + 1 <= u
      BY <3>1, MarketAssumption DEF Ids
    <3> QED BY <3>2 DEF Diffs, Events
  <2>3. e # ConnectionEvent("disconnected")
    <3>1. e.type = "diff" /\ ConnectionEvent("disconnected").type = "connection"
      BY DEF ConnectionEvent
    <3> QED BY <3>1
  <2>4. queue' = Append(queue, e) /\ UNCHANGED <<phase, failed, fetch, rec>>
    BY <1>7, <2>1 DEF ReceiveDiff, Put
  <2> HIDE DEF e
  <2> QED BY <1>1, <1>5, <2>2, <2>3, <2>4, AwaitedPut
<1>8. CASE EmitMalformed
  <2> DEFINE e == ConnectionEvent("malformed_message")
  <2>1. e \in Events /\ e # ConnectionEvent("disconnected")
    BY DEF ConnectionEvent, ConnectionEvents, Events
  <2>2. queue' = Append(queue, e) /\ UNCHANGED <<phase, failed, fetch, rec>>
    BY <1>8 DEF EmitMalformed, Put
  <2> HIDE DEF e
  <2> QED BY <1>1, <1>5, <2>1, <2>2, AwaitedPut
<1>9. ASSUME NEW f \in Fetches, Answer(f) PROVE Awaited'
  <2>1. fetch'[f].pc # "idle"
    BY <1>1, <1>9 DEF Answer
  <2> QED BY <2>1 DEF Awaited
<1>10. ASSUME NEW f \in Fetches, PutSnapshot(f) PROVE Awaited'
  <2> DEFINE e == [type |-> "snapshot", id |-> fetch[f].id]
  <2>1. queue' = Append(queue, e) /\ e.type = "snapshot"
    BY <1>10 DEF PutSnapshot, Put
  <2> HIDE DEF e
  <2> QED BY <1>1, <2>1, AwaitedSnapshot
<1>11. CASE Consume
  <2>1. UNCHANGED <<phase, failed>>
    BY <1>11 DEF Consume, ConsumeDiff, ConsumeSnapshot, ConsumeConnectionEvent, Handled
  <2> QED BY <1>1, <1>5, <1>11, <2>1, AwaitedConsume
<1> QED
  BY <1>2, <1>3, <1>4, <1>6, <1>7, <1>8, <1>9, <1>10, <1>11 DEF Next

\* No interleaving of resyncs, reconnects and lost diffs leaves a book cleared
\* on an open stream without a snapshot on its way.
THEOREM ClearedBooksAwaitASnapshot == Spec => []ClearedBookAwaitsSnapshot
<1>1. Init => AwaitInv
  BY FeedInit DEF AwaitInv, Init
<1>2. AwaitInv => ClearedBookAwaitsSnapshot
  BY DEF AwaitInv, Awaited, ClearedBookAwaitsSnapshot
<1> QED BY <1>1, <1>2, AwaitStep, PTL DEF Spec

==============================================================================
