--------------------------- MODULE CoinbaseFeedProofs ---------------------------
(***************************************************************************)
(* Theorems of CoinbaseFeed, for every market, every queue size and any    *)
(* number of faults.                                                       *)
(***************************************************************************)
EXTENDS CoinbaseFeed, MarketProofs, LeastNumber

------------------------------------------------------------------------------
(* The loop that empties the buffer. *)

\* The equation of the loop: f[k] is the reconciler after k buffered diffs.
IsLoop(r, n, f) ==
  f = [k \in 0..n |-> IF k = 0 THEN r ELSE ApplyDiff(f[k - 1], r.pending[k])]

\* The equation has a solution, so the recursive function satisfies it.
LEMMA LoopExists ==
  ASSUME NEW r, NEW n \in Nat
  PROVE  \E f : IsLoop(r, n, f)
<1> DEFINE S == {m \in Nat : \E f : IsLoop(r, m, f)}
<1>1. 0 \in S
  <2> DEFINE f == [k \in 0..0 |-> r]
  <2>1. IsLoop(r, 0, f)
    BY DEF IsLoop
  <2> QED BY <2>1
<1>2. ASSUME NEW m \in Nat, m \in S PROVE m + 1 \in S
  <2>1. PICK f : IsLoop(r, m, f)
    BY <1>2
  <2> DEFINE g == [k \in 0..(m + 1) |->
                     IF k = 0 THEN r ELSE ApplyDiff(f[k - 1], r.pending[k])]
  <2>2. \A k \in 0..m : g[k] = f[k]
    <3>1. \A k \in 0..m :
            f[k] = IF k = 0 THEN r ELSE ApplyDiff(f[k - 1], r.pending[k])
      BY <2>1 DEF IsLoop
    <3>2. \A k \in 0..m : k \in 0..(m + 1)
      OBVIOUS
    <3> QED BY <3>1, <3>2
  <2>3. IsLoop(r, m + 1, g)
    <3>1. ASSUME NEW k \in 0..(m + 1), k # 0 PROVE f[k - 1] = g[k - 1]
      <4>1. k - 1 \in 0..m
        BY <3>1
      <4> QED BY <4>1, <2>2
    <3>2. g = [k \in 0..(m + 1) |->
                 IF k = 0 THEN r ELSE ApplyDiff(g[k - 1], r.pending[k])]
      BY <3>1, Zenon
    <3> QED BY <3>2, Zenon DEF IsLoop
  <2>4. m + 1 \in Nat
    OBVIOUS
  <2> QED BY <2>3, <2>4
<1>3. n \in S
  <2> HIDE DEF S
  <2> QED BY <1>1, <1>2, SetInduction
<1> QED BY <1>3

\* What the loop makes of a reconciler, in terms of a solution of the equation.
LEMMA ApplyPendingDef ==
  ASSUME NEW r \in Reconcilers
  PROVE  \E f : /\ IsLoop(r, Len(r.pending), f)
                /\ ApplyPending(r) = [f[Len(r.pending)] EXCEPT !.pending = <<>>]
<1> DEFINE f == CHOOSE f : IsLoop(r, Len(r.pending), f)
<1>1. IsLoop(r, Len(r.pending), f)
  <2>1. Len(r.pending) \in Nat
    BY DEF Reconcilers
  <2>2. \E g : IsLoop(r, Len(r.pending), g)
    BY <2>1, LoopExists, Zenon
  <2> QED BY <2>2, Zenon
<1>2. ApplyPending(r) = [f[Len(r.pending)] EXCEPT !.pending = <<>>]
  BY Zenon DEF ApplyPending, IsLoop
<1> QED BY <1>1, <1>2

\* A diff of the exchange leaves a reconciler a reconciler.
LEMMA ApplyDiffReconciler ==
  ASSUME NEW r \in Reconcilers, NEW d \in Diffs
  PROVE  /\ ApplyDiff(r, d) \in Reconcilers
         /\ ApplyDiff(r, d).at = d.last
         /\ ApplyDiff(r, d).synced = r.synced
         /\ ApplyDiff(r, d).pending = r.pending
         /\ ApplyDiff(r, d).book = apply_levels(r.book, DiffLevels(d.first, d.last))
<1>1. d.first \in Ids /\ d.last \in Ids /\ r.book \in Books
  BY DEF Diffs, Reconcilers
<1>2. apply_levels(r.book, DiffLevels(d.first, d.last)) \in Books
  BY <1>1, ApplyDiffType
<1> QED BY <1>1, <1>2 DEF ApplyDiff, Reconcilers

\* Whatever the buffer holds, the loop ends with a reconciler that is as synced
\* as before and has an empty buffer.
LEMMA ApplyPendingType ==
  ASSUME NEW r \in Reconcilers
  PROVE  /\ ApplyPending(r) \in Reconcilers
         /\ ApplyPending(r).synced = r.synced
         /\ ApplyPending(r).pending = <<>>
<1> DEFINE n == Len(r.pending)
           P == {s \in Reconcilers : s.synced = r.synced}
<1>1. PICK f : IsLoop(r, n, f) /\ ApplyPending(r) = [f[n] EXCEPT !.pending = <<>>]
  BY ApplyPendingDef
<1>2. n \in Nat /\ \A k \in 1..n : r.pending[k] \in Diffs
  BY DEF Reconcilers
<1> DEFINE T == {k \in Nat : k <= n => f[k] \in P}
<1>3. 0 \in T
  <2>1. f[0] = r
    BY <1>1, <1>2 DEF IsLoop
  <2> QED BY <2>1
<1>4. ASSUME NEW k \in Nat, k \in T PROVE k + 1 \in T
  <2> SUFFICES ASSUME k + 1 <= n PROVE f[k + 1] \in P
    OBVIOUS
  <2>1. k + 1 \in 0..n /\ k + 1 # 0 /\ (k + 1) - 1 = k /\ k + 1 \in 1..n /\ k <= n
    BY <1>2
  <2>2. f[k + 1] = ApplyDiff(f[(k + 1) - 1], r.pending[k + 1])
    BY <1>1, <2>1, Zenon DEF IsLoop
  <2>3. f[k] \in P
    BY <1>4, <2>1
  <2>4. r.pending[k + 1] \in Diffs
    BY <1>2, <2>1
  <2> QED BY <2>1, <2>2, <2>3, <2>4, ApplyDiffReconciler
<1>5. n \in T
  <2> HIDE DEF T
  <2>1. Nat \subseteq T
    BY <1>3, <1>4, SetInduction
  <2> QED BY <1>2, <2>1
<1>6. f[n] \in Reconcilers /\ f[n].synced = r.synced
  BY <1>2, <1>5
<1>7. <<>> \in Seq(Diffs)
  OBVIOUS
<1> HIDE DEF n
<1> QED BY <1>1, <1>6, <1>7 DEF Reconcilers

\* An empty buffer makes no difference.
LEMMA ApplyPendingEmpty ==
  ASSUME NEW r \in Reconcilers, r.pending = <<>>
  PROVE  ApplyPending(r) = r
<1>1. PICK f : /\ IsLoop(r, Len(r.pending), f)
               /\ ApplyPending(r) = [f[Len(r.pending)] EXCEPT !.pending = <<>>]
  BY ApplyPendingDef
<1>2. Len(r.pending) = 0
  OBVIOUS
<1>3. f[0] = r
  BY <1>1, <1>2 DEF IsLoop
<1> QED BY <1>1, <1>2, <1>3 DEF Reconcilers

------------------------------------------------------------------------------
(* The handlers. *)

\* A handler leaves a reconciler a reconciler, whatever it is given.
LEMMA HandleDiffType ==
  ASSUME NEW r \in Reconcilers, NEW d \in Diffs
  PROVE  handle_diff(r, d) \in Reconcilers
<1>1. CASE r.synced
  BY <1>1, ApplyDiffReconciler DEF handle_diff
<1>2. CASE ~r.synced
  <2>1. Append(r.pending, d) \in Seq(Diffs)
    BY DEF Reconcilers
  <2>2. BoundBuffer(Append(r.pending, d)) \in Seq(Diffs)
    BY <2>1, BoundBufferType
  <2> QED BY <1>2, <2>2 DEF handle_diff, Reconcilers
<1> QED BY <1>1, <1>2

\* The state of a reconciler when handle_snapshot starts to empty the buffer.
LEMMA SnapshotLoaded ==
  ASSUME NEW r \in Reconcilers, NEW n \in Ids
  PROVE  LET s == [r EXCEPT !.book = apply_snapshot(SnapshotLevels(n)),
                            !.synced = TRUE, !.at = n]
         IN  /\ s \in Reconcilers
             /\ s.synced /\ s.at = n /\ s.pending = r.pending /\ Shows(s.book, n)
             /\ handle_snapshot(r, n) = ApplyPending(s)
<1>1. apply_snapshot(SnapshotLevels(n)) \in Books /\ Shows(apply_snapshot(SnapshotLevels(n)), n)
  BY SnapshotShows
<1> DEFINE b == apply_snapshot(SnapshotLevels(n))
           s == [r EXCEPT !.book = b, !.synced = TRUE, !.at = n]
<1>2. handle_snapshot(r, n) = ApplyPending(s)
  BY DEF handle_snapshot
<1> HIDE DEF b
<1>3. b \in Books /\ Shows(b, n)
  BY <1>1 DEF b
<1>4. s \in Reconcilers /\ s.synced /\ s.at = n /\ s.pending = r.pending /\ s.book = b
  BY <1>3 DEF Reconcilers
<1> QED BY <1>2, <1>3, <1>4 DEF b

LEMMA HandleSnapshotType ==
  ASSUME NEW r \in Reconcilers, NEW n \in Ids
  PROVE  /\ handle_snapshot(r, n) \in Reconcilers
         /\ handle_snapshot(r, n).synced
         /\ handle_snapshot(r, n).pending = <<>>
<1> DEFINE s == [r EXCEPT !.book = apply_snapshot(SnapshotLevels(n)),
                          !.synced = TRUE, !.at = n]
<1>1. s \in Reconcilers /\ s.synced /\ handle_snapshot(r, n) = ApplyPending(s)
  BY SnapshotLoaded
<1> HIDE DEF s
<1> QED BY <1>1, ApplyPendingType

\* With nothing buffered, the book after a snapshot is the snapshot's.
LEMMA HandleSnapshotShows ==
  ASSUME NEW r \in Reconcilers, NEW n \in Ids, r.pending = <<>>
  PROVE  handle_snapshot(r, n).at = n /\ Shows(handle_snapshot(r, n).book, n)
<1> DEFINE s == [r EXCEPT !.book = apply_snapshot(SnapshotLevels(n)),
                          !.synced = TRUE, !.at = n]
<1>1. /\ s \in Reconcilers /\ s.at = n /\ s.pending = <<>> /\ Shows(s.book, n)
      /\ handle_snapshot(r, n) = ApplyPending(s)
  BY SnapshotLoaded
<1> HIDE DEF s
<1> QED BY <1>1, ApplyPendingEmpty

LEMMA HandleConnectionEventType ==
  ASSUME NEW r \in Reconcilers, NEW kind
  PROVE  LET s == handle_connection_event(r, kind)
         IN  /\ s \in Reconcilers
             /\ s = r \/ (~s.synced /\ s.pending = <<>>)
             /\ kind = "disconnected" => ~s.synced /\ s.pending = <<>>
<1> DEFINE s == [r EXCEPT !.synced = FALSE, !.book = EmptyBook, !.pending = <<>>]
<1>1. s \in Reconcilers /\ s.synced = FALSE /\ s.pending = <<>>
  <2>1. <<>> \in Seq(Diffs)
    OBVIOUS
  <2> QED BY <2>1, EmptyBookType DEF Reconcilers
<1> QED BY <1>1 DEF handle_connection_event, Clears

------------------------------------------------------------------------------
(* Types, and what goes with each phase of the connection. *)

\* A snapshot is owed from the connect on, and only an open stream owes another
\* one; a malformed_message waits only for a message that was lost.
PhaseInv ==
  /\ malformed > 0 => lost
  /\ phase = "opening" => owed = "first"
  /\ phase \in {"connecting", "closing"} => owed = "none"
  /\ owed = "again" => resynced

TypeInv == TypeOK /\ PhaseInv

LEMMA TypeInit == Init => TypeInv
<1> SUFFICES ASSUME Init PROVE TypeInv
  OBVIOUS
<1>1. 0 \in Ids /\ <<>> \in Seq(Diffs) /\ <<>> \in Seq(Events)
  BY MarketAssumption DEF Ids
<1>2. NewReconciler \in Reconcilers
  BY <1>1, EmptyBookType DEF NewReconciler, Reconcilers
<1>3. TypeOK
  BY <1>1, <1>2 DEF Init, TypeOK
<1> QED BY <1>3 DEF Init, TypeInv, PhaseInv

\* What a connection event adds to the queue.
LEMMA ConnectionEventTypes ==
  /\ ConnectionEvent("connected") \in Events
  /\ ConnectionEvent("disconnected") \in Events
  /\ ConnectionEvent("malformed_message") \in Events
  /\ \A k : ConnectionEvent(k).type = "connection" /\ ConnectionEvent(k).kind = k
  BY DEF ConnectionEvent, ConnectionEvents, Events

\* A message of the exchange is in the queue, or it is lost.
LEMMA PutNowaitType ==
  ASSUME TypeInv, NEW e \in Events, PutNowait(e)
  PROVE  /\ queue' \in Seq(Events) /\ malformed' \in Nat /\ lost' \in BOOLEAN
         /\ malformed' > 0 => lost'
         /\ lost => lost'
         /\ ~lost' => queue' = Append(queue, e)
         /\ queue' = queue \/ queue' = Append(queue, e)
<1>1. /\ queue \in Seq(Events) /\ malformed \in Nat /\ lost \in BOOLEAN
      /\ malformed > 0 => lost
      /\ Append(queue, e) \in Seq(Events)
  BY QueueType DEF TypeInv, TypeOK, PhaseInv
<1>2. CASE Put(e) /\ UNCHANGED <<malformed, lost>>
  BY <1>1, <1>2 DEF Put
<1>3. CASE malformed' = malformed + 1 /\ lost' = TRUE /\ queue' = queue
  BY <1>1, <1>3
<1> QED BY <1>2, <1>3 DEF PutNowait

\* What the exchange sends next: it continues what was sent, and it is in the
\* queue or lost.
LEMMA ReceivedSnapshot ==
  ASSUME TypeInv, ReceiveSnapshot
  PROVE  \E n \in Ids :
           /\ sent <= n /\ n <= published /\ sent' = n
           /\ [type |-> "snapshot", id |-> n] \in Events
           /\ PutNowait([type |-> "snapshot", id |-> n])
<1>1. PICK n \in sent..published :
        PutNowait([type |-> "snapshot", id |-> n]) /\ sent' = n
  BY DEF ReceiveSnapshot
<1>2. sent \in Ids /\ published \in Ids
  BY DEF TypeInv, TypeOK
<1>3. n \in Ids /\ sent <= n /\ n <= published
  BY <1>2, MarketAssumption DEF Ids
<1>4. [type |-> "snapshot", id |-> n] \in Events
  BY <1>3 DEF Snapshots, Events
<1> QED BY <1>1, <1>3, <1>4

LEMMA ReceivedDiff ==
  ASSUME TypeInv, ReceiveDiff
  PROVE  \E u \in Ids :
           /\ sent < u /\ u <= published /\ sent' = u
           /\ [type |-> "diff", first |-> sent + 1, last |-> u] \in Events
           /\ PutNowait([type |-> "diff", first |-> sent + 1, last |-> u])
<1>1. PICK u \in (sent + 1)..published :
        PutNowait([type |-> "diff", first |-> sent + 1, last |-> u]) /\ sent' = u
  BY DEF ReceiveDiff
<1>2. sent \in Ids /\ published \in Ids
  BY DEF TypeInv, TypeOK
<1>3. u \in Ids /\ sent < u /\ u <= published /\ sent + 1 \in Ids /\ 1 <= sent + 1
      /\ sent + 1 <= u
  BY <1>2, MarketAssumption DEF Ids
<1>4. [type |-> "diff", first |-> sent + 1, last |-> u] \in Events
  BY <1>3 DEF Diffs, Events
<1> QED BY <1>1, <1>3, <1>4

\* The end of a handler, whatever the handler.
LEMMA HandledType ==
  ASSUME TypeInv, NEW r \in Reconcilers, queue # <<>>, Handled(r)
  PROVE  TypeInv'
<1>1. queue' \in Seq(Events)
  BY QueueType DEF Handled, TypeInv, TypeOK
<1>2. served' \in Ids
  BY DEF Handled, TypeInv, TypeOK, Reconcilers
<1>3. rec' \in Reconcilers
  BY DEF Handled
<1> QED BY <1>1, <1>2, <1>3 DEF Handled, TypeInv, TypeOK, PhaseInv

\* The result of each consumption is a reconciler.
LEMMA ConsumedType ==
  ASSUME TypeInv, Consume
  PROVE  /\ queue # <<>> /\ rec \in Reconcilers
         /\ \/ /\ Head(queue) \in Diffs /\ Head(queue).type = "diff"
               /\ handle_diff(rec, Head(queue)) \in Reconcilers
               /\ Handled(handle_diff(rec, Head(queue)))
            \/ /\ Head(queue).type = "snapshot" /\ Head(queue).id \in Ids
               /\ handle_snapshot(rec, Head(queue).id) \in Reconcilers
               /\ Handled(handle_snapshot(rec, Head(queue).id))
            \/ /\ Head(queue).type = "connection"
               /\ handle_connection_event(rec, Head(queue).kind) \in Reconcilers
               /\ Handled(handle_connection_event(rec, Head(queue).kind))
<1>1. queue # <<>> /\ rec \in Reconcilers /\ Head(queue) \in Events
  BY QueueType DEF Consume, ConsumeDiff, ConsumeSnapshot, ConsumeConnectionEvent,
                   TypeInv, TypeOK
<1>2. CASE ConsumeDiff
  <2>1. Head(queue) \in Diffs /\ Head(queue).type = "diff"
    BY <1>1, <1>2, EventTypes DEF ConsumeDiff
  <2> QED BY <1>1, <1>2, <2>1, HandleDiffType DEF ConsumeDiff
<1>3. CASE ConsumeSnapshot
  <2>1. Head(queue).id \in Ids /\ Head(queue).type = "snapshot"
    BY <1>1, <1>3, EventTypes DEF ConsumeSnapshot
  <2> QED BY <1>1, <1>3, <2>1, HandleSnapshotType DEF ConsumeSnapshot
<1>4. CASE ConsumeConnectionEvent
  BY <1>1, <1>4, HandleConnectionEventType DEF ConsumeConnectionEvent
<1> QED BY <1>1, <1>2, <1>3, <1>4 DEF Consume

LEMMA TypeStep == TypeInv /\ [Next]_vars => TypeInv'
<1> SUFFICES ASSUME TypeInv, [Next]_vars PROVE TypeInv'
  OBVIOUS
<1> USE DEF TypeInv, PhaseInv
<1>1. queue \in Seq(Events) /\ \A e \in Events : Append(queue, e) \in Seq(Events)
  BY QueueType DEF TypeOK
<1>2. CASE Publish
  BY <1>2, MarketAssumption DEF Publish, TypeOK, Ids
<1>3. CASE Connect
  BY <1>3 DEF Connect, TypeOK
<1>4. CASE ConnectFails
  BY <1>4 DEF ConnectFails, TypeOK
<1>5. CASE EmitConnected
  BY <1>1, <1>5, ConnectionEventTypes DEF EmitConnected, Put, TypeOK
<1>6. CASE trigger_resync
  BY <1>6 DEF trigger_resync, TypeOK
<1>7. CASE Disconnect
  BY <1>7 DEF Disconnect, TypeOK
<1>8. CASE EmitDisconnected
  BY <1>1, <1>8, ConnectionEventTypes DEF EmitDisconnected, Put, TypeOK
<1>9. CASE ReceiveSnapshot
  <2>1. PICK n \in Ids : /\ sent' = n /\ [type |-> "snapshot", id |-> n] \in Events
                         /\ PutNowait([type |-> "snapshot", id |-> n])
    BY <1>9, ReceivedSnapshot
  <2>2. /\ queue' \in Seq(Events) /\ malformed' \in Nat /\ lost' \in BOOLEAN
        /\ malformed' > 0 => lost'
    BY <2>1, PutNowaitType
  <2> QED BY <1>9, <2>1, <2>2 DEF ReceiveSnapshot, TypeOK
<1>10. CASE ReceiveDiff
  <2>1. PICK u \in Ids :
          /\ sent' = u /\ [type |-> "diff", first |-> sent + 1, last |-> u] \in Events
          /\ PutNowait([type |-> "diff", first |-> sent + 1, last |-> u])
    BY <1>10, ReceivedDiff
  <2>2. /\ queue' \in Seq(Events) /\ malformed' \in Nat /\ lost' \in BOOLEAN
        /\ malformed' > 0 => lost'
    BY <2>1, PutNowaitType
  <2> QED BY <1>10, <2>1, <2>2 DEF ReceiveDiff, TypeOK
<1>11. CASE EmitMalformed
  BY <1>1, <1>11, ConnectionEventTypes DEF EmitMalformed, Put, TypeOK
<1>12. CASE Consume
  BY <1>12, ConsumedType, HandledType
<1>13. CASE UNCHANGED vars
  BY <1>13 DEF vars, TypeOK
<1> QED
  BY <1>2, <1>3, <1>4, <1>5, <1>6, <1>7, <1>8, <1>9, <1>10, <1>11, <1>12, <1>13
     DEF Next

\* Every variable of the feed keeps its type, whatever is lost.
THEOREM TypeCorrect == Spec => []TypeOK
<1>1. TypeInv => TypeOK
  BY DEF TypeInv
<1> QED BY <1>1, TypeInit, TypeStep, PTL DEF Spec

------------------------------------------------------------------------------
(* The order of the stream. *)

\* The update a message of the exchange goes up to.
IsData(e) == e.type \in {"diff", "snapshot"}
Covered(e) == IF e.type = "diff" THEN e.last ELSE e.id

\* The first i events of the queue q leave a synced reader r at update n.
UpTo(q, r, i, n) ==
  IF i = 0 THEN r.synced /\ r.at = n ELSE IsData(q[i]) /\ Covered(q[i]) = n

\* As long as nothing is lost, each diff starts where the message before it
\* ended, so that nothing is ever buffered, and the stream goes on where the
\* queue ends.
Contiguous ==
  /\ rec.pending = <<>>
  /\ rec.synced => rec.at = served /\ Shows(rec.book, rec.at)
  /\ \A i \in DOMAIN queue :
       queue[i].type = "diff" => UpTo(queue, rec, i - 1, queue[i].first - 1)
  /\ phase = "streaming" /\ owed # "first" => UpTo(queue, rec, Len(queue), sent)

\* Messages go forward, over reconnects too.
Ordered ==
  /\ served <= sent /\ sent <= published
  /\ \A i \in DOMAIN queue :
       IsData(queue[i]) => served <= Covered(queue[i]) /\ Covered(queue[i]) <= sent
  /\ \A i, j \in DOMAIN queue :
       i < j /\ IsData(queue[i]) /\ IsData(queue[j]) =>
         Covered(queue[i]) <= Covered(queue[j])

StreamInv == ~lost => Contiguous /\ Ordered

OrderedInv == TypeInv /\ StreamInv

LEMMA CoveredType ==
  ASSUME NEW e \in Events, IsData(e)
  PROVE  Covered(e) \in Int /\ (e.type = "diff" => e \in Diffs /\ e.first \in Int)
  BY EventTypes DEF IsData, Covered, Diffs, Ids

LEMMA StreamInit == Init => OrderedInv
<1> SUFFICES ASSUME Init PROVE Contiguous /\ Ordered
  BY TypeInit DEF OrderedInv, StreamInv
<1>1. DOMAIN queue = {} /\ rec.pending = <<>> /\ ~rec.synced
  BY DEF Init, NewReconciler
<1> QED BY <1>1 DEF Init, Contiguous, Ordered

\* Only the exchange and the connection move: what is in the queue stays in
\* order, and what comes next still continues it.
LEMMA IdleStream ==
  ASSUME OrderedInv, ~lost, UNCHANGED <<queue, rec, served>>,
         sent' \in Ids, published' \in Ids, sent <= sent', sent' <= published',
         phase' = "streaming" /\ owed' # "first" =>
           phase = "streaming" /\ owed # "first" /\ sent' = sent
  PROVE  (Contiguous /\ Ordered)'
<1>1. /\ sent \in Int /\ served \in Int /\ sent' \in Int /\ published' \in Int
      /\ Contiguous /\ Ordered /\ queue \in Seq(Events)
  BY DEF OrderedInv, StreamInv, TypeInv, TypeOK, Ids
<1>2. \A i, n : UpTo(queue', rec', i, n) <=> UpTo(queue, rec, i, n)
  BY DEF UpTo
<1>3. Contiguous'
  BY <1>1, <1>2 DEF Contiguous
<1>4. \A i \in DOMAIN queue : IsData(queue[i]) => Covered(queue[i]) <= sent'
  <2> SUFFICES ASSUME NEW i \in DOMAIN queue, IsData(queue[i])
               PROVE  Covered(queue[i]) <= sent'
    OBVIOUS
  <2>1. queue[i] \in Events
    BY <1>1
  <2> QED BY <1>1, <2>1, CoveredType DEF Ordered
<1>5. Ordered'
  BY <1>1, <1>4 DEF Ordered
<1> QED BY <1>3, <1>5

\* An event joins the queue: a message of the exchange goes up to sent', and a
\* diff starts where the stream stands.
LEMMA PutStream ==
  ASSUME OrderedInv, ~lost, NEW e \in Events, queue' = Append(queue, e),
         UNCHANGED <<rec, served, published>>, sent' \in Ids,
         sent <= sent', sent' <= published,
         IsData(e) => Covered(e) = sent',
         e.type = "diff" => UpTo(queue, rec, Len(queue), e.first - 1),
         phase' = "streaming" /\ owed' # "first" => IsData(e)
  PROVE  (Contiguous /\ Ordered)'
<1>1. /\ queue \in Seq(Events) /\ sent \in Int /\ served \in Int /\ sent' \in Int
      /\ published \in Int /\ Contiguous /\ Ordered
  BY DEF OrderedInv, StreamInv, TypeInv, TypeOK, Ids
<1>2. /\ DOMAIN queue' = 1..(Len(queue) + 1) /\ DOMAIN queue = 1..Len(queue)
      /\ Len(queue) \in Nat /\ Len(queue') = Len(queue) + 1
      /\ \A i \in DOMAIN queue : queue'[i] = queue[i] /\ i \in DOMAIN queue'
      /\ queue'[Len(queue) + 1] = e
  BY <1>1
<1>3. ASSUME NEW i \in 0..Len(queue), NEW n
      PROVE  UpTo(queue', rec', i, n) <=> UpTo(queue, rec, i, n)
  BY <1>2, <1>3 DEF UpTo
<1>4. ASSUME NEW i \in DOMAIN queue', queue'[i].type = "diff"
      PROVE  UpTo(queue', rec', i - 1, queue'[i].first - 1)
  <2>1. i - 1 \in 0..Len(queue)
    BY <1>2
  <2>2. CASE i \in DOMAIN queue
    BY <1>1, <1>2, <1>3, <1>4, <2>1, <2>2 DEF Contiguous
  <2>3. CASE i = Len(queue) + 1
    <3>1. i - 1 = Len(queue) /\ queue'[i] = e
      BY <1>2, <2>3
    <3> QED BY <1>3, <1>4, <2>1, <3>1
  <2> QED BY <1>2, <2>2, <2>3
<1>5. phase' = "streaming" /\ owed' # "first" => UpTo(queue', rec', Len(queue'), sent')
  BY <1>2 DEF UpTo
<1>6. Contiguous'
  BY <1>1, <1>4, <1>5 DEF Contiguous
<1>7. ASSUME NEW i \in DOMAIN queue', IsData(queue'[i])
      PROVE  /\ Covered(queue'[i]) \in Int
             /\ served <= Covered(queue'[i]) /\ Covered(queue'[i]) <= sent'
             /\ i \in DOMAIN queue => Covered(queue'[i]) <= sent
  <2>1. queue'[i] \in Events
    BY <1>1, <1>2
  <2>2. Covered(queue'[i]) \in Int
    BY <1>7, <2>1, CoveredType
  <2>3. CASE i \in DOMAIN queue
    BY <1>1, <1>2, <1>7, <2>2, <2>3 DEF Ordered
  <2>4. CASE i = Len(queue) + 1
    <3>1. Covered(queue'[i]) = sent' /\ served <= sent' /\ i \notin DOMAIN queue
      BY <1>1, <1>2, <1>7, <2>4 DEF Ordered
    <3> QED BY <1>1, <3>1
  <2> QED BY <1>2, <2>3, <2>4
<1>8. ASSUME NEW i \in DOMAIN queue', NEW j \in DOMAIN queue', i < j,
             IsData(queue'[i]), IsData(queue'[j])
      PROVE  Covered(queue'[i]) <= Covered(queue'[j])
  <2>1. i \in DOMAIN queue /\ queue'[i] = queue[i]
    BY <1>2, <1>8
  <2>2. CASE j \in DOMAIN queue
    BY <1>1, <1>2, <1>8, <2>1, <2>2 DEF Ordered
  <2>3. CASE j = Len(queue) + 1
    <3>1. Covered(queue'[j]) = sent'
      BY <1>2, <1>8, <2>3
    <3> QED BY <1>7, <1>8, <3>1
  <2> QED BY <1>2, <2>2, <2>3
<1>9. served' <= sent' /\ sent' <= published'
  BY <1>1 DEF Ordered
<1>10. Ordered'
  BY <1>1, <1>7, <1>8, <1>9 DEF Ordered
<1> QED BY <1>6, <1>10

\* What a handler may make of the reconciler while nothing is lost: a message
\* of the exchange takes it to the update the message goes up to, any other
\* event leaves it alone or clears it.
Result(r) ==
  /\ r \in Reconcilers
  /\ r.pending = <<>>
  /\ IsData(Head(queue)) => r.synced /\ r.at = Covered(Head(queue))
  /\ ~IsData(Head(queue)) => r = rec \/ ~r.synced
  /\ r.synced => Shows(r.book, r.at)

LEMMA ConsumeResult ==
  ASSUME OrderedInv, ~lost, Consume
  PROVE  queue # <<>> /\ \E r : Result(r) /\ Handled(r)
<1>1. /\ queue # <<>> /\ queue \in Seq(Events) /\ rec \in Reconcilers /\ Contiguous
      /\ 1 \in DOMAIN queue /\ Head(queue) = queue[1]
  BY ConsumedType DEF OrderedInv, StreamInv, TypeInv, TypeOK
<1>2. ASSUME Head(queue) \in Diffs, Head(queue).type = "diff",
             Handled(handle_diff(rec, Head(queue)))
      PROVE  \E r : Result(r) /\ Handled(r)
  <2> DEFINE d == Head(queue)
             r == handle_diff(rec, d)
  <2>1. rec.synced /\ rec.at = d.first - 1
    BY <1>1, <1>2 DEF Contiguous, UpTo
  <2>2. /\ d.first \in Ids /\ d.last \in Ids /\ d.first >= 1 /\ d.first <= d.last
        /\ rec.at \in Ids /\ rec.book \in Books /\ Shows(rec.book, rec.at)
    BY <1>1, <1>2, <2>1 DEF Contiguous, Diffs, Reconcilers
  <2>3. d.first - 1 <= rec.at /\ rec.at <= d.last
    BY <2>1, <2>2 DEF Ids
  <2>4. Shows(apply_levels(rec.book, DiffLevels(d.first, d.last)), d.last)
    BY <2>2, <2>3, ApplyDiffShows
  <2>5. r = ApplyDiff(rec, d)
    BY <2>1 DEF handle_diff
  <2>6. IsData(d) /\ Covered(d) = d.last
    BY <1>2 DEF IsData, Covered
  <2>7. /\ r \in Reconcilers /\ r.at = d.last /\ r.synced /\ r.pending = <<>>
        /\ Shows(r.book, r.at)
    BY <1>1, <1>2, <2>1, <2>4, <2>5, ApplyDiffReconciler DEF Contiguous
  <2>8. Result(r)
    BY <2>6, <2>7 DEF Result
  <2> QED BY <1>2, <2>8
<1>3. ASSUME Head(queue).type = "snapshot", Head(queue).id \in Ids,
             Handled(handle_snapshot(rec, Head(queue).id))
      PROVE  \E r : Result(r) /\ Handled(r)
  <2> DEFINE n == Head(queue).id
             r == handle_snapshot(rec, n)
  <2>1. IsData(Head(queue)) /\ Covered(Head(queue)) = n
    BY <1>3 DEF IsData, Covered
  <2>2. /\ r \in Reconcilers /\ r.synced /\ r.pending = <<>> /\ r.at = n
        /\ Shows(r.book, n)
    BY <1>1, <1>3, HandleSnapshotType, HandleSnapshotShows DEF Contiguous
  <2>3. Result(r)
    BY <2>1, <2>2 DEF Result
  <2> QED BY <1>3, <2>3
<1>4. ASSUME Head(queue).type = "connection",
             Handled(handle_connection_event(rec, Head(queue).kind))
      PROVE  \E r : Result(r) /\ Handled(r)
  <2> DEFINE r == handle_connection_event(rec, Head(queue).kind)
  <2>1. ~IsData(Head(queue))
    BY <1>4 DEF IsData
  <2>2. r \in Reconcilers /\ (r = rec \/ (~r.synced /\ r.pending = <<>>))
    BY <1>1, HandleConnectionEventType
  <2>3. Result(r)
    BY <1>1, <2>1, <2>2 DEF Result, Contiguous
  <2> QED BY <1>4, <2>3
<1> QED BY <1>1, <1>2, <1>3, <1>4, ConsumedType DEF OrderedInv

\* After a handler the stream is in order again, and a reader has moved
\* forward or not at all.
LEMMA HandledStream ==
  ASSUME OrderedInv, ~lost, queue # <<>>, NEW r, Result(r), Handled(r)
  PROVE  /\ (Contiguous /\ Ordered)'
         /\ r.synced => served <= r.at
<1>1. /\ queue \in Seq(Events) /\ sent \in Int /\ served \in Int /\ r.at \in Int
      /\ Contiguous /\ Ordered
      /\ 1 \in DOMAIN queue /\ Head(queue) = queue[1]
      /\ r \in Reconcilers
  BY DEF OrderedInv, StreamInv, TypeInv, TypeOK, Ids, Result, Reconcilers
<1>2. /\ queue' = Tail(queue) /\ DOMAIN queue = 1..Len(queue) /\ Len(queue) \in Nat
      /\ Len(queue) >= 1 /\ Len(queue') = Len(queue) - 1
      /\ DOMAIN queue' = 1..(Len(queue) - 1)
      /\ \A i \in DOMAIN queue' : i + 1 \in DOMAIN queue /\ queue'[i] = queue[i + 1]
  BY <1>1 DEF Handled
<1>3. /\ rec' = r /\ served' = (IF r.synced THEN r.at ELSE served)
      /\ UNCHANGED <<published, phase, owed, sent>>
  BY DEF Handled
<1>4. r.synced => /\ r.at = served \/ (IsData(queue[1]) /\ r.at = Covered(queue[1]))
                  /\ served <= r.at /\ r.at <= sent
  BY <1>1 DEF Result, Contiguous, Ordered
<1>5. ASSUME NEW i \in 1..Len(queue), NEW n, UpTo(queue, rec, i, n)
      PROVE  UpTo(queue', rec', i - 1, n)
  <2>1. CASE i = 1
    BY <1>1, <1>3, <1>5, <2>1 DEF UpTo, Result
  <2>2. CASE i # 1
    <3>1. i - 1 \in DOMAIN queue' /\ (i - 1) + 1 = i /\ i - 1 # 0 /\ i # 0
      BY <1>2, <2>2
    <3>2. queue'[i - 1] = queue[i]
      BY <1>2, <3>1
    <3> QED BY <1>5, <3>1, <3>2 DEF UpTo
  <2> QED BY <2>1, <2>2
<1>6. ASSUME NEW i \in DOMAIN queue', queue'[i].type = "diff"
      PROVE  UpTo(queue', rec', i - 1, queue'[i].first - 1)
  <2>1. i + 1 \in DOMAIN queue /\ queue'[i] = queue[i + 1] /\ i \in 1..Len(queue)
        /\ (i + 1) - 1 = i
    BY <1>2
  <2>2. UpTo(queue, rec, i, queue'[i].first - 1)
    BY <1>1, <1>6, <2>1 DEF Contiguous
  <2> QED BY <1>5, <2>1, <2>2
<1>7. phase = "streaming" /\ owed # "first" => UpTo(queue', rec', Len(queue'), sent)
  <2>1. Len(queue) \in 1..Len(queue) /\ Len(queue') = Len(queue) - 1
    BY <1>2
  <2> QED BY <1>1, <1>5, <2>1 DEF Contiguous
<1>8. Contiguous'
  <2>1. rec'.pending = <<>> /\ (rec'.synced => rec'.at = served' /\ Shows(rec'.book, rec'.at))
    BY <1>3 DEF Result
  <2> QED BY <1>3, <1>6, <1>7, <2>1 DEF Contiguous
<1>9. ASSUME NEW i \in DOMAIN queue', IsData(queue'[i])
      PROVE  /\ served' <= Covered(queue'[i]) /\ Covered(queue'[i]) <= sent
             /\ \A j \in DOMAIN queue' : i < j /\ IsData(queue'[j]) =>
                  Covered(queue'[i]) <= Covered(queue'[j])
  <2>1. /\ i + 1 \in DOMAIN queue /\ queue'[i] = queue[i + 1] /\ 1 < i + 1
        /\ queue[i + 1] \in Events
    BY <1>1, <1>2
  <2>2. Covered(queue'[i]) \in Int
    BY <1>9, <2>1, CoveredType
  <2>3. served <= Covered(queue'[i]) /\ Covered(queue'[i]) <= sent
    BY <1>1, <1>9, <2>1 DEF Ordered
  <2>4. IsData(queue[1]) => Covered(queue[1]) <= Covered(queue'[i])
    BY <1>1, <1>9, <2>1 DEF Ordered
  <2>5. served' <= Covered(queue'[i])
    BY <1>3, <1>4, <2>3, <2>4
  <2>6. ASSUME NEW j \in DOMAIN queue', i < j, IsData(queue'[j])
        PROVE  Covered(queue'[i]) <= Covered(queue'[j])
    <3>1. j + 1 \in DOMAIN queue /\ queue'[j] = queue[j + 1] /\ i + 1 < j + 1
      BY <1>2, <2>6
    <3> QED BY <1>1, <1>9, <2>1, <2>6, <3>1 DEF Ordered
  <2> QED BY <2>3, <2>5, <2>6
<1>10. served' <= sent /\ sent <= published
  BY <1>1, <1>3, <1>4 DEF Ordered
<1>11. Ordered'
  BY <1>3, <1>9, <1>10 DEF Ordered
<1> QED BY <1>4, <1>8, <1>11

\* Order is kept by every step that loses nothing; a loss is never forgotten.
LEMMA StreamStep == OrderedInv /\ [Next]_vars => OrderedInv'
<1> SUFFICES ASSUME OrderedInv, [Next]_vars, ~lost' PROVE (Contiguous /\ Ordered)'
  BY TypeStep DEF OrderedInv, StreamInv
<1>1. /\ TypeInv /\ sent \in Ids /\ published \in Ids /\ served \in Ids
      /\ lost \in BOOLEAN /\ queue \in Seq(Events)
  BY DEF OrderedInv, TypeInv, TypeOK
<1>2. ~lost
  <2>1. CASE ReceiveSnapshot
    BY <1>1, <2>1, ReceivedSnapshot, PutNowaitType
  <2>2. CASE ReceiveDiff
    BY <1>1, <2>2, ReceivedDiff, PutNowaitType
  <2>3. CASE UNCHANGED vars
    BY <2>3 DEF vars
  <2> QED
    BY <2>1, <2>2, <2>3
       DEF Next, Publish, Connect, ConnectFails, EmitConnected, trigger_resync,
           Disconnect, EmitDisconnected, EmitMalformed, Consume, ConsumeDiff,
           ConsumeSnapshot, ConsumeConnectionEvent, Handled
<1>3. Contiguous /\ Ordered /\ sent <= published /\ malformed = 0
  BY <1>1, <1>2 DEF OrderedInv, StreamInv, Ordered, TypeInv, TypeOK, PhaseInv
<1>4. \A i \in Ids : i \in Int /\ i <= i
  BY DEF Ids
<1>5. CASE Publish
  <2>1. published' \in Ids /\ sent' = sent /\ sent <= published'
    BY <1>1, <1>3, <1>5, MarketAssumption DEF Publish, Ids
  <2> QED BY <1>1, <1>2, <1>4, <1>5, <2>1, IdleStream DEF Publish
<1>6. CASE Connect
  BY <1>1, <1>2, <1>3, <1>4, <1>6, IdleStream DEF Connect
<1>7. CASE ConnectFails \/ Disconnect
  BY <1>1, <1>2, <1>3, <1>4, <1>7, IdleStream DEF ConnectFails, Disconnect
<1>8. CASE trigger_resync
  <2>1. phase = "streaming"
    BY <1>1, <1>8 DEF trigger_resync, TypeInv, PhaseInv
  <2> QED BY <1>1, <1>2, <1>3, <1>4, <1>8, <2>1, IdleStream DEF trigger_resync
<1>9. CASE EmitConnected
  <2> DEFINE e == ConnectionEvent("connected")
  <2>1. e \in Events /\ ~IsData(e) /\ e.type # "diff"
    BY ConnectionEventTypes DEF IsData
  <2>2. owed' = "first"
    BY <1>1, <1>9 DEF EmitConnected, TypeInv, PhaseInv
  <2>3. queue' = Append(queue, e) /\ UNCHANGED <<rec, served, published, sent>>
    BY <1>9 DEF EmitConnected, Put
  <2> HIDE DEF e
  <2> QED BY <1>1, <1>2, <1>3, <1>4, <2>1, <2>2, <2>3, PutStream
<1>10. CASE EmitDisconnected
  <2> DEFINE e == ConnectionEvent("disconnected")
  <2>1. e \in Events /\ ~IsData(e) /\ e.type # "diff"
    BY ConnectionEventTypes DEF IsData
  <2>2. /\ queue' = Append(queue, e) /\ UNCHANGED <<rec, served, published, sent>>
        /\ phase' = "connecting"
    BY <1>10 DEF EmitDisconnected, Put
  <2> HIDE DEF e
  <2> QED BY <1>1, <1>2, <1>3, <1>4, <2>1, <2>2, PutStream
<1>11. CASE ReceiveSnapshot
  <2>1. PICK n \in Ids : /\ sent <= n /\ n <= published /\ sent' = n
                         /\ [type |-> "snapshot", id |-> n] \in Events
                         /\ PutNowait([type |-> "snapshot", id |-> n])
    BY <1>1, <1>11, ReceivedSnapshot
  <2> DEFINE e == [type |-> "snapshot", id |-> n]
  <2>2. queue' = Append(queue, e)
    BY <1>1, <2>1, PutNowaitType
  <2>3. IsData(e) /\ Covered(e) = n /\ e.type # "diff"
    BY DEF IsData, Covered
  <2>4. UNCHANGED <<rec, served, published>>
    BY <1>11 DEF ReceiveSnapshot
  <2> HIDE DEF e
  <2> QED BY <1>1, <1>2, <2>1, <2>2, <2>3, <2>4, PutStream DEF e
<1>12. CASE ReceiveDiff
  <2>1. PICK u \in Ids :
          /\ sent < u /\ u <= published /\ sent' = u
          /\ [type |-> "diff", first |-> sent + 1, last |-> u] \in Events
          /\ PutNowait([type |-> "diff", first |-> sent + 1, last |-> u])
    BY <1>1, <1>12, ReceivedDiff
  <2> DEFINE e == [type |-> "diff", first |-> sent + 1, last |-> u]
  <2>2. queue' = Append(queue, e) /\ e \in Events
    BY <1>1, <2>1, PutNowaitType
  <2>3. IsData(e) /\ Covered(e) = u /\ e.first - 1 = sent
    BY <1>1, <1>4 DEF IsData, Covered
  <2>4. UNCHANGED <<rec, served, published>> /\ phase = "streaming" /\ owed # "first"
    BY <1>12 DEF ReceiveDiff
  <2>5. UpTo(queue, rec, Len(queue), e.first - 1)
    BY <1>3, <2>3, <2>4 DEF Contiguous
  <2>6. sent <= sent' /\ sent' <= published
    BY <1>1, <1>4, <2>1
  <2> HIDE DEF e
  <2> QED BY <1>2, <2>1, <2>2, <2>3, <2>4, <2>5, <2>6, PutStream
<1>13. CASE EmitMalformed
  BY <1>3, <1>13 DEF EmitMalformed
<1>14. CASE Consume
  BY <1>2, <1>14, ConsumeResult, HandledStream
<1>15. CASE UNCHANGED vars
  BY <1>1, <1>2, <1>3, <1>4, <1>15, IdleStream DEF vars
<1> QED
  BY <1>5, <1>6, <1>7, <1>8, <1>9, <1>10, <1>11, <1>12, <1>13, <1>14, <1>15
     DEF Next

\* As long as no message is lost, the book served is the exchange's book after
\* the last message applied, whatever connections and resyncs came before.
THEOREM SyncedBookCorrect == Spec => []SyncedBookIsExact
<1>1. OrderedInv => SyncedBookIsExact
  BY DEF OrderedInv, StreamInv, Contiguous, SyncedBookIsExact
<1> QED BY <1>1, StreamInit, StreamStep, PTL DEF Spec

------------------------------------------------------------------------------
(* The feed implements LiveBook. *)

\* Without a depth limit there is one book that shows an update.
LEMMA ShownBookIsUnique ==
  ASSUME FullDepth, NEW n \in Ids, NEW b \in Books, NEW c \in Books,
         Shows(b, n), Shows(c, n)
  PROVE  b = c
<1>1. DOMAIN b = DOMAIN c /\ \A l \in DOMAIN b : b[l] = c[l]
  BY DEF Shows
<1>2. b = [l \in DOMAIN b |-> b[l]] /\ c = [l \in DOMAIN c |-> c[l]]
  BY DEF Books
<1> QED BY <1>1, <1>2, Zenon

\* A step of the feed, seen by a reader, is a step of LiveBook or nothing.
LEMMA StepRefines ==
  FullDepth /\ OrderedInv /\ [Next]_vars => [Live!Next]_(Live!vars)
<1> SUFFICES ASSUME FullDepth, OrderedInv, [Next]_vars
             PROVE  [Live!Next]_(Live!vars)
  OBVIOUS
<1>1. /\ TypeInv /\ lost \in BOOLEAN /\ rec \in Reconcilers /\ served \in Ids
      /\ rec.synced \in BOOLEAN
  BY DEF OrderedInv, TypeInv, TypeOK, Reconcilers
<1> USE DEF Promised, is_synced, get_book
<1>2. CASE Consume /\ ~lost
  <2>1. PICK r : Result(r) /\ Handled(r)
    BY <1>2, ConsumeResult
  <2>2. /\ r \in Reconcilers /\ r.at \in Ids /\ r.synced \in BOOLEAN
        /\ r.book \in Books /\ rec.book \in Books
        /\ r.synced => Shows(r.book, r.at) /\ served <= r.at
        /\ rec.synced => rec.at = served /\ Shows(rec.book, rec.at)
    BY <1>1, <1>2, <2>1, ConsumedType, HandledStream
       DEF Result, Reconcilers, OrderedInv, StreamInv, Contiguous
  <2>3. rec' = r /\ served' = (IF r.synced THEN r.at ELSE served) /\ ~lost'
    BY <1>2, <2>1 DEF Handled
  <2>4. r.synced => r.at \in Live!Ids /\ Live!Shows(r.book, r.at)
    BY <2>2 DEF Live!Shows, Shows, Live!FullDepth, FullDepth, Live!Ids, Ids
  <2>5. CASE ~rec.synced /\ ~r.synced
    BY <2>3, <2>5 DEF Live!vars
  <2>6. CASE ~rec.synced /\ r.synced
    <3>1. r.at >= served
      BY <1>1, <2>2, <2>6 DEF Ids
    <3>2. Live!Attach
      BY <1>2, <2>3, <2>4, <2>6, <3>1 DEF Live!Attach
    <3> QED BY <3>2 DEF Live!Next
  <2>7. CASE rec.synced /\ ~r.synced
    <3>1. Live!Withdraw
      BY <1>2, <2>3, <2>7 DEF Live!Withdraw, EmptyBook, Live!EmptyBook
    <3> QED BY <3>1 DEF Live!Next
  <2>8. CASE rec.synced /\ r.synced /\ r.at = served
    <3>1. r.book = rec.book
      BY <2>2, <2>8, ShownBookIsUnique
    <3> QED BY <1>2, <2>3, <2>8, <3>1 DEF Live!vars
  <2>9. CASE rec.synced /\ r.synced /\ r.at # served
    <3>1. r.at > served
      BY <1>1, <2>2, <2>9 DEF Ids
    <3>2. Live!Advance
      BY <1>2, <2>3, <2>4, <2>9, <3>1 DEF Live!Advance
    <3> QED BY <3>2 DEF Live!Next
  <2> QED BY <2>5, <2>6, <2>7, <2>8, <2>9
<1>3. CASE Consume /\ lost
  \* Nothing is promised any more.
  <2>1. served' = served /\ lost' = lost
    BY <1>3 DEF Consume, ConsumeDiff, ConsumeSnapshot, ConsumeConnectionEvent, Handled
  <2> QED BY <1>3, <2>1 DEF Live!vars
<1>4. CASE UNCHANGED <<rec, served, lost>>
  BY <1>4 DEF Live!vars
<1>5. CASE ReceiveSnapshot \/ ReceiveDiff
  <2>1. UNCHANGED <<rec, served>>
    BY <1>5 DEF ReceiveSnapshot, ReceiveDiff
  <2>2. lost' \in BOOLEAN /\ (lost => lost')
    BY <1>1, <1>5, ReceivedSnapshot, ReceivedDiff, PutNowaitType
  <2>3. CASE lost' = lost
    BY <1>4, <2>1, <2>3
  <2>4. CASE ~lost /\ lost' /\ ~rec.synced
    BY <2>1, <2>4 DEF Live!vars
  <2>5. CASE ~lost /\ lost' /\ rec.synced
    <3>1. Live!Withdraw
      BY <2>1, <2>5 DEF Live!Withdraw, EmptyBook, Live!EmptyBook
    <3> QED BY <3>1 DEF Live!Next
  <2> QED BY <1>1, <2>2, <2>3, <2>4, <2>5
<1> QED
  BY <1>1, <1>2, <1>3, <1>4, <1>5
     DEF Next, vars, Publish, Connect, ConnectFails, EmitConnected, trigger_resync,
         Disconnect, EmitDisconnected, EmitMalformed

\* The promise to readers holds whatever the exchange, the connection and the
\* queue do, and ends with the first message that is lost.  A snapshot of this
\* exchange lists the whole book, which FullDepth says: under a depth limit a
\* second snapshot of the same update could show a reader another book.
THEOREM FeedImplementsLiveBook == FullDepth => (Spec => ImplementsLiveBook)
<1> SUFFICES ASSUME FullDepth PROVE Spec => ImplementsLiveBook
  OBVIOUS
<1>1. Init => Live!Init
  BY MarketAssumption
     DEF Init, NewReconciler, Live!Init, EmptyBook, Live!EmptyBook, Promised,
         is_synced, get_book
<1>2. OrderedInv /\ [Next]_vars => [Live!Next]_(Live!vars)
  BY StepRefines
<1> QED BY <1>1, <1>2, StreamInit, StreamStep, PTL DEF Spec, ImplementsLiveBook, Live!Spec

------------------------------------------------------------------------------
(* A snapshot finds the buffer empty. *)

\* Until a resync is asked for, nothing is buffered when the events of the queue
\* q before the j-th have been handled by r: no diff comes before it, or a
\* disconnected event clears the buffer after the last one.
FreshAt(q, r, j) ==
  \/ r.pending = <<>> /\ \A k \in 1..(j - 1) : q[k].type # "diff"
  \/ \E i \in 1..(j - 1) :
       ClearsAt(q, i) /\ \A k \in (i + 1)..(j - 1) : q[k].type # "diff"

\* It is so at every snapshot in the queue, and at the end of the queue when a
\* connection's first snapshot is still to come, messages lost or not.
FreshInv ==
  ~resynced =>
    /\ \A j \in DOMAIN queue : queue[j].type = "snapshot" => FreshAt(queue, rec, j)
    /\ phase = "connecting" \/ owed = "first" => FreshAt(queue, rec, Len(queue) + 1)

RestoreInv == OrderedInv /\ FreshInv

LEMMA FreshInit == Init => RestoreInv
<1> SUFFICES ASSUME Init PROVE FreshInv
  BY StreamInit DEF RestoreInv
<1>1. DOMAIN queue = {} /\ rec.pending = <<>> /\ Len(queue) = 0
  BY DEF Init, NewReconciler
<1> QED BY <1>1 DEF FreshInv, FreshAt

\* An event joins the queue.
LEMMA FreshAppend ==
  ASSUME NEW q \in Seq(Events), NEW r, NEW e \in Events
  PROVE  /\ \A j \in 1..(Len(q) + 1) :
              FreshAt(q, r, j) => FreshAt(Append(q, e), r, j)
         /\ e.type # "diff" /\ FreshAt(q, r, Len(q) + 1) =>
              FreshAt(Append(q, e), r, Len(q) + 2)
         /\ e = ConnectionEvent("disconnected") =>
              FreshAt(Append(q, e), r, Len(q) + 2)
<1> DEFINE p == Append(q, e)
<1>1. /\ Len(q) \in Nat /\ \A k \in 1..Len(q) : p[k] = q[k]
      /\ p[Len(q) + 1] = e
  OBVIOUS
<1> HIDE DEF p
<1>2. ASSUME NEW j \in 1..(Len(q) + 1), FreshAt(q, r, j) PROVE FreshAt(p, r, j)
  <2>1. \A k \in 1..(j - 1) : p[k] = q[k]
    BY <1>1
  <2>2. CASE r.pending = <<>> /\ \A k \in 1..(j - 1) : q[k].type # "diff"
    BY <2>1, <2>2 DEF FreshAt
  <2>3. CASE \E i \in 1..(j - 1) :
               ClearsAt(q, i) /\ \A k \in (i + 1)..(j - 1) : q[k].type # "diff"
    <3>1. PICK i \in 1..(j - 1) :
            ClearsAt(q, i) /\ \A k \in (i + 1)..(j - 1) : q[k].type # "diff"
      BY <2>3
    <3>2. \A k \in (i + 1)..(j - 1) : k \in 1..(j - 1)
      OBVIOUS
    <3>3. ClearsAt(p, i) /\ \A k \in (i + 1)..(j - 1) : p[k].type # "diff"
      BY <2>1, <3>1, <3>2 DEF ClearsAt
    <3> QED BY <3>3 DEF FreshAt
  <2> QED BY <1>2, <2>2, <2>3 DEF FreshAt
<1>3. ASSUME e.type # "diff", FreshAt(p, r, Len(q) + 1) PROVE FreshAt(p, r, Len(q) + 2)
  <2>1. (Len(q) + 1) - 1 = Len(q) /\ (Len(q) + 2) - 1 = Len(q) + 1
    BY <1>1
  <2>2. CASE r.pending = <<>> /\ \A k \in 1..Len(q) : p[k].type # "diff"
    <3>1. \A k \in 1..(Len(q) + 1) : p[k].type # "diff"
      BY <1>1, <1>3, <2>2
    <3> QED BY <2>1, <2>2, <3>1 DEF FreshAt
  <2>3. CASE \E i \in 1..Len(q) :
               ClearsAt(p, i) /\ \A k \in (i + 1)..Len(q) : p[k].type # "diff"
    <3>1. PICK i \in 1..Len(q) :
            ClearsAt(p, i) /\ \A k \in (i + 1)..Len(q) : p[k].type # "diff"
      BY <2>3
    <3>2. /\ i \in 1..(Len(q) + 1)
          /\ \A k \in (i + 1)..(Len(q) + 1) : p[k].type # "diff"
      BY <1>1, <1>3, <3>1
    <3> QED BY <2>1, <3>1, <3>2 DEF FreshAt
  <2> QED BY <1>3, <2>1, <2>2, <2>3 DEF FreshAt
<1>4. ASSUME e = ConnectionEvent("disconnected") PROVE FreshAt(p, r, Len(q) + 2)
  <2>1. ClearsAt(p, Len(q) + 1)
    BY <1>1, <1>4 DEF ClearsAt, ConnectionEvent
  <2>2. /\ (Len(q) + 2) - 1 = Len(q) + 1 /\ Len(q) + 1 \in 1..(Len(q) + 1)
        /\ (Len(q) + 1 + 1)..(Len(q) + 1) = {}
    BY <1>1
  <2> QED BY <2>1, <2>2 DEF FreshAt
<1>5. e.type # "diff" /\ FreshAt(q, r, Len(q) + 1) => FreshAt(p, r, Len(q) + 2)
  BY <1>1, <1>2, <1>3
<1> QED BY <1>2, <1>4, <1>5 DEF p

\* The event at the head has been handled: what it was, and what it made of
\* the buffer.
LEMMA FreshTail ==
  ASSUME NEW q \in Seq(Events), q # <<>>, NEW r, NEW s,
         NEW j \in 2..(Len(q) + 1), FreshAt(q, r, j),
         s.pending = <<>> \/ (s.pending = r.pending /\ ~ClearsAt(q, 1))
           \/ q[1].type = "diff"
  PROVE  FreshAt(Tail(q), s, j - 1)
<1> DEFINE p == Tail(q)
<1>1. Len(q) \in Nat /\ \A k \in 1..(Len(q) - 1) : p[k] = q[k + 1]
  OBVIOUS
<1> HIDE DEF p
<1>2. \A k \in 1..((j - 1) - 1) : p[k] = q[k + 1] /\ k + 1 \in 1..(j - 1)
  BY <1>1
<1>3. 1 \in 1..(j - 1)
  OBVIOUS
<1>4. CASE r.pending = <<>> /\ \A k \in 1..(j - 1) : q[k].type # "diff"
  <2>1. s.pending = <<>>
    BY <1>3, <1>4
  <2> QED BY <1>2, <1>4, <2>1 DEF FreshAt, p
<1>5. CASE \E i \in 1..(j - 1) :
             ClearsAt(q, i) /\ \A k \in (i + 1)..(j - 1) : q[k].type # "diff"
  <2>1. PICK i \in 1..(j - 1) :
          ClearsAt(q, i) /\ \A k \in (i + 1)..(j - 1) : q[k].type # "diff"
    BY <1>5
  <2>2. CASE i = 1
    <3>1. s.pending = <<>>
      BY <2>1, <2>2 DEF ClearsAt
    <3>2. \A k \in 1..((j - 1) - 1) : k + 1 \in (i + 1)..(j - 1)
      BY <2>2
    <3> QED BY <1>2, <2>1, <3>1, <3>2 DEF FreshAt, p
  <2>3. CASE i # 1
    <3>1. i - 1 \in 1..((j - 1) - 1) /\ (i - 1) + 1 = i
      BY <2>3
    <3>2. ClearsAt(p, i - 1)
      BY <1>2, <2>1, <3>1 DEF ClearsAt
    <3>3. \A k \in ((i - 1) + 1)..((j - 1) - 1) :
            k \in 1..((j - 1) - 1) /\ k + 1 \in (i + 1)..(j - 1)
      BY <3>1
    <3>4. \A k \in ((i - 1) + 1)..((j - 1) - 1) : p[k].type # "diff"
      BY <1>2, <2>1, <3>3
    <3> QED BY <3>1, <3>2, <3>4 DEF FreshAt, p
  <2> QED BY <2>2, <2>3
<1> QED BY <1>4, <1>5 DEF FreshAt

\* What the actions that put an event into the queue have to show.
LEMMA FreshPut ==
  ASSUME RestoreInv, ~resynced, NEW e \in Events, queue' = Append(queue, e), rec' = rec,
         e.type = "snapshot" => phase = "connecting" \/ owed = "first",
         phase' = "connecting" \/ owed' = "first" =>
           \/ e = ConnectionEvent("disconnected")
           \/ e.type # "diff" /\ (phase = "connecting" \/ owed = "first")
  PROVE  FreshInv'
<1>1. /\ queue \in Seq(Events)
      /\ \A j \in DOMAIN queue : queue[j].type = "snapshot" => FreshAt(queue, rec, j)
      /\ phase = "connecting" \/ owed = "first" => FreshAt(queue, rec, Len(queue) + 1)
  BY DEF RestoreInv, FreshInv, OrderedInv, TypeInv, TypeOK
<1>2. /\ Len(queue) \in Nat /\ Len(queue') = Len(queue) + 1
      /\ DOMAIN queue = 1..Len(queue) /\ DOMAIN queue' = 1..(Len(queue) + 1)
      /\ \A j \in DOMAIN queue : queue'[j] = queue[j]
      /\ queue'[Len(queue) + 1] = e
      /\ (Len(queue) + 1) + 1 = Len(queue) + 2
  BY <1>1
<1>3. ASSUME NEW j \in DOMAIN queue', queue'[j].type = "snapshot"
      PROVE  FreshAt(queue', rec', j)
  <2>1. FreshAt(queue, rec, j)
    BY <1>1, <1>2, <1>3
  <2> QED BY <1>1, <1>2, <2>1, FreshAppend
<1>4. phase' = "connecting" \/ owed' = "first" => FreshAt(queue', rec', Len(queue') + 1)
  BY <1>1, <1>2, FreshAppend
<1> QED BY <1>3, <1>4 DEF FreshInv

\* What a handler does to the buffer, whatever has been lost.
LEMMA ConsumeBuffer ==
  ASSUME TypeInv, Consume
  PROVE  /\ queue' = Tail(queue) /\ UNCHANGED <<phase, owed, resynced>>
         /\ \/ rec'.pending = <<>>
            \/ rec'.pending = rec.pending /\ ~ClearsAt(queue, 1)
            \/ queue[1].type = "diff"
<1>1. queue # <<>> /\ rec \in Reconcilers /\ queue \in Seq(Events) /\ Head(queue) = queue[1]
  BY ConsumedType DEF TypeInv, TypeOK
<1>2. queue' = Tail(queue) /\ UNCHANGED <<phase, owed, resynced>>
  BY DEF Consume, ConsumeDiff, ConsumeSnapshot, ConsumeConnectionEvent, Handled
<1>3. CASE ConsumeDiff
  BY <1>1, <1>2, <1>3 DEF ConsumeDiff
<1>4. CASE ConsumeSnapshot
  <2>1. Head(queue).id \in Ids /\ rec' = handle_snapshot(rec, Head(queue).id)
    BY <1>1, <1>4, QueueType, EventTypes DEF ConsumeSnapshot, Handled
  <2> QED BY <1>1, <1>2, <2>1, HandleSnapshotType
<1>5. CASE ConsumeConnectionEvent
  <2>1. rec' = handle_connection_event(rec, queue[1].kind)
    BY <1>1, <1>5 DEF ConsumeConnectionEvent, Handled
  <2> QED BY <1>1, <1>2, <2>1, HandleConnectionEventType DEF ClearsAt
<1> QED BY <1>2, <1>3, <1>4, <1>5 DEF Consume

LEMMA FreshStep == RestoreInv /\ [Next]_vars => RestoreInv'
<1> SUFFICES ASSUME RestoreInv, [Next]_vars, ~resynced' PROVE FreshInv'
  BY StreamStep DEF RestoreInv, FreshInv
<1>1. TypeInv /\ queue \in Seq(Events)
  BY DEF RestoreInv, OrderedInv, TypeInv, TypeOK
<1>2. ~resynced
  BY DEF Next, vars, Publish, Connect, ConnectFails, EmitConnected, trigger_resync,
         Disconnect, EmitDisconnected, ReceiveSnapshot, ReceiveDiff, EmitMalformed,
         Consume, ConsumeDiff, ConsumeSnapshot, ConsumeConnectionEvent, Handled
<1>3. ASSUME UNCHANGED <<queue, rec>>,
             phase' = "connecting" \/ owed' = "first" =>
               phase = "connecting" \/ owed = "first"
      PROVE  FreshInv'
  BY <1>2, <1>3 DEF RestoreInv, FreshInv
<1>4. CASE Publish \/ Connect \/ ConnectFails \/ Disconnect \/ UNCHANGED vars
  BY <1>3, <1>4 DEF Publish, Connect, ConnectFails, Disconnect, vars
<1>5. CASE trigger_resync
  BY <1>5 DEF trigger_resync
<1>6. CASE EmitConnected
  <2> DEFINE e == ConnectionEvent("connected")
  <2>1. e \in Events /\ e.type = "connection"
    BY ConnectionEventTypes
  <2>2. /\ queue' = Append(queue, e) /\ rec' = rec /\ owed = "first"
    BY <1>1, <1>6 DEF EmitConnected, Put, TypeInv, PhaseInv
  <2> HIDE DEF e
  <2> QED BY <1>2, <2>1, <2>2, FreshPut
<1>7. CASE EmitDisconnected
  <2> DEFINE e == ConnectionEvent("disconnected")
  <2>1. e \in Events /\ e.type = "connection" /\ e = ConnectionEvent("disconnected")
    BY ConnectionEventTypes
  <2>2. queue' = Append(queue, e) /\ rec' = rec
    BY <1>7 DEF EmitDisconnected, Put
  <2> HIDE DEF e
  <2> QED BY <1>2, <2>1, <2>2, FreshPut
<1>8. CASE ReceiveSnapshot
  <2>1. PICK n \in Ids : /\ [type |-> "snapshot", id |-> n] \in Events
                         /\ PutNowait([type |-> "snapshot", id |-> n])
    BY <1>1, <1>8, ReceivedSnapshot
  <2> DEFINE e == [type |-> "snapshot", id |-> n]
  <2>2. e \in Events /\ (queue' = queue \/ queue' = Append(queue, e))
    BY <1>1, <2>1, PutNowaitType
  <2>3. /\ owed = "first" /\ owed' = "none" /\ rec' = rec
        /\ phase' = "streaming"
    BY <1>1, <1>2, <1>8 DEF ReceiveSnapshot, TypeInv, TypeOK, PhaseInv
  <2> HIDE DEF e
  <2>4. CASE queue' = queue
    BY <1>3, <2>3, <2>4
  <2>5. CASE queue' = Append(queue, e)
    BY <1>2, <2>2, <2>3, <2>5, FreshPut
  <2> QED BY <2>2, <2>4, <2>5
<1>9. CASE ReceiveDiff
  <2>1. PICK u \in Ids :
          /\ [type |-> "diff", first |-> sent + 1, last |-> u] \in Events
          /\ PutNowait([type |-> "diff", first |-> sent + 1, last |-> u])
    BY <1>1, <1>9, ReceivedDiff
  <2> DEFINE e == [type |-> "diff", first |-> sent + 1, last |-> u]
  <2>2. /\ e \in Events /\ e.type = "diff"
        /\ queue' = queue \/ queue' = Append(queue, e)
    BY <1>1, <2>1, PutNowaitType
  <2>3. owed' # "first" /\ phase' = "streaming" /\ rec' = rec
    BY <1>9 DEF ReceiveDiff
  <2> HIDE DEF e
  <2>4. CASE queue' = queue
    BY <1>3, <2>3, <2>4
  <2>5. CASE queue' = Append(queue, e)
    BY <1>2, <2>2, <2>3, <2>5, FreshPut
  <2> QED BY <2>2, <2>4, <2>5
<1>10. CASE EmitMalformed
  <2> DEFINE e == ConnectionEvent("malformed_message")
  <2>1. e \in Events /\ e.type = "connection"
    BY ConnectionEventTypes
  <2>2. queue' = Append(queue, e) /\ UNCHANGED <<rec, phase, owed>>
    BY <1>10 DEF EmitMalformed, Put
  <2> HIDE DEF e
  <2> QED BY <1>2, <2>1, <2>2, FreshPut
<1>11. CASE Consume
  <2>1. /\ queue # <<>> /\ queue' = Tail(queue) /\ UNCHANGED <<phase, owed, resynced>>
        /\ \/ rec'.pending = <<>>
           \/ rec'.pending = rec.pending /\ ~ClearsAt(queue, 1)
           \/ queue[1].type = "diff"
    BY <1>1, <1>11, ConsumedType, ConsumeBuffer
  <2>2. /\ Len(queue) \in Nat \ {0} /\ Len(queue') = Len(queue) - 1
        /\ DOMAIN queue = 1..Len(queue) /\ DOMAIN queue' = 1..(Len(queue) - 1)
        /\ \A j \in DOMAIN queue' : j + 1 \in DOMAIN queue /\ queue'[j] = queue[j + 1]
    BY <1>1, <2>1
  <2>3. ASSUME NEW j \in 1..Len(queue), FreshAt(queue, rec, j + 1)
        PROVE  FreshAt(queue', rec', j)
    <3>1. j + 1 \in 2..(Len(queue) + 1) /\ (j + 1) - 1 = j
      BY <2>2
    <3> QED BY <1>1, <2>1, <2>3, <3>1, FreshTail
  <2>4. ASSUME NEW j \in DOMAIN queue', queue'[j].type = "snapshot"
        PROVE  FreshAt(queue', rec', j)
    <3>1. j \in 1..Len(queue) /\ FreshAt(queue, rec, j + 1)
      BY <1>2, <2>2, <2>4 DEF RestoreInv, FreshInv
    <3> QED BY <2>3, <3>1
  <2>5. phase' = "connecting" \/ owed' = "first" =>
          FreshAt(queue', rec', Len(queue') + 1)
    <3>1. Len(queue) \in 1..Len(queue) /\ Len(queue') + 1 = Len(queue)
      BY <2>2
    <3> QED BY <1>2, <2>1, <2>3, <3>1 DEF RestoreInv, FreshInv
  <2> QED BY <2>4, <2>5 DEF FreshInv
<1> QED
  BY <1>4, <1>5, <1>6, <1>7, <1>8, <1>9, <1>10, <1>11 DEF Next

\* Unless a resync is asked for after a loss, every snapshot makes the book
\* right, whatever was lost before.
THEOREM SnapshotsRestoreTheBook == Spec => SnapshotRestoresBook
<1>1. RestoreInv /\ [Next]_vars => [(lost /\ resynced) \/ RestoresBook]_vars
  <2> SUFFICES ASSUME RestoreInv, ~(lost /\ resynced), ConsumeSnapshot
               PROVE  rec'.synced /\ Shows(rec'.book, Head(queue).id)
    BY DEF RestoresBook
  <2>1. /\ queue # <<>> /\ rec \in Reconcilers /\ Head(queue) \in Events
        /\ 1 \in DOMAIN queue /\ Head(queue) = queue[1]
        /\ lost \in BOOLEAN /\ resynced \in BOOLEAN
    BY QueueType DEF ConsumeSnapshot, RestoreInv, OrderedInv, TypeInv, TypeOK
  <2>2. rec' = handle_snapshot(rec, Head(queue).id) /\ Head(queue).type = "snapshot"
    BY DEF ConsumeSnapshot, Handled
  <2>3. rec.pending = <<>>
    <3>1. CASE ~lost
      BY <3>1 DEF RestoreInv, OrderedInv, StreamInv, Contiguous
    <3>2. CASE ~resynced
      BY <2>1, <2>2, <3>2 DEF RestoreInv, FreshInv, FreshAt
    <3> QED BY <3>1, <3>2
  <2> QED BY <2>1, <2>2, <2>3, EventTypes, HandleSnapshotType, HandleSnapshotShows
<1> QED BY <1>1, FreshInit, FreshStep, PTL DEF Spec, SnapshotRestoresBook

===============================================================================
