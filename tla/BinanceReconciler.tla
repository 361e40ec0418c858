-------------------------- MODULE BinanceReconciler --------------------------
(***************************************************************************)
(* src/src/orderbook/reconciler.py, class BinanceReconciler and the parts  *)
(* of ReconcilingBookManager it uses: one operator per method, from the    *)
(* reconciler's state before the call to its state after it.               *)
(*                                                                         *)
(* A reconciler is a record: book and lastId are the OrderBook's maps and  *)
(* last_update_id, synced, awaiting and pending are the fields _synced,    *)
(* _awaiting_first_diff and _pending_diffs, and resync says that the call  *)
(* invoked resync_cb.  The caller of a handler clears resync.              *)
(***************************************************************************)
EXTENDS ReconcilingBookManager

NoId == -1             \* last_update_id = None

Reconcilers ==
  [book : Books, lastId : Ids \cup {NoId}, synced : BOOLEAN,
   awaiting : BOOLEAN, pending : Seq(Diffs), resync : BOOLEAN]

NewReconciler ==
  [book |-> EmptyBook, lastId |-> NoId, synced |-> FALSE,
   awaiting |-> FALSE, pending |-> <<>>, resync |-> FALSE]

------------------------------------------------------------------------------

\* Mutant: last_update_id is the update that is expected next.
ApplyDiff_NextId(r, d) ==
  [r EXCEPT !.book = apply_levels(r.book, DiffLevels(d.first, d.last)),
            !.lastId = d.last + 1]

ApplyDiff(r, d) ==
  [r EXCEPT !.book = apply_levels(r.book, DiffLevels(d.first, d.last)),
            !.lastId = d.last]

\* Mutant: nobody is asked for the snapshot that replaces the book.
Gap_NoRequest(r) ==
  [r EXCEPT !.book = EmptyBook, !.lastId = NoId, !.synced = FALSE,
            !.awaiting = TRUE, !.pending = <<>>]

\* A sequence gap: drop everything and ask for a fresh snapshot.
Gap(r) ==
  [r EXCEPT !.book = EmptyBook, !.lastId = NoId, !.synced = FALSE,
            !.awaiting = TRUE, !.pending = <<>>, !.resync = TRUE]

\* Mutant: any diff past the snapshot is taken for the first one.
Bridges_NoLowerBound(r, d) == r.lastId + 1 <= d.last

Bridges(r, d) == d.first <= r.lastId + 1 /\ r.lastId + 1 <= d.last

Popped(r) == [r EXCEPT !.pending = Tail(r.pending)]

(***************************************************************************)
(* One iteration of the loop of _drain_buffer.  The loop ends where an     *)
(* iteration changes nothing: the buffer is empty, or its first diff does  *)
(* not reach the snapshot yet.  After a gap the buffer is empty.           *)
(***************************************************************************)
DrainStep(r) ==
  LET d == Head(r.pending) IN
  IF r.pending = <<>> THEN r
  ELSE IF d.last <= r.lastId THEN Popped(r)
  ELSE IF r.awaiting
       THEN IF Bridges(r, d)
            THEN [ApplyDiff(Popped(r), d)
                    EXCEPT !.awaiting = FALSE, !.synced = TRUE]
            ELSE r
  ELSE IF d.first = r.lastId + 1 THEN ApplyDiff(Popped(r), d)
  ELSE Gap(r)

\* An iteration that changes r shortens the buffer: Len(r.pending) suffice.
Iterations(r, n) ==
  LET after[k \in 0..n] == IF k = 0 THEN r ELSE DrainStep(after[k - 1])
  IN  after

Drain(r) == Iterations(r, Len(r.pending))[Len(r.pending)]

\* Mutant: the snapshot is loaded, the flags are left as they are.
handle_snapshot_KeepsSynced(r, id) ==
  Drain([r EXCEPT !.book = apply_snapshot(SnapshotLevels(id)), !.lastId = id,
                  !.awaiting = TRUE])

handle_snapshot(r, id) ==
  Drain([r EXCEPT !.book = apply_snapshot(SnapshotLevels(id)), !.lastId = id,
                  !.synced = FALSE, !.awaiting = TRUE])

Buffered(r, d) == [r EXCEPT !.pending = BoundBuffer(Append(r.pending, d))]

\* Mutant: a buffered diff waits for the next snapshot.
handle_diff_NoDrain(r, d) ==
  IF ~r.synced THEN Buffered(r, d)
  ELSE IF d.first = r.lastId + 1 THEN ApplyDiff(r, d) ELSE Gap(r)

handle_diff(r, d) ==
  IF ~r.synced
  THEN IF r.lastId # NoId THEN Drain(Buffered(r, d)) ELSE Buffered(r, d)
  ELSE IF d.first = r.lastId + 1 THEN ApplyDiff(r, d) ELSE Gap(r)

\* A dropped connection: the book is stale.  awaiting keeps its value.
handle_connection_event(r, kind) ==
  IF Clears(kind)
  THEN [r EXCEPT !.synced = FALSE, !.book = EmptyBook, !.lastId = NoId,
                 !.pending = <<>>]
  ELSE r

==============================================================================
