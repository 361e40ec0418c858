-------------------------- MODULE CoinbaseReconciler --------------------------
(***************************************************************************)
(* src/src/orderbook/reconciler.py, class CoinbaseReconciler and the parts *)
(* of ReconcilingBookManager it uses.  Its messages carry no update ids:   *)
(* the ids of the events below say what the levels of a message are, and   *)
(* no handler reads them for anything else.  resync_cb is never called.    *)
(***************************************************************************)
EXTENDS ReconcilingBookManager

Reconcilers ==
  [book : Books, synced : BOOLEAN, pending : Seq(Diffs),
   at : Ids]    \* auxiliary: the last update of the last message applied

NewReconciler ==
  [book |-> EmptyBook, synced |-> FALSE, pending |-> <<>>, at |-> 0]

ApplyDiff(r, d) ==
  [r EXCEPT !.book = apply_levels(r.book, DiffLevels(d.first, d.last)),
            !.at = d.last]

\* The loop that empties the buffer: every diff is applied, oldest first.
ApplyPending(r) ==
  LET after[k \in 0..Len(r.pending)] ==
        IF k = 0 THEN r ELSE ApplyDiff(after[k - 1], r.pending[k])
  IN  [after[Len(r.pending)] EXCEPT !.pending = <<>>]

\* Mutant: as on Binance, the book waits for a first diff.
handle_snapshot_AwaitsDiff(r, id) ==
  ApplyPending([r EXCEPT !.book = apply_snapshot(SnapshotLevels(id)),
                         !.synced = FALSE, !.at = id])

\* Mutant: the snapshot is applied on top of the book.
handle_snapshot_NoClear(r, id) ==
  ApplyPending([r EXCEPT !.book = apply_levels(r.book, SnapshotLevels(id)),
                         !.synced = TRUE, !.at = id])

handle_snapshot(r, id) ==
  ApplyPending([r EXCEPT !.book = apply_snapshot(SnapshotLevels(id)),
                         !.synced = TRUE, !.at = id])

handle_diff(r, d) ==
  IF ~r.synced THEN [r EXCEPT !.pending = BoundBuffer(Append(r.pending, d))]
  ELSE ApplyDiff(r, d)

\* Mutant: the buffered diffs of the dropped connection are kept.
handle_connection_event_KeepsPending(r, kind) ==
  IF Clears(kind) THEN [r EXCEPT !.synced = FALSE, !.book = EmptyBook] ELSE r

\* A dropped connection: the book and the buffer are stale.
handle_connection_event(r, kind) ==
  IF Clears(kind)
  THEN [r EXCEPT !.synced = FALSE, !.book = EmptyBook, !.pending = <<>>]
  ELSE r

================================================================================
