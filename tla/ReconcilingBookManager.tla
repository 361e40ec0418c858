------------------------ MODULE ReconcilingBookManager ------------------------
(***************************************************************************)
(* What the two reconcilers of src/src/orderbook/reconciler.py share: the  *)
(* diffs they are given and the bounded buffer they keep them in.          *)
(***************************************************************************)
EXTENDS Market, Sequences

CONSTANT MaxPending    \* _max_pending

ASSUME MaxPendingAssumption == MaxPending \in Nat \ {0}

\* A depth diff (U, u): its levels are DiffLevels(first, last).
Diffs ==
  { d \in [type : {"diff"}, first : Ids, last : Ids] :
      1 <= d.first /\ d.first <= d.last }

\* A snapshot, and the update it shows.
Snapshots == [type : {"snapshot"}, id : Ids]

ConnectionEvents ==
  [type : {"connection"}, kind : {"connected", "disconnected", "malformed_message"}]

\* NormalizedEvent, without trades: a reconciler is never given one.
Events == Diffs \cup Snapshots \cup ConnectionEvents

ConnectionEvent(kind) == [type |-> "connection", kind |-> kind]

\* Mutant: the kind reported for a dropped connection is not looked for.
Clears_ResyncOnly(kind) == kind = "resync_required"

\* The kinds of event after which the book is not to be trusted.
Clears(kind) == kind \in {"disconnected", "resync_required"}

\* The oldest diffs are dropped when the buffer is over its bound.
BoundBuffer(q) ==
  IF Len(q) > MaxPending THEN SubSeq(q, Len(q) - MaxPending + 1, Len(q)) ELSE q

===============================================================================
