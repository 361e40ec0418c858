------------------------------- MODULE BookReplay -------------------------------
(***************************************************************************)
(* The replay log of one Binance symbol, and the book that                 *)
(* OrderBookReplayer.reconstruct (src/src/orderbook/replay.py) makes of    *)
(* it, beside the book a BinanceReconciler keeps live from the same        *)
(* events.  The writer logs every diff and snapshot that the queue gave it *)
(* (writer.py), with the event's timestamp; the live book takes them in    *)
(* the queue's order, the replay in the order of the timestamps.           *)
(*                                                                         *)
(* Connections are lost and replaced, which the log does not hold, and the *)
(* database drops old rows.  Nothing else is lost.  The local clock is the *)
(* exchange's, and ticks at every event that is stamped: timestamps differ.*)
(***************************************************************************)
EXTENDS BinanceReconciler, SequencesExt

CONSTANTS MaxConnections,  \* bound
          Retention        \* whether the retention policy drops rows

ASSUME ReplayAssumption == MaxConnections \in Nat \ {0} /\ Retention \in BOOLEAN

VARIABLES
  clock,
  publishedAt,   \* publishedAt[n]: when the exchange made update n
  transit,       \* the diffs on their way, oldest first
  emitted,       \* the last update of a diff emitted
  conn,          \* the number of the connection
  fetch,         \* its snapshot fetch
  log,           \* the events whose rows were written to book_events
  oldest,        \* rows with an older timestamp have been dropped
  rec            \* the live BinanceReconciler

vars == <<clock, publishedAt, transit, emitted, conn, fetch, log, oldest,
          rec>>

Times == Nat
Stamped(event, ts) == [event |-> event, ts |-> ts]
Received == [event : Diffs \cup Snapshots, ts : Times]

\* An event's rows, and (auxiliary) the connection it came from.
Entries == [event : Diffs \cup Snapshots, ts : Times, conn : 1..MaxConnections]

FetchStates == [pc : {"rest", "answered", "put", "done"}, id : Ids, ts : Times]

Requested == [pc |-> "rest", id |-> 0, ts |-> 0]

TypeOK ==
  /\ clock \in Times
  /\ publishedAt \in Seq(Times)
  /\ transit \in Seq(Received)
  /\ emitted \in Ids
  /\ conn \in 1..MaxConnections
  /\ fetch \in FetchStates
  /\ log \in Seq(Entries)
  /\ oldest \in Times
  /\ rec \in Reconcilers

Init ==
  /\ clock = 0
  /\ publishedAt = <<>>
  /\ transit = <<>>
  /\ emitted = 0
  /\ conn = 1
  /\ fetch = Requested
  /\ log = <<>>
  /\ oldest = 0
  /\ rec = NewReconciler

Published == Len(publishedAt)

Tick == clock' = clock + 1

------------------------------------------------------------------------------
(* The exchange. *)

Publish ==
  /\ Published < MaxUpdates
  /\ publishedAt' = Append(publishedAt, clock)
  /\ Tick
  /\ UNCHANGED <<transit, emitted, conn, fetch, log, oldest, rec>>

\* A diff is stamped when the exchange sends it.
EmitDiff ==
  /\ emitted < Published
  /\ LET d == [type |-> "diff", first |-> emitted + 1, last |-> Published]
     IN  transit' = Append(transit, Stamped(d, clock))
  /\ emitted' = Published
  /\ Tick
  /\ UNCHANGED <<publishedAt, conn, fetch, log, oldest, rec>>

Answer ==
  /\ fetch.pc = "rest"
  /\ fetch' = [pc |-> "answered", id |-> Published, ts |-> 0]
  /\ UNCHANGED <<clock, publishedAt, transit, emitted, conn, log, oldest, rec>>

------------------------------------------------------------------------------
(* The client and the two consumers.  The queue only delays.                *)

\* A snapshot is stamped with the local clock when the answer is parsed.
SnapshotArrives ==
  /\ fetch.pc = "answered"
  /\ fetch' = [fetch EXCEPT !.pc = "put", !.ts = clock]
  /\ Tick
  /\ UNCHANGED <<publishedAt, transit, emitted, conn, log, oldest, rec>>

\* One row for each level: an event without levels leaves none.
Logged(event, levels, ts) ==
  IF DOMAIN levels = {} THEN log
  ELSE Append(log, [event |-> event, ts |-> ts, conn |-> conn])

PutSnapshot ==
  /\ fetch.pc = "put"
  /\ LET s == [type |-> "snapshot", id |-> fetch.id]
     IN  log' = Logged(s, SnapshotLevels(s.id), fetch.ts)
  /\ rec' = handle_snapshot(rec, fetch.id)
  /\ fetch' = [fetch EXCEPT !.pc = "done"]
  /\ UNCHANGED <<clock, publishedAt, transit, emitted, conn, oldest>>

DiffArrives ==
  /\ transit # <<>>
  /\ LET d == Head(transit).event
     IN  /\ log' = Logged(d, DiffLevels(d.first, d.last), Head(transit).ts)
         /\ rec' = handle_diff(rec, d)
  /\ transit' = Tail(transit)
  /\ UNCHANGED <<clock, publishedAt, emitted, conn, fetch, oldest>>

\* The connection is lost with what was on its way, the live book is cleared,
\* and the next connection goes on from the newest update.  The writer gets
\* the connection events too, and logs none.
Reconnect ==
  /\ conn < MaxConnections
  /\ conn' = conn + 1
  /\ transit' = <<>>
  /\ emitted' = Published
  /\ fetch' = Requested
  /\ rec' = handle_connection_event(rec, "disconnected")
  /\ UNCHANGED <<clock, publishedAt, log, oldest>>

\* The retention policy drops what is older than some moment; it is days
\* behind, and no row comes that late.
DropChunks ==
  /\ Retention
  /\ oldest' \in (oldest + 1)..clock
  /\ UNCHANGED <<clock, publishedAt, transit, emitted, conn, fetch, log, rec>>

Next ==
  \/ Publish \/ EmitDiff \/ Answer
  \/ SnapshotArrives \/ PutSnapshot \/ DiffArrives
  \/ Reconnect \/ DropChunks

Spec == Init /\ [][Next]_vars

------------------------------------------------------------------------------
(* reconstruct. *)

\* Mutant: the query has no cutoff.
Selected_All(asOf) == { e \in ToSet(log) : oldest <= e.ts }

\* WHERE ts <= as_of, of the rows that are left
Selected(asOf) == { e \in ToSet(log) : oldest <= e.ts /\ e.ts <= asOf }

\* Mutant: a level of size 0 is kept.
Apply_KeepsRemoved(r, e) ==
  IF e.event.type = "snapshot"
  THEN [book |-> apply_snapshot(SnapshotLevels(e.event.id)), lastId |-> e.event.id]
  ELSE [book |-> apply_levels_KeepsRemoved(r.book, DiffLevels(e.event.first, e.event.last)),
        lastId |-> e.event.last]

\* Mutant: the book is not cleared before a snapshot.
Apply_NoClear(r, e) ==
  IF e.event.type = "snapshot"
  THEN [book |-> apply_levels(r.book, SnapshotLevels(e.event.id)), lastId |-> e.event.id]
  ELSE [book |-> apply_levels(r.book, DiffLevels(e.event.first, e.event.last)),
        lastId |-> e.event.last]

Apply(r, e) ==
  IF e.event.type = "snapshot"
  THEN [book |-> apply_snapshot(SnapshotLevels(e.event.id)), lastId |-> e.event.id]
  ELSE [book |-> apply_levels(r.book, DiffLevels(e.event.first, e.event.last)),
        lastId |-> e.event.last]

EmptyReplay == [book |-> EmptyBook, lastId |-> NoId]

\* What groupby makes of the rows of one timestamp, which are one event's.
ApplyGroup(r, group) ==
  IF group = {} THEN r ELSE Apply(r, CHOOSE e \in group : TRUE)

\* ORDER BY ts: before[t] is the book that the rows stamped before t make.
reconstruct(asOf) ==
  LET rows == Selected(asOf)
      before[t \in 0..clock] ==
        IF t = 0 THEN EmptyReplay
        ELSE ApplyGroup(before[t - 1], { e \in rows : e.ts = t - 1 })
  IN  before[clock]

------------------------------------------------------------------------------
(* Properties. *)

\* Of one connection, the timestamps put a snapshot before every diff that
\* reaches beyond it.
SnapshotFirst ==
  \A i, j \in DOMAIN log :
    /\ log[i].event.type = "snapshot"
    /\ log[j].event.type = "diff"
    /\ log[j].conn = log[i].conn
    /\ log[j].event.last > log[i].event.id
    => log[i].ts < log[j].ts

FromOneConnection(rows) == \A e, f \in rows : e.conn = f.conn

Since(e, asOf) == { f \in Selected(asOf) : f.ts >= e.ts }

\* Once a snapshot is logged, and stamped before every diff that goes on from
\* it, the replay at any moment until the next connection's diffs is the
\* exchange's book after the last update it has applied: diffs older than the
\* snapshot and rows of lost connections do no harm.
OrderedLogReplaysExactly ==
  SnapshotFirst =>
    \A e \in Selected(clock) : \A asOf \in e.ts..clock :
      e.event.type = "snapshot" /\ FromOneConnection(Since(e, asOf)) =>
        Shows(reconstruct(asOf).book, reconstruct(asOf).lastId)

\* And then the replay is the live book: "the book exactly as it stood", once the
\* connection's snapshot is among the rows and no depth limit hides a level.
OrderedReplayIsLiveBook ==
  /\ SnapshotFirst /\ FullDepth /\ rec.synced
  /\ \E e \in Selected(clock) : e.event.type = "snapshot" /\ e.conn = conn
  => reconstruct(clock).book = rec.book

\* The retention policy may drop a snapshot and keep the diffs that go on from
\* it: the replay of one connection's rows then misses levels, but shows none
\* that is not the exchange's, in the size it had there.
RetentionOnlyHidesLevels ==
  SnapshotFirst =>
    \A asOf \in 0..clock :
      LET r == reconstruct(asOf)
      IN  FromOneConnection(Selected(asOf)) =>
            \A l \in DOMAIN r.book :
              l \in DOMAIN BookAt[r.lastId] /\ r.book[l] = BookAt[r.lastId][l]

\* No lookahead: what a backtest is shown for a moment had happened by then.
ReplayHasNoLookahead ==
  \A asOf \in 0..clock :
    \A n \in 1..reconstruct(asOf).lastId : publishedAt[n] <= asOf

\* What replay.py says of the log: "what's in the table is what was validated
\* live, in order", so the replay is "the book exactly as it stood".
ReplayIsLiveBook == rec.synced => reconstruct(clock).book = rec.book

=================================================================================
