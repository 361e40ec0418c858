------------------------------ MODULE BinanceFeed ------------------------------
(***************************************************************************)
(* One symbol's way from Binance to its live book: the client's connection *)
(* loop (base.py run_forever, binance_client.py), the snapshot and resync  *)
(* tasks that race it, the bounded asyncio.Queue of IngestionManager, and  *)
(* OrderBookRegistry.run, which feeds a BinanceReconciler.                 *)
(*                                                                         *)
(* Everything runs on one asyncio event loop: an action is the code from   *)
(* one await to the next.                                                  *)
(***************************************************************************)
EXTENDS BinanceReconciler

CONSTANTS QueueSize,   \* queue_maxsize of IngestionManager
          Initial,     \* the snapshot_task of a connection
          Tasks,       \* bound: resync tasks that may be in flight at once
          Faults       \* the faults that may happen: a lost connection, a
                       \* failed fetch, a diff that meets a full queue

ASSUME FeedAssumption ==
  /\ QueueSize \in Nat \ {0}
  /\ Initial \notin Tasks
  /\ Faults \subseteq {"disconnect", "fetch", "full"}

VARIABLES
  published,  \* the exchange's newest update
  phase,      \* where run_forever stands
  sent,       \* the last update of a diff that this connection delivered
  fetch,      \* the snapshot fetches: snapshot_task and the resync tasks
  malformed,  \* number of tasks that wait to put a malformed_message event
  queue,      \* IngestionManager.queue
  rec,        \* the registry's BinanceReconciler
  served,     \* auxiliary: the newest lastId a synced book has had
  failed      \* auxiliary: a fetch has failed on this connection

vars == <<published, phase, sent, fetch, malformed, queue, rec, served, failed>>

Fetches == Tasks \cup {Initial}

\* A fetch waits for the REST answer, then for room in the queue.
FetchStates == [pc : {"idle", "rest", "put"}, id : Ids]
Idle == [pc |-> "idle", id |-> 0]
Requested == [pc |-> "rest", id |-> 0]

TypeOK ==
  /\ published \in Ids
  /\ phase \in {"connecting", "opening", "streaming", "closing"}
  /\ sent \in Ids
  /\ fetch \in [Fetches -> FetchStates]
  /\ malformed \in Nat
  /\ queue \in Seq(Events)
  /\ rec \in Reconcilers
  /\ served \in Ids
  /\ failed \in BOOLEAN

Init ==
  /\ published = 0
  /\ phase = "connecting"
  /\ sent = 0
  /\ fetch = [f \in Fetches |-> Idle]
  /\ malformed = 0
  /\ queue = <<>>
  /\ rec = NewReconciler
  /\ served = 0
  /\ failed = FALSE

Room == Len(queue) < QueueSize

Put(event) == Room /\ queue' = Append(queue, event)

------------------------------------------------------------------------------
(* The exchange. *)

Publish ==
  /\ published < MaxUpdates
  /\ published' = published + 1
  /\ UNCHANGED <<phase, sent, fetch, malformed, queue, rec, served, failed>>

------------------------------------------------------------------------------
(* run_forever and _connect_and_stream.  The delay before a reconnect, and *)
(* the time a connection attempt takes, are the time spent in "connecting".*)

\* The streams are part of the URL: the diffs start after the newest update.
Connect ==
  /\ phase = "connecting"
  /\ phase' = "opening"
  /\ sent' = published
  /\ UNCHANGED <<published, fetch, malformed, queue, rec, served, failed>>

ConnectFails ==
  /\ "disconnect" \in Faults
  /\ phase = "connecting"
  /\ phase' = "closing"
  /\ UNCHANGED <<published, sent, fetch, malformed, queue, rec, served, failed>>

EmitConnected ==
  /\ phase = "opening"
  /\ Put(ConnectionEvent("connected"))
  /\ phase' = "streaming"
  /\ fetch' = [fetch EXCEPT ![Initial] = Requested]
  /\ failed' = FALSE
  /\ UNCHANGED <<published, sent, malformed, rec, served>>

\* The stream ends, cleanly or not: snapshot_task is cancelled and awaited.
\* The resync tasks are not this coroutine's, and live on.
Disconnect ==
  /\ "disconnect" \in Faults
  /\ phase = "streaming"
  /\ phase' = "closing"
  /\ fetch' = [fetch EXCEPT ![Initial] = Idle]
  /\ UNCHANGED <<published, sent, malformed, queue, rec, served, failed>>

EmitDisconnected ==
  /\ phase = "closing"
  /\ Put(ConnectionEvent("disconnected"))
  /\ phase' = "connecting"
  /\ UNCHANGED <<published, sent, fetch, malformed, rec, served, failed>>

------------------------------------------------------------------------------
(* _handle_message on a depthUpdate: put_nowait, which raises when the     *)
(* queue is full; the handler's except clause turns that into a            *)
(* malformed_message event, put by a task of its own.                      *)

ReceiveDiff ==
  /\ phase = "streaming"
  /\ \E u \in (sent + 1)..published :
       /\ Put([type |-> "diff", first |-> sent + 1, last |-> u])
       /\ sent' = u
  /\ UNCHANGED <<published, phase, fetch, malformed, rec, served, failed>>

LoseDiff ==
  /\ "full" \in Faults
  /\ phase = "streaming"
  /\ ~Room
  /\ \E u \in (sent + 1)..published : sent' = u
  /\ malformed' = malformed + 1
  /\ UNCHANGED <<published, phase, fetch, queue, rec, served, failed>>

\* Mutant: the task does not end with its put.
EmitMalformed_Again ==
  /\ Put(ConnectionEvent("malformed_message"))
  /\ malformed' = malformed - 1
  /\ UNCHANGED <<published, phase, sent, fetch, rec, served, failed>>

EmitMalformed ==
  /\ malformed > 0
  /\ Put(ConnectionEvent("malformed_message"))
  /\ malformed' = malformed - 1
  /\ UNCHANGED <<published, phase, sent, fetch, rec, served, failed>>

------------------------------------------------------------------------------
(* _fetch_snapshot_impl, run by snapshot_task and by trigger_resync.       *)

\* The REST server answers with the book as it then is.
Answer(f) ==
  /\ fetch[f].pc = "rest"
  /\ fetch' = [fetch EXCEPT ![f] = [pc |-> "put", id |-> published]]
  /\ UNCHANGED <<published, phase, sent, malformed, queue, rec, served, failed>>

\* The failure is logged and the task ends: nothing asks again.
FetchFails(f) ==
  /\ "fetch" \in Faults
  /\ fetch[f].pc = "rest"
  /\ fetch' = [fetch EXCEPT ![f] = Idle]
  /\ failed' = TRUE
  /\ UNCHANGED <<published, phase, sent, malformed, queue, rec, served>>

PutSnapshot(f) ==
  /\ fetch[f].pc = "put"
  /\ Put([type |-> "snapshot", id |-> fetch[f].id])
  /\ fetch' = [fetch EXCEPT ![f] = Idle]
  /\ UNCHANGED <<published, phase, sent, malformed, rec, served, failed>>

------------------------------------------------------------------------------
(* OrderBookRegistry.run: take an event, call the handler; a resync        *)
(* request becomes a task.                                                 *)

Handled(r) ==
  /\ rec' = [r EXCEPT !.resync = FALSE]
  /\ served' = IF r.synced THEN r.lastId ELSE served
  /\ queue' = Tail(queue)
  /\ IF r.resync
     THEN \E t \in Tasks : /\ fetch[t].pc = "idle"
                           /\ fetch' = [fetch EXCEPT ![t] = Requested]
     ELSE fetch' = fetch
  /\ UNCHANGED <<published, phase, sent, malformed, failed>>

ConsumeDiff ==
  /\ queue # <<>>
  /\ Head(queue).type = "diff"
  /\ Handled(handle_diff(rec, Head(queue)))

ConsumeSnapshot ==
  /\ queue # <<>>
  /\ Head(queue).type = "snapshot"
  /\ Handled(handle_snapshot(rec, Head(queue).id))

ConsumeConnectionEvent ==
  /\ queue # <<>>
  /\ Head(queue).type = "connection"
  /\ Handled(handle_connection_event(rec, Head(queue).kind))

Consume == ConsumeDiff \/ ConsumeSnapshot \/ ConsumeConnectionEvent

Next ==
  \/ Publish
  \/ Connect \/ ConnectFails \/ EmitConnected \/ Disconnect \/ EmitDisconnected
  \/ ReceiveDiff \/ LoseDiff \/ EmitMalformed
  \/ \E f \in Fetches : Answer(f) \/ FetchFails(f) \/ PutSnapshot(f)
  \/ Consume

Spec == Init /\ [][Next]_vars

\* The event loop runs every ready task: run_forever, each fetch, the tasks
\* that put malformed_message events, the consumer.  No fault is ever due.
RunForever ==
  Connect \/ EmitConnected \/ ReceiveDiff \/ LoseDiff \/ EmitDisconnected

\* Only Consume takes an event.
Take == queue # <<>> /\ queue' = Tail(queue)

Fairness ==
  /\ WF_vars(Publish)
  /\ WF_vars(RunForever)
  /\ WF_vars(EmitMalformed)
  /\ \A f \in Fetches : WF_vars(Answer(f) \/ PutSnapshot(f))
  /\ WF_queue(Take)

FairSpec == Spec /\ Fairness

------------------------------------------------------------------------------
(* Properties. *)

\* While is_synced, the book a reader gets is the exchange's book after
\* update last_update_id: no diff was skipped, doubled or applied to the
\* wrong base, whatever order snapshots, diffs and reconnects came in.
SyncedBookIsExact ==
  rec.synced => rec.lastId # NoId /\ Shows(rec.book, rec.lastId)

\* A book that was cleared while the stream is up has a snapshot on its way,
\* a fetch in flight or a snapshot in the queue, unless a fetch of this
\* connection has failed: trigger_resync and _fetch_all_snapshots log that and
\* never ask again.
ClearedBookAwaitsSnapshot ==
  phase = "streaming" /\ rec.lastId = NoId /\ ~failed =>
    \/ \E f \in Fetches : fetch[f].pc # "idle"
    \/ \E i \in DOMAIN queue : queue[i].type = "snapshot"

\* What reconciler.py says of a missed update (the book "must be rebuilt from
\* a fresh snapshot"): a buffered diff that starts beyond the snapshot can
\* never be applied, so another snapshot, or the disconnect that clears the
\* book, is on its way.
MissedUpdateIsRebuilt ==
  (/\ rec.lastId # NoId
   /\ rec.pending # <<>>
   /\ Head(rec.pending).first > rec.lastId + 1)
  => \/ \E f \in Fetches : fetch[f].pc # "idle"
     \/ \E i \in DOMAIN queue :
          queue[i].type = "snapshot" \/ queue[i] = ConnectionEvent("disconnected")
     \/ phase = "closing"

\* A lost connection is noticed: once run_forever is about to report it, the
\* stale book stops being served.
DisconnectWithdrawsBook == (phase = "closing" /\ rec.synced) ~> ~rec.synced

\* Without losses and failed fetches, a connection that stays up brings the
\* book to the exchange's last update, whatever connections came before.
StableConnectionCatchesUp ==
  <>[](phase = "streaming") => <>[](rec.lastId = MaxUpdates)

\* What a reader of the registry is given.
is_synced == rec.synced
get_book == rec.book

\* The promise to readers: see LiveBook.
Live == INSTANCE LiveBook WITH
          serving <- is_synced,
          book <- IF is_synced THEN get_book ELSE EmptyBook,
          shown <- served

ImplementsLiveBook == Live!Spec

===============================================================================
