------------------------------ MODULE CoinbaseFeed ------------------------------
(***************************************************************************)
(* One symbol's way from Coinbase to its live book: the client's           *)
(* connection loop (base.py run_forever, coinbase_client.py), the bounded  *)
(* asyncio.Queue of IngestionManager, and OrderBookRegistry.run, which     *)
(* feeds a CoinbaseReconciler.  Snapshot and diffs come down one stream,   *)
(* so nothing races; what can go wrong is a message that does not reach    *)
(* the queue, and nothing in the data tells.                               *)
(*                                                                         *)
(* An action is the code from one await to the next.                       *)
(***************************************************************************)
EXTENDS CoinbaseReconciler

CONSTANTS QueueSize,   \* queue_maxsize of IngestionManager
          MaxLost,     \* bound: malformed_message events waiting for room
          Faults       \* the faults that may happen: a lost connection, a
                       \* message that meets a full queue

ASSUME FeedAssumption ==
  /\ QueueSize \in Nat \ {0}
  /\ MaxLost \in Nat
  /\ Faults \subseteq {"disconnect", "full"}

VARIABLES
  published,  \* the exchange's newest update
  phase,      \* where run_forever stands
  owed,       \* the snapshot the server still owes: that of the first
              \* subscribe, that of another one, or none
  sent,       \* the last update this connection's messages have covered
  malformed,  \* number of tasks that wait to put a malformed_message event
  queue,      \* IngestionManager.queue
  rec,        \* the registry's CoinbaseReconciler
  served,     \* auxiliary: the newest update shown before any loss
  lost,       \* auxiliary: a message of the exchange has been lost
  resynced    \* auxiliary: a resync has been asked for

vars == <<published, phase, owed, sent, malformed, queue, rec, served, lost,
          resynced>>

TypeOK ==
  /\ published \in Ids
  /\ phase \in {"connecting", "opening", "streaming", "closing"}
  /\ owed \in {"first", "again", "none"}
  /\ sent \in Ids
  /\ malformed \in Nat
  /\ queue \in Seq(Events)
  /\ rec \in Reconcilers
  /\ served \in Ids
  /\ lost \in BOOLEAN
  /\ resynced \in BOOLEAN

Init ==
  /\ published = 0
  /\ phase = "connecting"
  /\ owed = "none"
  /\ sent = 0
  /\ malformed = 0
  /\ queue = <<>>
  /\ rec = NewReconciler
  /\ served = 0
  /\ lost = FALSE
  /\ resynced = FALSE

Room == Len(queue) < QueueSize

\* await out_queue.put
Put(event) == Room /\ queue' = Append(queue, event)

\* out_queue.put_nowait inside _handle_message: when it raises QueueFull, the
\* message is gone and a task will put a malformed_message event.
PutNowait(event) ==
  \/ Put(event) /\ UNCHANGED <<malformed, lost>>
  \/ /\ "full" \in Faults
     /\ ~Room
     /\ malformed < MaxLost
     /\ malformed' = malformed + 1
     /\ lost' = TRUE
     /\ queue' = queue

------------------------------------------------------------------------------
(* The exchange. *)

Publish ==
  /\ published < MaxUpdates
  /\ published' = published + 1
  /\ UNCHANGED <<phase, owed, sent, malformed, queue, rec, served, lost, resynced>>

------------------------------------------------------------------------------
(* run_forever, _connect_and_stream and trigger_resync. *)

\* Connected, and the subscribe message sent: a snapshot comes first.
Connect ==
  /\ phase = "connecting"
  /\ phase' = "opening"
  /\ owed' = "first"
  /\ sent' = published
  /\ UNCHANGED <<published, malformed, queue, rec, served, lost, resynced>>

ConnectFails ==
  /\ "disconnect" \in Faults
  /\ phase = "connecting"
  /\ phase' = "closing"
  /\ UNCHANGED <<published, owed, sent, malformed, queue, rec, served, lost, resynced>>

EmitConnected ==
  /\ phase = "opening"
  /\ Put(ConnectionEvent("connected"))
  /\ phase' = "streaming"
  /\ UNCHANGED <<published, owed, sent, malformed, rec, served, lost, resynced>>

\* A second subscribe on the open connection: the server sends another
\* snapshot.  On a closed one the send raises, and nothing happens.
trigger_resync ==
  /\ phase \in {"opening", "streaming"}
  /\ owed = "none"
  /\ owed' = "again"
  /\ resynced' = TRUE
  /\ UNCHANGED <<published, phase, sent, malformed, queue, rec, served, lost>>

Disconnect ==
  /\ "disconnect" \in Faults
  /\ phase = "streaming"
  /\ phase' = "closing"
  /\ owed' = "none"
  /\ UNCHANGED <<published, sent, malformed, queue, rec, served, lost, resynced>>

EmitDisconnected ==
  /\ phase = "closing"
  /\ Put(ConnectionEvent("disconnected"))
  /\ phase' = "connecting"
  /\ UNCHANGED <<published, owed, sent, malformed, rec, served, lost, resynced>>

------------------------------------------------------------------------------
(* _handle_message.  The stream is in order: a snapshot shows at least what *)
(* the messages before it covered, and a diff continues the one before it.  *)

ReceiveSnapshot ==
  /\ phase = "streaming"
  /\ owed # "none"
  /\ \E n \in sent..published :
       /\ PutNowait([type |-> "snapshot", id |-> n])
       /\ sent' = n
  /\ owed' = "none"
  /\ UNCHANGED <<published, phase, rec, served, resynced>>

ReceiveDiff ==
  /\ phase = "streaming"
  /\ owed # "first"
  /\ \E u \in (sent + 1)..published :
       /\ PutNowait([type |-> "diff", first |-> sent + 1, last |-> u])
       /\ sent' = u
  /\ UNCHANGED <<published, phase, owed, rec, served, resynced>>

\* Mutant: the task does not end with its put.
EmitMalformed_Again ==
  /\ Put(ConnectionEvent("malformed_message"))
  /\ malformed' = malformed - 1
  /\ UNCHANGED <<published, phase, owed, sent, rec, served, lost, resynced>>

EmitMalformed ==
  /\ malformed > 0
  /\ Put(ConnectionEvent("malformed_message"))
  /\ malformed' = malformed - 1
  /\ UNCHANGED <<published, phase, owed, sent, rec, served, lost, resynced>>

------------------------------------------------------------------------------
(* OrderBookRegistry.run: take an event, call the handler. *)

Handled(r) ==
  /\ rec' = r
  /\ served' = IF r.synced /\ ~lost THEN r.at ELSE served
  /\ queue' = Tail(queue)
  /\ UNCHANGED <<published, phase, owed, sent, malformed, lost, resynced>>

ConsumeDiff ==
  /\ queue # <<>>
  /\ Head(queue).type = "diff"
  /\ Handled(handle_diff(rec, Head(queue)))

ConsumeSnapshot ==
  /\ queue # <<>>
  /\ Head(queue).type = "snapshot"
  /\ Handled(handle_snapshot(rec, Head(queue).id))

ConsumeConnectionEvent ==
  /\ queue # <<>>
  /\ Head(queue).type = "connection"
  /\ Handled(handle_connection_event(rec, Head(queue).kind))

Consume == ConsumeDiff \/ ConsumeSnapshot \/ ConsumeConnectionEvent

Next ==
  \/ Publish
  \/ Connect \/ ConnectFails \/ EmitConnected \/ trigger_resync
  \/ Disconnect \/ EmitDisconnected
  \/ ReceiveSnapshot \/ ReceiveDiff \/ EmitMalformed
  \/ Consume

Spec == Init /\ [][Next]_vars

\* Only Consume takes an event.
Take == queue # <<>> /\ queue' = Tail(queue)

\* The event loop runs every ready task, and the exchange keeps sending what
\* a subscription owes.  No fault is ever due, and no resync.
Fairness ==
  /\ WF_vars(Publish)
  /\ WF_vars(Connect \/ EmitConnected \/ EmitDisconnected)
  /\ WF_vars(ReceiveSnapshot)
  /\ SF_vars(ReceiveDiff)
  /\ WF_vars(EmitMalformed)
  /\ WF_queue(Take)

FairSpec == Spec /\ Fairness

------------------------------------------------------------------------------
(* Properties. *)

\* As long as no message has been lost, the book a reader gets while is_synced
\* is the exchange's book after the last message: snapshots, diffs, resyncs and
\* reconnects leave nothing of an older state behind.
SyncedBookIsExact ==
  ~lost /\ rec.synced => Shows(rec.book, rec.at)

RestoresBook == ConsumeSnapshot => rec'.synced /\ Shows(rec'.book, Head(queue).id)

\* The promise of a reconnect: whatever was lost before, the snapshot makes the
\* book right.  A resync after a loss does not: handle_snapshot applies on top of
\* its snapshot the diffs that were buffered when the first one was lost.
SnapshotRestoresBook == [][(lost /\ resynced) \/ RestoresBook]_vars

\* A lost connection is noticed, even while messages are being lost.
DisconnectWithdrawsBook == (phase = "closing" /\ rec.synced) ~> ~rec.synced

\* Unless a message is lost, a connection that stays up brings the book to the
\* exchange's last update, whatever connections came before.
StableConnectionCatchesUp ==
  <>[](phase = "streaming" /\ ~lost) => <>[](rec.synced /\ rec.at = MaxUpdates)

\* The promise to readers, as long as no message has been lost: see LiveBook.
is_synced == rec.synced
get_book == rec.book

Promised == is_synced /\ ~lost

Live == INSTANCE LiveBook WITH
          serving <- Promised,
          book <- IF Promised THEN get_book ELSE EmptyBook,
          shown <- served

ImplementsLiveBook == Live!Spec

================================================================================
