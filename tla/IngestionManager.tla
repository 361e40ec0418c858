---------------------------- MODULE IngestionManager ----------------------------
(***************************************************************************)
(* The clients of src/src/ingestion/manager.py side by side: run_forever   *)
(* of each of them (base.py), the one queue they share, the registry of    *)
(* src/src/orderbook/manager.py that consumes it for several symbols, and  *)
(* the end of a script: the consumer ends, then IngestionManager.stop()    *)
(* cancels the clients and waits for them.                                 *)
(*                                                                         *)
(* Connections are numbered per client, and a reconciler is reduced to the *)
(* connections its diffs come from; BinanceFeed and CoinbaseFeed have the  *)
(* rest of it.  An action is the code from one await to the next.          *)
(***************************************************************************)
EXTENDS Integers, Sequences, FiniteSets

CONSTANTS Clients,          \* the exchanges
          SnapshotClients,  \* those with a snapshot_task to unwind: Binance
          Symbols,          \* Symbols[c]: the symbols that c has messages of
          QueueSize,        \* queue_maxsize
          BaseBackoff,      \* _base_backoff_s
          MaxBackoff,       \* _max_backoff_s
          MaxConns          \* bound: attempt MaxConns[c] of client c is not lost

ASSUME IngestionAssumption ==
  /\ SnapshotClients \subseteq Clients
  /\ DOMAIN Symbols = Clients
  /\ QueueSize \in Nat \ {0}
  /\ BaseBackoff \in Nat \ {0} /\ MaxBackoff \in Nat /\ BaseBackoff <= MaxBackoff
  /\ MaxConns \in [Clients -> Nat \ {0}]

VARIABLES
  stage,     \* where the script stands
  phase,     \* where run_forever of each client stands
  conn,      \* the number of the client's latest connection attempt
  clean,     \* whether the connection to be reported was closed cleanly
  backoff,   \* the backoff of run_forever
  queue,     \* IngestionManager.queue
  sources,   \* OrderBookRegistry._books: of each reconciler that exists, the
             \* connections its applied or buffered diffs came from
  failures   \* auxiliary: the client's failures since its last clean close

clientVars == <<phase, conn, clean, backoff, failures>>
vars == <<stage, clientVars, queue, sources>>

Phases == {"connecting", "opening", "streaming", "unwinding", "reporting",
           "sleeping", "cancelled", "ended"}

Conns == UNION { 1..MaxConns[c] : c \in Clients }

AllSymbols == UNION { Symbols[c] : c \in Clients }

Diffs == [type : {"diff"}, exchange : Clients, symbol : AllSymbols, conn : Conns]
ConnectionEvents == [type : {"connected", "disconnected"}, exchange : Clients]

Registries == UNION { [S -> SUBSET Conns] : S \in SUBSET AllSymbols }

TypeOK ==
  /\ stage \in {"running", "stopping", "stopped"}
  /\ phase \in [Clients -> Phases]
  /\ conn \in [Clients -> Conns]
  /\ clean \in [Clients -> BOOLEAN]
  /\ backoff \in [Clients -> BaseBackoff..MaxBackoff]
  /\ queue \in Seq(Diffs \cup ConnectionEvents)
  /\ Len(queue) <= QueueSize
  /\ sources \in [Clients -> Registries]
  /\ failures \in [Clients -> Conns \cup {0}]

\* IngestionManager.start: a task for every client; the registry is empty.
Init ==
  /\ stage = "running"
  /\ phase = [c \in Clients |-> "connecting"]
  /\ conn = [c \in Clients |-> 1]
  /\ clean = [c \in Clients |-> FALSE]
  /\ backoff = [c \in Clients |-> BaseBackoff]
  /\ queue = <<>>
  /\ sources = [c \in Clients |-> [s \in {} |-> {}]]
  /\ failures = [c \in Clients |-> 0]

Put(event) == Len(queue) < QueueSize /\ queue' = Append(queue, event)

Goto(c, p) == phase' = [phase EXCEPT ![c] = p]

\* The test of the loop of run_forever: stop() has been called or not.
LoopAgain(c) ==
  IF stage = "running"
  THEN Goto(c, "connecting") /\ conn' = [conn EXCEPT ![c] = @ + 1]
  ELSE Goto(c, "ended") /\ conn' = conn

------------------------------------------------------------------------------
(* run_forever and _connect_and_stream. *)

Connect(c) ==
  /\ phase[c] = "connecting"
  /\ Goto(c, "opening")
  /\ UNCHANGED <<stage, conn, clean, backoff, failures, queue, sources>>

EmitConnected(c) ==
  /\ phase[c] = "opening"
  /\ Put([type |-> "connected", exchange |-> c])
  /\ Goto(c, "streaming")
  /\ UNCHANGED <<stage, conn, clean, backoff, failures, sources>>

\* put_nowait; on a full queue the message is lost, which changes nothing here.
\* Snapshots, which Binance does not stream, are left to the feed modules.
Receive(c) ==
  /\ phase[c] = "streaming"
  /\ \E s \in Symbols[c] :
       Put([type |-> "diff", exchange |-> c, symbol |-> s, conn |-> conn[c]])
  /\ UNCHANGED <<stage, clientVars, sources>>

\* The connection attempt fails, or the stream ends: cleanly, which makes
\* `async for` return, or with an exception.
Lose(c) ==
  /\ conn[c] < MaxConns[c]
  /\ \/ /\ phase[c] = "connecting"
        /\ clean' = [clean EXCEPT ![c] = FALSE]
        /\ Goto(c, "reporting")
     \/ /\ phase[c] = "streaming"
        /\ \E normally \in BOOLEAN : clean' = [clean EXCEPT ![c] = normally]
        /\ Goto(c, IF c \in SnapshotClients THEN "unwinding" ELSE "reporting")
  /\ failures' = [failures EXCEPT ![c] = IF clean'[c] THEN 0 ELSE @ + 1]
  /\ UNCHANGED <<stage, conn, backoff, queue, sources>>

\* `await snapshot_task` returns.  It does so under suppress(CancelledError):
\* also when the client itself was cancelled while it waited.
Unwound(c) ==
  /\ phase[c] = "unwinding"
  /\ Goto(c, "reporting")
  /\ UNCHANGED <<stage, conn, clean, backoff, failures, queue, sources>>

\* Mutant: a clean close is not taken for a disconnection.
ReportClean_Silent(c) ==
  /\ phase[c] = "reporting"
  /\ clean[c]
  /\ queue' = queue
  /\ backoff' = [backoff EXCEPT ![c] = BaseBackoff]
  /\ LoopAgain(c)
  /\ clean' = [clean EXCEPT ![c] = FALSE]
  /\ UNCHANGED <<stage, failures, sources>>

\* Mutant: a clean close is a reason to go home.
ReportClean_Returns(c) ==
  /\ phase[c] = "reporting"
  /\ clean[c]
  /\ Put([type |-> "disconnected", exchange |-> c])
  /\ Goto(c, "ended")
  /\ UNCHANGED <<stage, conn, clean, backoff, failures, sources>>

\* Mutant: the clean branch leaves the backoff as the failures made it.
ReportClean_KeepsBackoff(c) ==
  /\ phase[c] = "reporting"
  /\ clean[c]
  /\ Put([type |-> "disconnected", exchange |-> c])
  /\ LoopAgain(c)
  /\ clean' = [clean EXCEPT ![c] = FALSE]
  /\ UNCHANGED <<stage, backoff, failures, sources>>

\* After a clean close the next attempt follows at once.
ReportClean(c) ==
  /\ phase[c] = "reporting"
  /\ clean[c]
  /\ Put([type |-> "disconnected", exchange |-> c])
  /\ backoff' = [backoff EXCEPT ![c] = BaseBackoff]
  /\ LoopAgain(c)
  /\ clean' = [clean EXCEPT ![c] = FALSE]
  /\ UNCHANGED <<stage, failures, sources>>

ReportFailure(c) ==
  /\ phase[c] = "reporting"
  /\ ~clean[c]
  /\ Put([type |-> "disconnected", exchange |-> c])
  /\ Goto(c, "sleeping")
  /\ UNCHANGED <<stage, conn, clean, backoff, failures, sources>>

\* Mutant: the backoff grows without a limit.
NextBackoff_NoMax(b) == 2 * b

NextBackoff(b) == IF 2 * b < MaxBackoff THEN 2 * b ELSE MaxBackoff

\* The sleep before the next attempt ends.
Wake(c) ==
  /\ phase[c] = "sleeping"
  /\ backoff' = [backoff EXCEPT ![c] = NextBackoff(@)]
  /\ LoopAgain(c)
  /\ UNCHANGED <<stage, clean, failures, queue, sources>>

\* A cancelled client has closed what it had open.
End(c) ==
  /\ phase[c] = "cancelled"
  /\ Goto(c, "ended")
  /\ UNCHANGED <<stage, conn, clean, backoff, failures, queue, sources>>

------------------------------------------------------------------------------
(* OrderBookRegistry.run. *)

SourcesOf(c, s) == IF s \in DOMAIN sources[c] THEN sources[c][s] ELSE {}

\* The handler of one reconciler, created by the first event of its symbol.
ConsumeDiff ==
  /\ stage = "running" /\ queue # <<>>
  /\ Head(queue).type = "diff"
  /\ LET e == Head(queue)
     IN  sources' = [sources EXCEPT ![e.exchange] =
           [s \in DOMAIN @ \cup {e.symbol} |->
              SourcesOf(e.exchange, s) \cup { k \in {e.conn} : s = e.symbol }]]
  /\ queue' = Tail(queue)
  /\ UNCHANGED <<stage, clientVars>>

\* Mutant: the event goes to every reconciler.
Broadcast_AllExchanges(c) == [d \in Clients |-> [s \in DOMAIN sources[d] |-> {}]]

\* Every reconciler of the exchange clears its book and its buffer.
_broadcast_connection_event(c) ==
  [sources EXCEPT ![c] = [s \in DOMAIN @ |-> {}]]

\* "connected" clears nothing: reconciler.py looks for "disconnected".
ConsumeConnectionEvent ==
  /\ stage = "running" /\ queue # <<>>
  /\ Head(queue).type \in {"connected", "disconnected"}
  /\ sources' = IF Head(queue).type = "disconnected"
                THEN _broadcast_connection_event(Head(queue).exchange)
                ELSE sources
  /\ queue' = Tail(queue)
  /\ UNCHANGED <<stage, clientVars>>

Consume == ConsumeDiff \/ ConsumeConnectionEvent

------------------------------------------------------------------------------
(* The end of a script. *)

\* Mutant: the clients are asked to stop but not cancelled.
CancelledAt_Nothing(c) == phase[c]

\* A cancellation ends run_forever at every await but one.
CancelledAt(c) ==
  IF phase[c] \in {"unwinding", "ended"} THEN phase[c] ELSE "cancelled"

\* An interrupt or an error ends the consumer, and the script calls
\* IngestionManager.stop, which sets every _stop and cancels every task.  What
\* the clients do between the two they may as well do before.
Stop ==
  /\ stage = "running"
  /\ stage' = "stopping"
  /\ phase' = [c \in Clients |-> CancelledAt(c)]
  /\ UNCHANGED <<conn, clean, backoff, failures, queue, sources>>

GatherReturns ==
  /\ stage = "stopping"
  /\ \A c \in Clients : phase[c] = "ended"
  /\ stage' = "stopped"
  /\ UNCHANGED <<clientVars, queue, sources>>

------------------------------------------------------------------------------
ClientStep(c) ==
  \/ Connect(c) \/ EmitConnected(c) \/ Receive(c) \/ Lose(c) \/ Unwound(c)
  \/ ReportClean(c) \/ ReportFailure(c) \/ Wake(c) \/ End(c)

Next ==
  \/ \E c \in Clients : ClientStep(c)
  \/ Consume
  \/ Stop \/ GatherReturns

Spec == Init /\ [][Next]_vars

\* Only Consume takes an event.
Take == stage = "running" /\ queue # <<>> /\ queue' = Tail(queue)

\* The event loop runs what is ready.  A consumer that runs empties the queue
\* before it gives way, so a put that waits for room finds some in the end,
\* however much the other clients put: strong fairness.  No connection need
\* be lost, no message sent, and nobody need stop the script.
Fairness ==
  /\ \A c \in Clients :
       /\ WF_vars(Connect(c) \/ Unwound(c) \/ Wake(c) \/ End(c))
       /\ SF_vars(EmitConnected(c) \/ ReportClean(c) \/ ReportFailure(c))
  /\ WF_queue(Take)
  /\ WF_vars(GatherReturns)

FairSpec == Spec /\ Fairness

------------------------------------------------------------------------------
(* Properties. *)

\* No reconciler ever holds diffs of two connections: on a queue shared by all
\* clients and symbols, the disconnected event comes after everything its
\* connection sent, before everything the next one sends, and reaches every
\* symbol of the exchange, however the connection ended.
BooksFromOneConnection ==
  \A c \in Clients : \A s \in DOMAIN sources[c] : Cardinality(sources[c][s]) <= 1

\* "Binance dropping doesn't affect Coinbase" (manager.py): a book that has
\* data is cleared only when the very connection its data came from is over.
ClearedBooksLostTheirConnection ==
  [][\A c \in Clients : \A s \in DOMAIN sources[c] : \A k \in sources[c][s] :
       \/ s \in DOMAIN sources'[c] /\ k \in sources'[c][s]
       \/ k < conn[c]
       \/ phase[c] \notin {"streaming", "unwinding", "reporting"}]_vars

\* The n-th failure in a row waits twice as long as the one before it, the first
\* one for the base, and none longer than the maximum; a clean close starts the
\* count again, however long the connections lasted.  The delay is that and nothing
\* else: run_forever's docstring and README.md speak of "exponential backoff" with
\* jitter, of which the code has none, so clients that fail together come back
\* together.
Doubled[n \in Nat] == IF n = 0 THEN BaseBackoff ELSE 2 * Doubled[n - 1]

Delay(n) == IF Doubled[n - 1] < MaxBackoff THEN Doubled[n - 1] ELSE MaxBackoff

BackoffFollowsFailures ==
  \A c \in Clients :
    /\ phase[c] = "sleeping" => backoff[c] = Delay(failures[c])
    /\ phase[c] \in {"connecting", "opening", "streaming"} =>
         backoff[c] = Delay(failures[c] + 1)

\* A client that lost its connection tries again, whatever the other clients
\* put into the queue, until the script ends.
ReconnectsUntilStopped ==
  \A c \in Clients :
    phase[c] \in {"unwinding", "reporting"}
    ~> phase[c] = "connecting" \/ stage # "running"

\* stop() returns if the reports that are still to be put find room.
Reporting == { c \in Clients : phase[c] \in {"unwinding", "reporting"} }

StopReturnsWithRoom ==
  stage = "stopping" /\ Len(queue) + Cardinality(Reporting) <= QueueSize
  ~> stage = "stopped"

\* run_forever goes on "until stop() is called" (base.py): once it has been,
\* every client ends and stop() returns.
StopReturns == stage = "stopping" ~> stage = "stopped"

=================================================================================
