----------------------------- MODULE TimescaleWriter -----------------------------
(***************************************************************************)
(* src/src/storage/timescale/writer.py, as scripts/run_pipeline.py runs    *)
(* it: the main task handles events, and flushes when a batch is full or   *)
(* the interval has passed; periodic_flush, a second task, flushes the     *)
(* same buffers.  flush suspends in the pool and in the driver, so the two *)
(* may be inside it at once.                                               *)
(*                                                                         *)
(* A buffer is a Python list that flush hands to the driver and afterwards *)
(* replaces by a new one: `lists` keeps every list object of a table, the  *)
(* last of them is the one the attribute refers to.  Time is left out: the *)
(* interval may have passed whenever the code asks.  An event is one row.  *)
(* A row stored twice counts once: ON CONFLICT drops the second copy of a  *)
(* trade, and a book row may be repeated.  The counter of flushes is left  *)
(* out.                                                                    *)
(***************************************************************************)
EXTENDS Naturals, Sequences, FiniteSets, SequencesExt

CONSTANTS MaxEvents,   \* bound: the events handled
          BatchSize,   \* batch_size
          Faults       \* the faults that may happen: a database error, the
                       \* cancellation of the main task

ASSUME WriterAssumption ==
  /\ MaxEvents \in Nat
  /\ BatchSize \in Nat \ {0}
  /\ Faults \subseteq {"database", "cancel"}

Tables == {"trades", "book_events"}
Tasks == {"main", "periodic"}

VARIABLES
  events,   \* events[n]: the table of the n-th event handled
  lists,    \* the list objects of each table, holding numbers of events
  task,     \* where each task stands in flush
  stored,   \* the events whose rows are in the database
  stats,    \* the counters trades_written and book_rows_written
  stage,    \* where the main task stands
  raced     \* auxiliary: two flushes wrote one table at once, or a row was
            \* appended to a list after the driver had read it

vars == <<events, lists, task, stored, stats, stage, raced>>

Numbers == 1..MaxEvents
Rows == Seq(Numbers)

\* Inside flush: waiting for a connection, in a driver call that has not read
\* its list yet, in one that has sent `rows`.
FlushStates ==
  [pc : {"idle", "acquire", "call", "sent", "ended"},
   table : Tables, list : Nat, rows : Rows]

Idle == [pc |-> "idle", table |-> "trades", list |-> 0, rows |-> <<>>]
At(pc) == [Idle EXCEPT !.pc = pc]

TypeOK ==
  /\ events \in Seq(Tables)
  /\ lists \in [Tables -> Seq(Rows)]
  /\ task \in [Tasks -> FlushStates]
  /\ stored \subseteq Numbers
  /\ stats \in [Tables -> Nat]
  /\ stage \in {"running", "joining", "final", "closing", "closed", "failed"}
  /\ raced \in BOOLEAN

Init ==
  /\ events = <<>>
  /\ lists = [table \in Tables |-> << <<>> >>]
  /\ task = [t \in Tasks |-> Idle]
  /\ stored = {}
  /\ stats = [table \in Tables |-> 0]
  /\ stage = "running"
  /\ raced = FALSE

Buffer(table) == Last(lists[table])

BuffersEmpty == \A table \in Tables : Buffer(table) = <<>>

------------------------------------------------------------------------------
(* flush. *)

\* Mutant: book events are written only when there are no trades.
NextCall_ElseIf(rest) ==
  LET table == IF Buffer("trades") # <<>> THEN "trades" ELSE "book_events"
  IN  IF rest = Tables /\ Buffer(table) # <<>>
      THEN [pc |-> "call", table |-> table,
            list |-> Len(lists[table]), rows |-> <<>>]
      ELSE Idle

\* The driver call that is due, the first of the tables in `rest` whose buffer
\* holds rows: executemany comes before copy_records_to_table.
NextCall(rest) ==
  LET Calls(table) == table \in rest /\ Buffer(table) # <<>>
      Call(table) == [pc |-> "call", table |-> table,
                      list |-> Len(lists[table]), rows |-> <<>>]
  IN  IF Calls("trades") THEN Call("trades")
      ELSE IF Calls("book_events") THEN Call("book_events")
      ELSE Idle

Writes(t, table) == task[t].pc \in {"call", "sent"} /\ task[t].table = table

\* t takes the driver call c, or leaves flush: is another call on the table?
Overlaps(t, c) == c.pc = "call" /\ \E o \in Tasks \ {t} : Writes(o, c.table)

Acquired(t) ==
  /\ task[t].pc = "acquire"
  /\ task' = [task EXCEPT ![t] = NextCall(Tables)]
  /\ raced' = (raced \/ Overlaps(t, NextCall(Tables)))
  /\ UNCHANGED <<events, lists, stored, stats, stage>>

\* The driver encodes the rows that its list holds by now.
DriverReads(t) ==
  /\ task[t].pc = "call"
  /\ task' = [task EXCEPT ![t].pc = "sent",
                          ![t].rows = lists[task[t].table][task[t].list]]
  /\ UNCHANGED <<events, lists, stored, stats, stage, raced>>

\* The call returns: the attribute's list is counted and replaced, whichever
\* list the driver was given.
CallReturns(t) ==
  LET table == task[t].table
      next == IF table = "trades" THEN NextCall({"book_events"}) ELSE Idle
  IN  /\ task[t].pc = "sent"
      /\ stored' = stored \cup ToSet(task[t].rows)
      /\ stats' = [stats EXCEPT ![table] = @ + Len(Buffer(table))]
      /\ lists' = [lists EXCEPT ![table] = Append(@, <<>>)]
      /\ task' = [task EXCEPT ![t] = next]
      /\ raced' = (raced \/ Overlaps(t, next))
      /\ UNCHANGED <<events, stage>>

\* Mutant: the buffer is replaced whatever becomes of the call.
CutOff_Clears(t) ==
  /\ task[t].pc \in {"acquire", "call", "sent"}
  /\ lists' = [table \in Tables |-> Append(lists[table], <<>>)]
  /\ \/ stored' = stored
     \/ task[t].pc = "sent" /\ stored' = stored \cup ToSet(task[t].rows)

\* An exception leaves flush at an await.  Rows that were sent may have been
\* committed; the buffer keeps them.
CutOff(t) ==
  /\ task[t].pc \in {"acquire", "call", "sent"}
  /\ lists' = lists
  /\ \/ stored' = stored
     \/ task[t].pc = "sent" /\ stored' = stored \cup ToSet(task[t].rows)

\* The start of flush: nothing to do if both buffers are empty.
Flushing == IF BuffersEmpty THEN Idle ELSE At("acquire")

------------------------------------------------------------------------------
(* run and handle_event. *)

\* _maybe_flush after an append: the buffer of one table has grown.
ShouldFlush(table) == Len(Buffer(table)) + 1 >= BatchSize

\* Mutant: the row appended is not the event's.
HandleEvent_NextRow(table) ==
  /\ stage = "running"
  /\ task["main"].pc = "idle"
  /\ Len(events) < MaxEvents
  /\ events' = Append(events, table)
  /\ lists' = [lists EXCEPT ![table][Len(lists[table])] =
                 Append(@, Len(events) + 2)]
  /\ task' = [task EXCEPT !["main"] = At("acquire")]
  /\ UNCHANGED <<stored, stats, stage, raced>>

HandleEvent(table) ==
  /\ stage = "running"
  /\ task["main"].pc = "idle"
  /\ Len(events) < MaxEvents
  /\ events' = Append(events, table)
  /\ lists' = [lists EXCEPT ![table][Len(lists[table])] =
                 Append(@, Len(events) + 1)]
  /\ \/ task' = [task EXCEPT !["main"] = At("acquire")]
     \/ ~ShouldFlush(table) /\ task' = task
  /\ raced' = (raced \/ /\ task["periodic"].pc = "sent"
                        /\ task["periodic"].table = table)
  /\ UNCHANGED <<stored, stats, stage>>

\* Mutant: the timer looks at the trades only.
TimerFires_TradesOnly ==
  /\ stage = "running"
  /\ task["periodic"].pc = "idle"
  /\ Buffer("trades") # <<>>
  /\ task' = [task EXCEPT !["periodic"] = At("acquire")]
  /\ UNCHANGED <<events, lists, stored, stats, stage, raced>>

\* periodic_flush wakes.
TimerFires ==
  /\ stage = "running"
  /\ task["periodic"].pc = "idle"
  /\ ~BuffersEmpty
  /\ task' = [task EXCEPT !["periodic"] = At("acquire")]
  /\ UNCHANGED <<events, lists, stored, stats, stage, raced>>

\* A database error in periodic_flush ends that task, and nobody looks.
TimerDies ==
  /\ "database" \in Faults
  /\ stage = "running"
  /\ CutOff("periodic")
  /\ task' = [task EXCEPT !["periodic"] = At("ended")]
  /\ UNCHANGED <<events, stats, stage, raced>>

\* The main task is cancelled, or there are no more events.
Cancel ==
  /\ "cancel" \in Faults
  /\ stage = "running"
  /\ \/ task["main"].pc = "idle" /\ UNCHANGED <<lists, stored>>
     \/ CutOff("main")
  /\ stage' = "joining"
  /\ task' = [task EXCEPT !["main"] = Idle]
  /\ UNCHANGED <<events, stats, raced>>

\* A database error in a flush of the main task: run goes to its finally
\* clause, run_pipeline to its own, where close flushes again.
MainFails ==
  /\ "database" \in Faults
  /\ CutOff("main")
  /\ stage' = CASE stage = "running" -> "joining"
                [] stage = "final" -> "final"
                [] stage = "closing" -> "failed"
  /\ task' = [task EXCEPT !["main"] = Idle]
  /\ UNCHANGED <<events, stats, raced>>

\* The finally clause of run: periodic_flush is cancelled and awaited.
TimerCancelled ==
  /\ stage = "joining"
  /\ \/ task["periodic"].pc = "idle" /\ UNCHANGED <<lists, stored>>
     \/ CutOff("periodic")
  /\ task' = [task EXCEPT !["periodic"] = At("ended")]
  /\ UNCHANGED <<events, stats, stage, raced>>

FinalFlush ==
  /\ stage = "joining"
  /\ task["periodic"].pc = "ended"
  /\ stage' = "final"
  /\ task' = [task EXCEPT !["main"] = Flushing]
  /\ UNCHANGED <<events, lists, stored, stats, raced>>

\* close: flush once more, then close the pool.
CloseFlush ==
  /\ stage = "final"
  /\ task["main"].pc = "idle"
  /\ stage' = "closing"
  /\ task' = [task EXCEPT !["main"] = Flushing]
  /\ UNCHANGED <<events, lists, stored, stats, raced>>

ClosePool ==
  /\ stage = "closing"
  /\ task["main"].pc = "idle"
  /\ stage' = "closed"
  /\ UNCHANGED <<events, lists, task, stored, stats, raced>>

\* Once it is cancelled, periodic_flush does nothing but end.
Runs(t) == t = "main" \/ stage = "running"

FlushStep(t) == Runs(t) /\ (Acquired(t) \/ DriverReads(t) \/ CallReturns(t))

Next ==
  \/ \E table \in Tables : HandleEvent(table)
  \/ \E t \in Tasks : FlushStep(t)
  \/ TimerFires \/ TimerDies \/ Cancel \/ MainFails
  \/ TimerCancelled \/ FinalFlush \/ CloseFlush \/ ClosePool

Spec == Init /\ [][Next]_vars

\* The database answers and the timer fires; events, errors and
\* cancellations need not come.
Fairness ==
  /\ \A t \in Tasks : WF_vars(FlushStep(t))
  /\ WF_vars(TimerFires)
  /\ WF_vars(TimerCancelled \/ FinalFlush \/ CloseFlush \/ ClosePool)

FairSpec == Spec /\ Fairness

------------------------------------------------------------------------------
(* Properties. *)

Waits(n) == n \in DOMAIN events /\ n \in ToSet(Buffer(events[n]))

\* What batching promises: a row waits in a buffer until it is written.
BufferedOrStored == \A n \in DOMAIN events : n \in stored \/ Waits(n)

Handled(table) == { n \in DOMAIN events : events[n] = table }

\* Without a race no row is lost, whatever fails or is cancelled, and the
\* counters are the rows that have left the buffers: none is counted twice.
SerialFlushesLoseNothing ==
  ~raced =>
    /\ BufferedOrStored
    /\ \A table \in Tables :
         stats[table] + Len(Buffer(table)) = Cardinality(Handled(table))

\* A pipeline that closes its writer cleanly has every row in the database,
\* even if a flush before the last one failed or was cut off.
ClosedWriterStoredAll ==
  stage = "closed" /\ ~raced => \A n \in DOMAIN events : n \in stored

\* A row does not wait for the next event: the timer flushes it, or shutdown
\* does, unless a database error has ended the timer.
TimerFlushesRows ==
  \A n \in Numbers : Waits(n) ~> (~Waits(n) \/ task["periodic"].pc = "ended")

==================================================================================
