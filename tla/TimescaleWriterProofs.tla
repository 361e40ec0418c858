------------------------- MODULE TimescaleWriterProofs -------------------------
(***************************************************************************)
(* Theorems of TimescaleWriter, for any number of events, any batch size   *)
(* and any of the faults.                                                  *)
(***************************************************************************)
EXTENDS TimescaleWriter, FiniteSetTheorems, TLAPS

------------------------------------------------------------------------------
(* Lists, buffers and driver calls. *)

LEMMA LastList ==
  ASSUME NEW ls \in Seq(Rows), Len(ls) >= 1
  PROVE  Last(ls) = ls[Len(ls)] /\ Last(ls) \in Rows /\ Len(ls) \in 1..Len(ls)
<1>1. Len(ls) \in Nat /\ Len(ls) \in 1..Len(ls)
  OBVIOUS
<1> QED BY <1>1 DEF Last

\* A row is appended to the list that the attribute refers to.
LEMMA RowAdded ==
  ASSUME NEW ls \in Seq(Rows), Len(ls) >= 1, NEW n \in Numbers, NEW r,
         r = [ls EXCEPT ![Len(ls)] = Append(@, n)]
  PROVE  /\ r \in Seq(Rows) /\ Len(r) = Len(ls)
         /\ Last(r) = Append(Last(ls), n)
         /\ \A i \in 1..(Len(ls) - 1) : r[i] = ls[i]
<1>1. Len(ls) \in Nat /\ Len(ls) \in 1..Len(ls) /\ ls[Len(ls)] \in Rows
  BY LastList
<1>2. Append(ls[Len(ls)], n) \in Rows
  BY <1>1 DEF Rows
<1>3. r \in Seq(Rows) /\ Len(r) = Len(ls)
  BY <1>1, <1>2
<1>4. r[Len(ls)] = Append(ls[Len(ls)], n)
  BY <1>1
<1>5. \A i \in 1..(Len(ls) - 1) : r[i] = ls[i]
  BY <1>1
<1> QED BY <1>3, <1>4, <1>5 DEF Last

\* The attribute is given a new list.
LEMMA ListReplaced ==
  ASSUME NEW ls \in Seq(Rows), NEW r, r = Append(ls, <<>>)
  PROVE  /\ r \in Seq(Rows) /\ Len(ls) \in Nat /\ Len(r) = Len(ls) + 1
         /\ Last(r) = <<>>
         /\ \A i \in 1..Len(ls) : r[i] = ls[i]
<1>1. <<>> \in Rows
  BY DEF Rows
<1> QED BY <1>1 DEF Last

\* Every table has a list, and a driver call has one of its table.
ListInv ==
  /\ \A table \in Tables : Len(lists[table]) >= 1
  /\ \A t \in Tasks :
       task[t].pc \in {"call", "sent"} =>
         task[t].list \in 1..Len(lists[task[t].table])

\* What close relies on: the main task is the only one left once run has ended,
\* it is in flush only where it flushes, the trades have been written when the
\* book events are, and flush leaves nothing behind unless it fails.
StageInv ==
  /\ task["main"].pc # "idle" =>
       stage \in {"running", "final", "closing"} /\ task["main"].pc # "ended"
  /\ stage \notin {"running", "joining"} => task["periodic"].pc = "ended"
  /\ stage = "closing" /\ task["main"].pc = "idle" => BuffersEmpty
  /\ /\ stage = "closing"
     /\ task["main"].pc \in {"call", "sent"}
     /\ task["main"].table = "book_events"
     => Buffer("trades") = <<>>
  /\ stage = "closed" => BuffersEmpty

TypeInv == TypeOK /\ ListInv /\ StageInv

LEMMA BufferType ==
  ASSUME TypeInv, NEW table \in Tables
  PROVE  /\ lists[table] \in Seq(Rows) /\ Len(lists[table]) \in Nat \ {0}
         /\ Buffer(table) = lists[table][Len(lists[table])]
         /\ Buffer(table) \in Rows
<1>1. lists[table] \in Seq(Rows) /\ Len(lists[table]) >= 1
  BY DEF TypeInv, TypeOK, ListInv
<1>2. Len(lists[table]) \in Nat \ {0}
  BY <1>1
<1> QED BY <1>1, <1>2, LastList DEF Buffer

LEMMA TaskTypes ==
  /\ Idle \in FlushStates /\ Idle.pc = "idle"
  /\ At("acquire") \in FlushStates /\ At("acquire").pc = "acquire"
  /\ At("ended") \in FlushStates /\ At("ended").pc = "ended"
<1>1. <<>> \in Rows
  BY DEF Rows
<1>2. Idle \in FlushStates /\ Idle.pc = "idle"
  BY <1>1 DEF Idle, FlushStates, Tables
<1>3. ASSUME NEW pc \in {"acquire", "ended"}
      PROVE  At(pc) \in FlushStates /\ At(pc).pc = pc
  BY <1>1 DEF Idle, At, FlushStates, Tables
<1> QED BY <1>2, <1>3

\* The next driver call writes the first of the tables that has rows, from the
\* list that is its buffer; when there is none, nothing of `rest` is left.
LEMMA NextCallIs ==
  ASSUME TypeInv, NEW rest \in SUBSET Tables
  PROVE  LET c == NextCall(rest)
         IN  /\ c \in FlushStates
             /\ \/ /\ c.pc = "call" /\ c.table \in rest
                   /\ c.list = Len(lists[c.table])
                   /\ c.table = "book_events" /\ "trades" \in rest =>
                        Buffer("trades") = <<>>
                \/ /\ c.pc = "idle" /\ \A table \in rest : Buffer(table) = <<>>
<1> DEFINE Call(table) == [pc |-> "call", table |-> table,
                           list |-> Len(lists[table]), rows |-> <<>>]
<1>1. \A table \in Tables : Call(table) \in FlushStates
  BY BufferType DEF FlushStates, Rows
<1>2. CASE "trades" \in rest /\ Buffer("trades") # <<>>
  <2>1. NextCall(rest) = Call("trades") /\ "trades" \in Tables
    BY <1>2 DEF NextCall, Tables
  <2> QED BY <1>1, <1>2, <2>1
<1>3. CASE /\ ~("trades" \in rest /\ Buffer("trades") # <<>>)
           /\ "book_events" \in rest /\ Buffer("book_events") # <<>>
  <2>1. NextCall(rest) = Call("book_events") /\ "book_events" \in Tables
    BY <1>3 DEF NextCall, Tables
  <2> QED BY <1>1, <1>3, <2>1
<1>4. CASE /\ ~("trades" \in rest /\ Buffer("trades") # <<>>)
           /\ ~("book_events" \in rest /\ Buffer("book_events") # <<>>)
  <2>1. NextCall(rest) = Idle
    BY <1>4 DEF NextCall
  <2> QED BY <1>4, <2>1, TaskTypes DEF Tables
<1> QED BY <1>2, <1>3, <1>4

\* flush is entered, or has nothing to do.
LEMMA FlushingIs ==
  /\ Flushing \in FlushStates
  /\ \/ Flushing.pc = "acquire"
     \/ Flushing.pc = "idle" /\ BuffersEmpty
  BY TaskTypes DEF Flushing

------------------------------------------------------------------------------
(* Types and stages. *)

LEMMA TypeInit == Init => TypeInv
<1> SUFFICES ASSUME Init PROVE TypeInv
  OBVIOUS
<1>1. << <<>> >> \in Seq(Rows) /\ Len(<< <<>> >>) = 1
  BY DEF Rows
<1>2. events \in Seq(Tables)
  BY DEF Init
<1>3. stats \in [Tables -> Nat] /\ task \in [Tasks -> FlushStates]
      /\ lists \in [Tables -> Seq(Rows)]
  BY <1>1, TaskTypes DEF Init
<1>4. TypeOK
  BY <1>2, <1>3 DEF Init, TypeOK
<1>5. ListInv /\ StageInv
  BY <1>1, TaskTypes DEF Init, ListInv, StageInv, Tasks
<1> QED BY <1>4, <1>5 DEF TypeInv

\* A task keeps its driver call, has none, or has one of a list there is.
LEMMA ListStep ==
  ASSUME TypeInv, lists' \in [Tables -> Seq(Rows)],
         \A table \in Tables : Len(lists'[table]) >= Len(lists[table]),
         \A t \in Tasks :
           \/ task'[t].pc \notin {"call", "sent"}
           \/ /\ task[t].pc \in {"call", "sent"}
              /\ task'[t].table = task[t].table /\ task'[t].list = task[t].list
           \/ /\ task'[t].table \in Tables
              /\ task'[t].list = Len(lists[task'[t].table])
  PROVE  ListInv'
<1>1. \A table \in Tables :
        /\ Len(lists'[table]) \in Nat /\ Len(lists[table]) \in Nat
        /\ Len(lists[table]) >= 1 /\ Len(lists'[table]) >= Len(lists[table])
  BY DEF TypeInv, TypeOK, ListInv
<1>2. \A t \in Tasks : task[t].table \in Tables
  BY DEF TypeInv, TypeOK, FlushStates
<1>3. ASSUME NEW t \in Tasks, task'[t].pc \in {"call", "sent"}
      PROVE  task'[t].list \in 1..Len(lists'[task'[t].table])
  <2>1. CASE /\ task[t].pc \in {"call", "sent"}
             /\ task'[t].table = task[t].table /\ task'[t].list = task[t].list
    <3>1. task[t].list \in 1..Len(lists[task[t].table])
      BY <2>1 DEF TypeInv, ListInv
    <3> QED BY <1>1, <1>2, <2>1, <3>1
  <2>2. CASE /\ task'[t].table \in Tables
             /\ task'[t].list = Len(lists[task'[t].table])
    BY <1>1, <2>2
  <2> QED BY <1>3, <2>1, <2>2
<1> QED BY <1>1, <1>3 DEF ListInv

\* What TypeInv says of the tasks.
LEMMA TasksType ==
  ASSUME TypeInv
  PROVE  /\ task \in [Tasks -> FlushStates]
         /\ \A t \in Tasks : /\ task[t].table \in Tables /\ task[t].list \in Nat
                             /\ task[t].rows \in Rows
                             /\ task[t].pc \in {"idle", "acquire", "call", "sent", "ended"}
         /\ Tasks = {"main", "periodic"} /\ Tables = {"trades", "book_events"}
  BY DEF TypeInv, TypeOK, FlushStates, Tasks, Tables

LEMMA AcquiredType ==
  ASSUME TypeInv, NEW t \in Tasks, Runs(t), Acquired(t)
  PROVE  TypeInv'
<1> DEFINE c == NextCall(Tables)
<1>1. /\ c \in FlushStates
      /\ \/ /\ c.pc = "call" /\ c.table \in Tables
            /\ c.list = Len(lists[c.table])
            /\ c.table = "book_events" => Buffer("trades") = <<>>
         \/ c.pc = "idle" /\ BuffersEmpty
  BY NextCallIs DEF Tables, BuffersEmpty
<1>2. task' = [task EXCEPT ![t] = c] /\ lists' = lists /\ stage' = stage
  BY DEF Acquired
<1> HIDE DEF c
<1>3. TypeOK'
  <2>1. raced' \in BOOLEAN
    BY DEF Acquired, Overlaps, TypeInv, TypeOK
  <2> QED BY <1>1, <1>2, <2>1 DEF Acquired, TypeInv, TypeOK
<1>4. ListInv'
  <2>1. \A o \in Tasks : o # t => task'[o] = task[o]
    BY <1>2, TasksType
  <2>2. task'[t] = c
    BY <1>2, TasksType
  <2>3. /\ lists' \in [Tables -> Seq(Rows)]
        /\ \A table \in Tables : Len(lists'[table]) >= Len(lists[table])
    BY <1>2, BufferType DEF TypeInv, TypeOK
  <2>4. \A o \in Tasks :
          \/ task'[o].pc \notin {"call", "sent"}
          \/ /\ task[o].pc \in {"call", "sent"}
             /\ task'[o].table = task[o].table /\ task'[o].list = task[o].list
          \/ /\ task'[o].table \in Tables
             /\ task'[o].list = Len(lists[task'[o].table])
    BY <1>1, <2>1, <2>2
  <2> QED BY <2>3, <2>4, ListStep
<1>5. StageInv'
  <2>1. BuffersEmpty' = BuffersEmpty /\ Buffer("trades")' = Buffer("trades")
    BY <1>2 DEF BuffersEmpty, Buffer
  <2>2. CASE t = "main"
    BY <1>1, <1>2, <2>1, <2>2, TasksType DEF StageInv, TypeInv, Acquired
  <2>3. CASE t = "periodic"
    BY <1>1, <1>2, <2>1, <2>3, TasksType DEF StageInv, TypeInv, Acquired, Runs
  <2> QED BY <2>2, <2>3, TasksType
<1> QED BY <1>3, <1>4, <1>5 DEF TypeInv

LEMMA DriverReadsType ==
  ASSUME TypeInv, NEW t \in Tasks, Runs(t), DriverReads(t)
  PROVE  TypeInv'
<1> DEFINE rows == lists[task[t].table][task[t].list]
<1>1. rows \in Rows
  <2>1. task[t].list \in 1..Len(lists[task[t].table]) /\ task[t].table \in Tables
    BY TasksType DEF DriverReads, TypeInv, ListInv
  <2>2. lists[task[t].table] \in Seq(Rows)
    BY <2>1, BufferType
  <2> QED BY <2>1, <2>2
<1>2. /\ task' = [task EXCEPT ![t].pc = "sent", ![t].rows = rows]
      /\ lists' = lists /\ stage' = stage /\ task[t].pc = "call"
  BY DEF DriverReads
<1> HIDE DEF rows
<1>3. /\ task'[t].pc = "sent" /\ task'[t].table = task[t].table
      /\ task'[t].list = task[t].list
      /\ task' \in [Tasks -> FlushStates]
      /\ \A o \in Tasks : o # t => task'[o] = task[o]
  <2> DEFINE c == [task[t] EXCEPT !.pc = "sent", !.rows = rows]
  <2>1. task[t] \in FlushStates
    BY TasksType
  <2>2. /\ c \in FlushStates /\ c.pc = "sent" /\ c.table = task[t].table
        /\ c.list = task[t].list
    BY <1>1, <2>1 DEF FlushStates
  <2>3. task' = [task EXCEPT ![t] = c]
    BY <1>2, <2>1, TasksType
  <2> HIDE DEF c
  <2> QED BY <2>2, <2>3, TasksType
<1>4. TypeOK'
  BY <1>2, <1>3 DEF DriverReads, TypeInv, TypeOK
<1>5. ListInv'
  <2>1. /\ lists' \in [Tables -> Seq(Rows)]
        /\ \A table \in Tables : Len(lists'[table]) >= Len(lists[table])
    BY <1>2, BufferType DEF TypeInv, TypeOK
  <2>2. \A o \in Tasks :
          \/ task'[o].pc \notin {"call", "sent"}
          \/ /\ task[o].pc \in {"call", "sent"}
             /\ task'[o].table = task[o].table /\ task'[o].list = task[o].list
    BY <1>2, <1>3
  <2> QED BY <2>1, <2>2, ListStep
<1>6. StageInv'
  <2>1. BuffersEmpty' = BuffersEmpty /\ Buffer("trades")' = Buffer("trades")
    BY <1>2 DEF BuffersEmpty, Buffer
  <2>2. CASE t = "main"
    BY <1>2, <1>3, <2>1, <2>2, TasksType DEF StageInv, TypeInv
  <2>3. CASE t = "periodic"
    BY <1>2, <1>3, <2>1, <2>3, TasksType DEF StageInv, TypeInv, Runs
  <2> QED BY <2>2, <2>3, TasksType
<1> QED BY <1>4, <1>5, <1>6 DEF TypeInv

\* The call that follows and the buffers after a call has returned.
LEMMA CallReturnsIs ==
  ASSUME TypeInv, NEW t \in Tasks, CallReturns(t)
  PROVE  LET table == task[t].table
             c == task'[t]
         IN  /\ table \in Tables
             /\ lists' \in [Tables -> Seq(Rows)]
             /\ Len(lists'[table]) = Len(lists[table]) + 1
             /\ Last(lists'[table]) = <<>>
             /\ \A other \in Tables \ {table} : lists'[other] = lists[other]
             /\ task' = [task EXCEPT ![t] = c] /\ c \in FlushStates
             /\ raced' = (raced \/ Overlaps(t, c))
             /\ \/ /\ c.pc = "call" /\ c.table = "book_events" /\ table = "trades"
                   /\ c.list = Len(lists["book_events"])
                \/ /\ c.pc = "idle"
                   /\ table = "trades" => Buffer("book_events") = <<>>
<1> DEFINE table == task[t].table
           next == IF table = "trades" THEN NextCall({"book_events"}) ELSE Idle
<1>1. table \in Tables /\ "book_events" \in Tables
  BY TasksType
<1>2. /\ lists' = [lists EXCEPT ![table] = Append(@, <<>>)]
      /\ task' = [task EXCEPT ![t] = next]
      /\ raced' = (raced \/ Overlaps(t, next))
  BY DEF CallReturns
<1>3. /\ next \in FlushStates
      /\ \/ /\ next.pc = "call" /\ next.table = "book_events" /\ table = "trades"
            /\ next.list = Len(lists["book_events"])
         \/ /\ next.pc = "idle"
            /\ table = "trades" => Buffer("book_events") = <<>>
  <2>1. CASE table = "trades"
    <3>1. {"book_events"} \in SUBSET Tables /\ next = NextCall({"book_events"})
      BY <1>1, <2>1
    <3> QED BY <2>1, <3>1, NextCallIs
  <2>2. CASE table # "trades"
    BY <2>2, TaskTypes
  <2> QED BY <2>1, <2>2
<1>4. task'[t] = next
  BY <1>2, TasksType
<1>5. /\ lists' \in [Tables -> Seq(Rows)]
      /\ Len(lists'[table]) = Len(lists[table]) + 1
      /\ Last(lists'[table]) = <<>>
      /\ \A other \in Tables \ {table} : lists'[other] = lists[other]
  <2> HIDE DEF table, next
  <2>1. lists \in [Tables -> Seq(Rows)]
    BY DEF TypeInv, TypeOK
  <2>2. lists'[table] = Append(lists[table], <<>>)
    BY <1>1, <1>2, <2>1
  <2>3. /\ lists'[table] \in Seq(Rows) /\ Len(lists'[table]) = Len(lists[table]) + 1
        /\ Last(lists'[table]) = <<>>
    BY <1>1, <2>1, <2>2, ListReplaced
  <2> QED BY <1>1, <1>2, <2>1, <2>3
<1> HIDE DEF next
<1> QED BY <1>1, <1>2, <1>3, <1>4, <1>5

LEMMA CallReturnsType ==
  ASSUME TypeInv, NEW t \in Tasks, Runs(t), CallReturns(t)
  PROVE  TypeInv'
<1> DEFINE table == task[t].table
           c == task'[t]
<1>1. /\ table \in Tables
      /\ lists' \in [Tables -> Seq(Rows)]
      /\ Len(lists'[table]) = Len(lists[table]) + 1
      /\ Last(lists'[table]) = <<>>
      /\ \A other \in Tables \ {table} : lists'[other] = lists[other]
      /\ task' = [task EXCEPT ![t] = c] /\ c \in FlushStates
      /\ \/ /\ c.pc = "call" /\ c.table = "book_events" /\ table = "trades"
            /\ c.list = Len(lists["book_events"])
         \/ /\ c.pc = "idle"
            /\ table = "trades" => Buffer("book_events") = <<>>
  BY CallReturnsIs
<1>2. task[t].pc = "sent" /\ stage' = stage
  BY DEF CallReturns
<1>3. TypeOK'
  <2>1. stored' \subseteq Numbers
    <3>1. task[t].rows \in Seq(Numbers)
      BY TasksType DEF Rows
    <3>2. ToSet(task[t].rows) \subseteq Numbers
      BY <3>1 DEF ToSet
    <3> QED BY <3>2 DEF CallReturns, TypeInv, TypeOK
  <2>2. stats' \in [Tables -> Nat]
    <3>1. Len(Buffer(table)) \in Nat
      BY <1>1, BufferType DEF Rows
    <3>2. stats' = [stats EXCEPT ![table] = @ + Len(Buffer(table))]
      BY DEF CallReturns
    <3> QED BY <1>1, <3>1, <3>2 DEF TypeInv, TypeOK
  <2>3. task' \in [Tasks -> FlushStates]
    BY <1>1, TasksType
  <2>4. raced' \in BOOLEAN
    BY DEF CallReturns, Overlaps, TypeInv, TypeOK
  <2> QED BY <1>1, <2>1, <2>2, <2>3, <2>4 DEF CallReturns, TypeInv, TypeOK
<1> HIDE DEF c
<1>4. ListInv'
  <2>1. \A o \in Tasks : o # t => task'[o] = task[o]
    BY <1>1, TasksType
  <2>2. \A other \in Tables :
          /\ Len(lists[other]) \in Nat
          /\ Len(lists'[other]) >= Len(lists[other])
    BY <1>1, BufferType
  <2>3. task'[t] = c /\ "book_events" \in Tables
    BY <1>1, TasksType
  <2>4. \A o \in Tasks :
          \/ task'[o].pc \notin {"call", "sent"}
          \/ /\ task[o].pc \in {"call", "sent"}
             /\ task'[o].table = task[o].table /\ task'[o].list = task[o].list
          \/ /\ task'[o].table \in Tables
             /\ task'[o].list = Len(lists[task'[o].table])
    BY <1>1, <2>1, <2>3
  <2> QED BY <1>1, <2>2, <2>4, ListStep
<1>5. StageInv'
  <2>1. CASE t = "main"
    <3>1. /\ task'["main"] = c /\ task'["periodic"] = task["periodic"]
      BY <1>1, <2>1, TasksType
    <3>2. ASSUME stage = "closing", c.pc = "idle"
          PROVE  \A other \in Tables : Last(lists'[other]) = <<>>
      <4>1. CASE table = "trades"
        BY <1>1, <3>2, <4>1, TasksType DEF Buffer
      <4>2. CASE table = "book_events"
        <5>1. Buffer("trades") = <<>>
          BY <1>2, <2>1, <3>2, <4>2 DEF TypeInv, StageInv
        <5> QED BY <1>1, <4>2, <5>1, TasksType DEF Buffer
      <4> QED BY <1>1, <4>1, <4>2, TasksType
    <3>3. ASSUME c.pc # "idle" PROVE Last(lists'["trades"]) = <<>>
      BY <1>1, <3>3
    <3>4. stage # "closed" /\ stage \in {"running", "final", "closing"}
      BY <1>2, <2>1 DEF TypeInv, StageInv
    <3> QED BY <1>1, <1>2, <3>1, <3>2, <3>3, <3>4 DEF TypeInv, StageInv, BuffersEmpty, Buffer
  <2>2. CASE t = "periodic"
    <3>1. stage = "running" /\ task'["main"] = task["main"]
      BY <1>1, <2>2, TasksType DEF Runs
    <3> QED BY <1>2, <3>1 DEF TypeInv, StageInv
  <2> QED BY <2>1, <2>2, TasksType
<1> QED BY <1>3, <1>4, <1>5 DEF TypeInv

\* A task enters flush or leaves it; the lists stay what they are.
LEMMA EnterOrLeave ==
  ASSUME TypeInv, NEW t \in Tasks, NEW c \in FlushStates,
         c.pc \notin {"call", "sent"},
         lists' = lists, task' = [task EXCEPT ![t] = c]
  PROVE  /\ ListInv' /\ task' \in [Tasks -> FlushStates] /\ task'[t] = c
         /\ \A o \in Tasks : o # t => task'[o] = task[o]
         /\ BuffersEmpty' <=> BuffersEmpty
         /\ Last(lists'["trades"]) = Buffer("trades")
<1>1. /\ task' \in [Tasks -> FlushStates] /\ task'[t] = c
      /\ \A o \in Tasks : o # t => task'[o] = task[o]
  BY TasksType
<1>2. /\ lists' \in [Tables -> Seq(Rows)]
      /\ \A table \in Tables : Len(lists'[table]) >= Len(lists[table])
  BY BufferType DEF TypeInv, TypeOK
<1>3. \A o \in Tasks :
        \/ task'[o].pc \notin {"call", "sent"}
        \/ /\ task[o].pc \in {"call", "sent"}
           /\ task'[o].table = task[o].table /\ task'[o].list = task[o].list
  BY <1>1
<1>4. ListInv'
  BY <1>2, <1>3, ListStep
<1>5. (BuffersEmpty' <=> BuffersEmpty) /\ Last(lists'["trades"]) = Buffer("trades")
  BY DEF BuffersEmpty, Buffer
<1> QED BY <1>1, <1>4, <1>5

\* A call that is cut off has committed its rows or has not.
LEMMA CutOffType ==
  ASSUME TypeInv, NEW t \in Tasks, CutOff(t)
  PROVE  lists' = lists /\ stored \subseteq stored' /\ stored' \subseteq Numbers
<1>1. task[t].rows \in Seq(Numbers) /\ stored \subseteq Numbers
  BY TasksType DEF Rows, TypeInv, TypeOK
<1>2. ToSet(task[t].rows) \subseteq Numbers
  BY <1>1 DEF ToSet
<1> QED BY <1>1, <1>2 DEF CutOff

\* The row of an event joins the buffer of its table.
LEMMA HandleEventIs ==
  ASSUME TypeInv, NEW table \in Tables, HandleEvent(table)
  PROVE  /\ events \in Seq(Tables) /\ Len(events) \in Nat /\ Len(events) + 1 \in Numbers
         /\ events' = Append(events, table)
         /\ lists' \in [Tables -> Seq(Rows)]
         /\ Last(lists'[table]) = Append(Buffer(table), Len(events) + 1)
         /\ \A other \in Tables : Len(lists'[other]) = Len(lists[other])
         /\ \A other \in Tables \ {table} : lists'[other] = lists[other]
         /\ stage = "running" /\ stage' = stage
         /\ task["main"].pc = "idle" /\ task'["main"].pc \in {"idle", "acquire"}
         /\ task' \in [Tasks -> FlushStates]
         /\ task'["periodic"] = task["periodic"]
<1>1. events \in Seq(Tables) /\ Len(events) \in Nat /\ Len(events) + 1 \in Numbers
  <2>1. events \in Seq(Tables) /\ Len(events) < MaxEvents /\ MaxEvents \in Nat
    BY WriterAssumption DEF HandleEvent, TypeInv, TypeOK
  <2> QED BY <2>1 DEF Numbers
<1>2. lists \in [Tables -> Seq(Rows)] /\ Len(lists[table]) >= 1
  BY DEF TypeInv, TypeOK, ListInv
<1> DEFINE r == [lists[table] EXCEPT ![Len(lists[table])] = Append(@, Len(events) + 1)]
<1>3. lists' = [lists EXCEPT ![table] = r]
  BY <1>2 DEF HandleEvent
<1>4. /\ r \in Seq(Rows) /\ Len(r) = Len(lists[table])
      /\ Last(r) = Append(Last(lists[table]), Len(events) + 1)
  <2>1. lists[table] \in Seq(Rows)
    BY <1>2
  <2>2. r = [lists[table] EXCEPT ![Len(lists[table])] = Append(@, Len(events) + 1)]
    OBVIOUS
  <2>3. Len(lists[table]) >= 1 /\ Len(events) + 1 \in Numbers
    BY <1>1, <1>2
  <2> DEFINE ls == lists[table]
             n == Len(events) + 1
  <2> HIDE DEF r, ls, n
  <2>4. ls \in Seq(Rows) /\ Len(ls) >= 1 /\ n \in Numbers
        /\ r = [ls EXCEPT ![Len(ls)] = Append(@, n)]
    BY <2>1, <2>2, <2>3 DEF ls, n
  <2>5. r \in Seq(Rows) /\ Len(r) = Len(ls) /\ Last(r) = Append(Last(ls), n)
    BY <2>4, RowAdded
  <2> QED BY <2>5 DEF ls, n
<1> HIDE DEF r
<1>5. /\ lists' \in [Tables -> Seq(Rows)] /\ lists'[table] = r
      /\ \A other \in Tables \ {table} : lists'[other] = lists[other]
  BY <1>2, <1>3, <1>4
<1>6. \A other \in Tables : Len(lists'[other]) = Len(lists[other])
  BY <1>4, <1>5
<1>7. /\ task["main"].pc = "idle" /\ task'["main"].pc \in {"idle", "acquire"}
      /\ task' \in [Tasks -> FlushStates]
      /\ task'["periodic"] = task["periodic"]
  <2>1. task' = [task EXCEPT !["main"] = At("acquire")] \/ task' = task
    BY DEF HandleEvent
  <2>2. task["main"].pc = "idle"
    BY DEF HandleEvent
  <2> QED BY <2>1, <2>2, TasksType, TaskTypes
<1> QED BY <1>1, <1>4, <1>5, <1>6, <1>7 DEF HandleEvent, Buffer

LEMMA HandleEventType ==
  ASSUME TypeInv, NEW table \in Tables, HandleEvent(table)
  PROVE  TypeInv'
<1>1. /\ events \in Seq(Tables) /\ events' = Append(events, table)
      /\ lists' \in [Tables -> Seq(Rows)]
      /\ \A other \in Tables : Len(lists'[other]) = Len(lists[other])
      /\ stage = "running" /\ stage' = stage
      /\ task["main"].pc = "idle" /\ task'["main"].pc \in {"idle", "acquire"}
      /\ task' \in [Tasks -> FlushStates]
      /\ task'["periodic"] = task["periodic"]
  BY HandleEventIs
<1>2. TypeOK'
  <2>1. events' \in Seq(Tables)
    BY <1>1
  <2>2. raced' \in BOOLEAN
    BY DEF HandleEvent, TypeInv, TypeOK
  <2> QED BY <1>1, <2>1, <2>2 DEF HandleEvent, TypeInv, TypeOK
<1>3. ListInv'
  <2>1. \A other \in Tables : Len(lists'[other]) >= Len(lists[other])
    BY <1>1, BufferType
  <2>2. \A o \in Tasks :
          \/ task'[o].pc \notin {"call", "sent"}
          \/ /\ task[o].pc \in {"call", "sent"}
             /\ task'[o].table = task[o].table /\ task'[o].list = task[o].list
    BY <1>1, TasksType
  <2> QED BY <1>1, <2>1, <2>2, ListStep
<1>4. StageInv'
  BY <1>1, TasksType DEF StageInv
<1> QED BY <1>2, <1>3, <1>4 DEF TypeInv

LEMMA TypeStep == TypeInv /\ [Next]_vars => TypeInv'
<1> SUFFICES ASSUME TypeInv, [Next]_vars PROVE TypeInv'
  OBVIOUS
<1> USE TaskTypes
<1>1. "main" \in Tasks /\ "periodic" \in Tasks
  BY DEF Tasks
<1>2. CASE \E table \in Tables : HandleEvent(table)
  BY <1>2, HandleEventType
<1>3. CASE \E t \in Tasks : FlushStep(t)
  BY <1>3, AcquiredType, DriverReadsType, CallReturnsType DEF FlushStep
<1>4. CASE TimerFires
  <2>1. /\ ListInv' /\ task' \in [Tasks -> FlushStates]
        /\ task'["main"] = task["main"] /\ stage = "running" /\ stage' = stage
    BY <1>1, <1>4, EnterOrLeave DEF TimerFires
  <2>2. TypeOK'
    BY <1>4, <2>1 DEF TimerFires, TypeInv, TypeOK
  <2>3. StageInv'
    BY <2>1 DEF StageInv, TypeInv
  <2> QED BY <2>1, <2>2, <2>3 DEF TypeInv
<1>5. CASE TimerDies
  <2>1. lists' = lists /\ stored' \subseteq Numbers
    BY <1>1, <1>5, CutOffType DEF TimerDies
  <2>2. /\ ListInv' /\ task' \in [Tasks -> FlushStates]
        /\ task'["main"] = task["main"] /\ stage = "running" /\ stage' = stage
    BY <1>1, <1>5, <2>1, EnterOrLeave DEF TimerDies
  <2>3. TypeOK'
    BY <1>5, <2>1, <2>2 DEF TimerDies, TypeInv, TypeOK
  <2>4. StageInv'
    BY <2>2 DEF StageInv, TypeInv
  <2> QED BY <2>2, <2>3, <2>4 DEF TypeInv
<1>6. CASE Cancel
  <2>1. lists' = lists /\ stored' \subseteq Numbers
    BY <1>1, <1>6, CutOffType DEF Cancel, TypeInv, TypeOK
  <2>2. /\ ListInv' /\ task' \in [Tasks -> FlushStates]
        /\ task'["main"] = Idle /\ stage' = "joining"
    BY <1>1, <1>6, <2>1, EnterOrLeave DEF Cancel
  <2>3. TypeOK'
    BY <1>6, <2>1, <2>2 DEF Cancel, TypeInv, TypeOK
  <2>4. StageInv'
    BY <2>2 DEF StageInv
  <2> QED BY <2>2, <2>3, <2>4 DEF TypeInv
<1>7. CASE MainFails
  <2>1. lists' = lists /\ stored' \subseteq Numbers
    BY <1>1, <1>7, CutOffType DEF MainFails
  <2>2. /\ ListInv' /\ task' \in [Tasks -> FlushStates]
        /\ task'["main"] = Idle /\ task'["periodic"] = task["periodic"]
    BY <1>1, <1>7, <2>1, EnterOrLeave DEF MainFails
  <2>3. task["main"].pc # "idle"
    BY <1>7 DEF MainFails, CutOff
  <2>4. \/ stage = "running" /\ stage' = "joining"
        \/ stage = "final" /\ stage' = "final"
        \/ stage = "closing" /\ stage' = "failed"
    BY <1>7, <2>3 DEF MainFails, TypeInv, StageInv
  <2>5. TypeOK'
    BY <1>7, <2>1, <2>2, <2>4 DEF MainFails, TypeInv, TypeOK
  <2>6. StageInv'
    BY <2>2, <2>4 DEF StageInv, TypeInv
  <2> QED BY <2>2, <2>5, <2>6 DEF TypeInv
<1>8. CASE TimerCancelled
  <2>1. lists' = lists /\ stored' \subseteq Numbers
    BY <1>1, <1>8, CutOffType DEF TimerCancelled, TypeInv, TypeOK
  <2>2. /\ ListInv' /\ task' \in [Tasks -> FlushStates]
        /\ task'["main"] = task["main"] /\ stage = "joining" /\ stage' = stage
    BY <1>1, <1>8, <2>1, EnterOrLeave DEF TimerCancelled
  <2>3. TypeOK'
    BY <1>8, <2>1, <2>2 DEF TimerCancelled, TypeInv, TypeOK
  <2>4. StageInv'
    BY <2>2 DEF StageInv, TypeInv
  <2> QED BY <2>2, <2>3, <2>4 DEF TypeInv
<1>9. CASE FinalFlush \/ CloseFlush
  <2>1. Flushing \in FlushStates /\ Flushing.pc \notin {"call", "sent"}
    BY FlushingIs
  <2>2. task' = [task EXCEPT !["main"] = Flushing] /\ lists' = lists
    BY <1>9 DEF FinalFlush, CloseFlush
  <2>3. /\ ListInv' /\ task' \in [Tasks -> FlushStates]
        /\ task'["main"] = Flushing /\ task'["periodic"] = task["periodic"]
        /\ BuffersEmpty' <=> BuffersEmpty
    BY <1>1, <2>1, <2>2, EnterOrLeave
  <2>4. /\ task["periodic"].pc = "ended"
        /\ \/ stage = "joining" /\ stage' = "final"
           \/ stage = "final" /\ stage' = "closing"
    BY <1>9 DEF FinalFlush, CloseFlush, TypeInv, StageInv
  <2>5. TypeOK'
    BY <1>9, <2>3, <2>4 DEF FinalFlush, CloseFlush, TypeInv, TypeOK
  <2>6. StageInv'
    BY <2>1, <2>3, <2>4, FlushingIs DEF StageInv
  <2> QED BY <2>3, <2>5, <2>6 DEF TypeInv
<1>10. CASE ClosePool
  <2>1. BuffersEmpty' <=> BuffersEmpty
    BY <1>10 DEF ClosePool, BuffersEmpty, Buffer
  <2>2. StageInv'
    BY <1>10, <2>1 DEF ClosePool, StageInv, TypeInv
  <2> QED BY <1>10, <2>2 DEF ClosePool, TypeInv, TypeOK, ListInv
<1>11. CASE UNCHANGED vars
  <2>1. (BuffersEmpty' <=> BuffersEmpty) /\ Last(lists'["trades"]) = Buffer("trades")
    BY <1>11 DEF vars, BuffersEmpty, Buffer
  <2>2. StageInv'
    BY <1>11, <2>1 DEF vars, StageInv, TypeInv, Buffer
  <2> QED BY <1>11, <2>2 DEF vars, TypeInv, TypeOK, ListInv
<1> QED
  BY <1>2, <1>3, <1>4, <1>5, <1>6, <1>7, <1>8, <1>9, <1>10, <1>11 DEF Next

\* Every variable keeps its type: in particular the driver is never given a list
\* that the writer does not have, and the stages follow one another as run and
\* close have them.
THEOREM TypeCorrect == Spec => []TypeOK
<1>1. TypeInv => TypeOK
  BY DEF TypeInv
<1> QED BY <1>1, TypeInit, TypeStep, PTL DEF Spec

------------------------------------------------------------------------------
(* Nothing is lost. *)

\* Whatever happens, a row that has left its buffer has been counted once.
CountersInv ==
  \A table \in Tables :
    stats[table] + Len(Buffer(table)) = Cardinality(Handled(table))

\* Without a race a driver call has the list that is the buffer, alone, and what
\* it has sent is still what the buffer holds: so what is counted, stored and
\* dropped when it returns is the same.
CallsInv ==
  \A t \in Tasks : \A table \in Tables : Writes(t, table) =>
    /\ task[t].list = Len(lists[table])
    /\ \A o \in Tasks \ {t} : ~Writes(o, table)
    /\ task[t].pc = "sent" => task[t].rows = Buffer(table)

SerialInv == CountersInv /\ (~raced => BufferedOrStored /\ CallsInv)

\* Handled of any events.
HandledOf(evs, table) == { n \in DOMAIN evs : evs[n] = table }

LEMMA HandledFinite ==
  ASSUME NEW evs \in Seq(Tables), NEW table
  PROVE  IsFiniteSet(HandledOf(evs, table))
<1>1. IsFiniteSet(1..Len(evs)) /\ DOMAIN evs = 1..Len(evs)
  BY FS_Interval
<1>2. HandledOf(evs, table) \subseteq 1..Len(evs)
  BY <1>1 DEF HandledOf
<1> QED BY <1>1, <1>2, FS_Subset

\* One more event of its table, and none of the other.
LEMMA HandledAppend ==
  ASSUME NEW evs \in Seq(Tables), NEW new \in Tables, NEW table \in Tables
  PROVE  LET H(es) == HandledOf(es, table)
         IN  /\ table = new =>
                  Cardinality(H(Append(evs, new))) = Cardinality(H(evs)) + 1
             /\ table # new => H(Append(evs, new)) = H(evs)
             /\ Cardinality(H(evs)) \in Nat
<1> DEFINE H(es) == HandledOf(es, table)
           r == Append(evs, new)
<1>1. /\ DOMAIN r = 1..(Len(evs) + 1) /\ DOMAIN evs = 1..Len(evs) /\ Len(evs) \in Nat
      /\ r[Len(evs) + 1] = new /\ \A n \in 1..Len(evs) : r[n] = evs[n]
  OBVIOUS
<1> HIDE DEF r
<1>2. CASE table = new
  <2>1. H(r) = H(evs) \cup {Len(evs) + 1} /\ Len(evs) + 1 \notin H(evs)
    BY <1>1, <1>2 DEF HandledOf
  <2>2. IsFiniteSet(H(evs))
    BY HandledFinite
  <2> HIDE DEF H
  <2>3. Cardinality(H(r)) = Cardinality(H(evs)) + 1
    BY <2>1, <2>2, FS_AddElement
  <2>4. Cardinality(H(evs)) \in Nat
    BY <2>2, FS_CardinalityType
  <2> QED BY <1>2, <2>3, <2>4 DEF H, r
<1>3. CASE table # new
  <2>1. H(r) = H(evs)
    BY <1>1, <1>3 DEF HandledOf
  <2>2. IsFiniteSet(H(evs))
    BY HandledFinite
  <2> HIDE DEF H
  <2>3. Cardinality(H(evs)) \in Nat
    BY <2>2, FS_CardinalityType
  <2> QED BY <1>3, <2>1, <2>3 DEF H, r
<1> QED BY <1>2, <1>3

LEMMA SerialInit == Init => SerialInv
<1> SUFFICES ASSUME Init PROVE SerialInv
  OBVIOUS
<1>1. \A table \in Tables : Buffer(table) = <<>> /\ stats[table] = 0
  BY DEF Init, Buffer, Last
<1>2. \A table : Handled(table) = {}
  BY DEF Init, Handled
<1>3. CountersInv
  <2>1. Cardinality({}) = 0
    BY FS_EmptySet
  <2> QED BY <1>1, <1>2, <2>1 DEF CountersInv
<1>4. BufferedOrStored
  BY DEF Init, BufferedOrStored
<1>5. CallsInv
  BY TaskTypes DEF Init, CallsInv, Writes
<1> QED BY <1>3, <1>4, <1>5 DEF SerialInv

\* Steps that take no event and give the buffers no new list.
LEMMA SerialKept ==
  ASSUME TypeInv, SerialInv,
         events' = events, lists' = lists, stats' = stats, raced' = raced,
         stored \subseteq stored',
         \A t \in Tasks : task'[t] = task[t] \/ task'[t].pc \notin {"call", "sent"}
  PROVE  SerialInv'
<1>1. CountersInv'
  BY DEF SerialInv, CountersInv, Buffer, Handled
<1>2. ASSUME ~raced PROVE BufferedOrStored' /\ CallsInv'
  <2>1. BufferedOrStored'
    BY <1>2 DEF SerialInv, BufferedOrStored, Waits, Buffer
  <2>2. \A t \in Tasks, table \in Tables :
          (Writes(t, table))' => Writes(t, table) /\ task'[t] = task[t]
    BY DEF Writes
  <2>3. CallsInv'
    BY <1>2, <2>2 DEF SerialInv, CallsInv, Buffer
  <2> QED BY <2>1, <2>3
<1> QED BY <1>1, <1>2 DEF SerialInv

LEMMA SerialAcquired ==
  ASSUME TypeInv, SerialInv, NEW t \in Tasks, Acquired(t)
  PROVE  SerialInv'
<1> DEFINE c == NextCall(Tables)
<1>1. /\ c \in FlushStates
      /\ \/ /\ c.pc = "call" /\ c.table \in Tables
            /\ c.list = Len(lists[c.table])
         \/ c.pc = "idle"
  BY NextCallIs
<1>2. /\ task' = [task EXCEPT ![t] = c] /\ lists' = lists /\ stats' = stats
      /\ events' = events /\ stored' = stored
      /\ raced' = (raced \/ Overlaps(t, c))
  BY DEF Acquired
<1> HIDE DEF c
<1>3. task'[t] = c /\ \A o \in Tasks : o # t => task'[o] = task[o]
  BY <1>2, TasksType
<1>4. CountersInv'
  BY <1>2 DEF SerialInv, CountersInv, Buffer, Handled
<1>5. ASSUME ~raced' PROVE BufferedOrStored' /\ CallsInv'
  <2>1. BufferedOrStored'
    BY <1>2, <1>5 DEF SerialInv, BufferedOrStored, Waits, Buffer
  <2>2. CallsInv /\ (c.pc = "call" => \A o \in Tasks \ {t} : ~Writes(o, c.table))
    BY <1>2, <1>5 DEF SerialInv, Overlaps
  <2> SUFFICES ASSUME NEW o \in Tasks, NEW table \in Tables, (Writes(o, table))'
               PROVE  /\ task'[o].list = Len(lists[table])
                      /\ \A d \in Tasks \ {o} : ~(Writes(d, table))'
                      /\ task'[o].pc = "sent" => task'[o].rows = Buffer(table)
    BY <1>2, <2>1 DEF CallsInv, Buffer
  <2>3. CASE o = t
    BY <1>1, <1>3, <2>2, <2>3 DEF Writes
  <2>4. CASE o # t
    <3>1. Writes(o, table) /\ task'[o] = task[o]
      BY <1>3, <2>4 DEF Writes
    <3>2. ~(Writes(t, table))'
      BY <1>1, <1>3, <2>2, <2>4, <3>1 DEF Writes
    <3>3. \A d \in Tasks \ {o} : d # t => ((Writes(d, table))' <=> Writes(d, table))
      BY <1>3 DEF Writes
    <3> QED BY <2>2, <3>1, <3>2, <3>3 DEF CallsInv
  <2> QED BY <2>3, <2>4
<1> QED BY <1>4, <1>5 DEF SerialInv

LEMMA SerialDriverReads ==
  ASSUME TypeInv, SerialInv, NEW t \in Tasks, DriverReads(t)
  PROVE  SerialInv'
<1> DEFINE rows == lists[task[t].table][task[t].list]
           c == [task[t] EXCEPT !.pc = "sent", !.rows = rows]
<1>1. /\ task[t] \in FlushStates /\ task[t].table \in Tables
      /\ task[t].pc = "call"
  BY TasksType DEF DriverReads
<1>2. /\ c.pc = "sent" /\ c.table = task[t].table /\ c.list = task[t].list
      /\ c.rows = rows
  BY <1>1 DEF FlushStates
<1>3. task' = [task EXCEPT ![t] = c]
  BY <1>1, TasksType DEF DriverReads
<1>4. /\ lists' = lists /\ stats' = stats /\ events' = events /\ stored' = stored
      /\ raced' = raced
  BY DEF DriverReads
<1> HIDE DEF c
<1>5. task'[t] = c /\ \A o \in Tasks : o # t => task'[o] = task[o]
  BY <1>3, TasksType
<1>6. CountersInv'
  BY <1>4 DEF SerialInv, CountersInv, Buffer, Handled
<1>7. ASSUME ~raced PROVE BufferedOrStored' /\ CallsInv'
  <2>1. BufferedOrStored'
    BY <1>4, <1>7 DEF SerialInv, BufferedOrStored, Waits, Buffer
  <2>2. \A o \in Tasks, table \in Tables : (Writes(o, table))' <=> Writes(o, table)
    BY <1>1, <1>2, <1>5 DEF Writes
  <2>3. CallsInv
    BY <1>7 DEF SerialInv
  <2>4. rows = Buffer(task[t].table)
    <3>1. task[t].list = Len(lists[task[t].table])
      BY <1>1, <2>3 DEF CallsInv, Writes
    <3> QED BY <1>1, <3>1, BufferType
  <2> HIDE DEF rows
  <2> SUFFICES ASSUME NEW o \in Tasks, NEW table \in Tables, Writes(o, table)
               PROVE  /\ task'[o].list = Len(lists[table])
                      /\ task'[o].pc = "sent" => task'[o].rows = Buffer(table)
    BY <1>4, <2>1, <2>2, <2>3 DEF CallsInv, Buffer
  <2>5. CASE o = t
    BY <1>2, <1>5, <2>3, <2>4, <2>5 DEF CallsInv, Writes
  <2>6. CASE o # t
    BY <1>5, <2>3, <2>6 DEF CallsInv
  <2> QED BY <2>5, <2>6
<1> QED BY <1>4, <1>6, <1>7 DEF SerialInv

LEMMA SerialCallReturns ==
  ASSUME TypeInv, SerialInv, NEW t \in Tasks, CallReturns(t)
  PROVE  SerialInv'
<1> DEFINE table == task[t].table
           c == task'[t]
<1>1. /\ table \in Tables
      /\ Len(lists'[table]) = Len(lists[table]) + 1
      /\ Last(lists'[table]) = <<>>
      /\ \A other \in Tables \ {table} : lists'[other] = lists[other]
      /\ task' = [task EXCEPT ![t] = c] /\ c \in FlushStates
      /\ raced' = (raced \/ Overlaps(t, c))
      /\ \/ /\ c.pc = "call" /\ c.table = "book_events" /\ table = "trades"
            /\ c.list = Len(lists["book_events"])
         \/ c.pc = "idle"
  BY CallReturnsIs
<1>2. /\ task[t].pc = "sent" /\ events' = events
      /\ stored' = stored \cup ToSet(task[t].rows)
      /\ stats' = [stats EXCEPT ![table] = @ + Len(Buffer(table))]
  BY DEF CallReturns
<1> HIDE DEF c
<1>3. \A o \in Tasks : o # t => task'[o] = task[o]
  BY <1>1, TasksType
<1>4. CountersInv'
  <2>1. /\ stats \in [Tables -> Nat]
        /\ \A x \in Tables : Len(Buffer(x)) \in Nat
    BY BufferType DEF TypeInv, TypeOK, Rows
  <2>2. Len(<<>>) = 0
    OBVIOUS
  <2> SUFFICES ASSUME NEW x \in Tables
               PROVE  stats'[x] + Len(Last(lists'[x])) = Cardinality(Handled(x))
    BY <1>2 DEF CountersInv, Buffer, Handled
  <2>3. stats[x] + Len(Buffer(x)) = Cardinality(Handled(x))
    BY DEF SerialInv, CountersInv
  <2>4. CASE x = table
    <3>1. stats'[x] = stats[x] + Len(Buffer(x)) /\ Len(Last(lists'[x])) = 0
      BY <1>1, <1>2, <2>1, <2>2, <2>4
    <3>2. stats'[x] \in Nat
      BY <2>1, <3>1
    <3> QED BY <2>3, <3>1, <3>2
  <2>5. CASE x # table
    <3>1. stats'[x] = stats[x] /\ Last(lists'[x]) = Buffer(x)
      BY <1>1, <1>2, <2>1, <2>5 DEF Buffer
    <3> QED BY <2>3, <3>1
  <2> QED BY <2>4, <2>5
<1>5. ASSUME ~raced' PROVE BufferedOrStored' /\ CallsInv'
  <2>1. /\ BufferedOrStored /\ CallsInv
        /\ c.pc = "call" => \A o \in Tasks \ {t} : ~Writes(o, c.table)
    BY <1>1, <1>5 DEF SerialInv, Overlaps
  <2>2. Writes(t, table) /\ task[t].rows = Buffer(table)
        /\ \A o \in Tasks \ {t} : ~Writes(o, table)
    BY <1>1, <1>2, <2>1 DEF CallsInv, Writes
  <2>3. BufferedOrStored'
    <3> SUFFICES ASSUME NEW n \in DOMAIN events, n \notin stored'
                 PROVE  n \in ToSet(Last(lists'[events[n]]))
      BY <1>2 DEF BufferedOrStored, Waits, Buffer
    <3>1. n \notin ToSet(Buffer(table)) /\ n \in ToSet(Buffer(events[n]))
      BY <1>2, <2>1, <2>2 DEF BufferedOrStored, Waits
    <3>2. events[n] \in Tables /\ events[n] # table
      BY <3>1 DEF TypeInv, TypeOK
    <3> QED BY <1>1, <3>1, <3>2 DEF Buffer
  <2>4. CallsInv'
    <3> SUFFICES ASSUME NEW o \in Tasks, NEW x \in Tables, (Writes(o, x))'
                 PROVE  /\ task'[o].list = Len(lists'[x])
                        /\ \A d \in Tasks \ {o} : ~(Writes(d, x))'
                        /\ task'[o].pc = "sent" => task'[o].rows = Last(lists'[x])
      BY DEF CallsInv, Buffer
    <3>1. \A d \in Tasks : d # t => ((Writes(d, x))' <=> Writes(d, x))
      BY <1>3 DEF Writes
    <3>2. (Writes(t, x))' => /\ c.pc = "call" /\ c.table = x /\ x # table
                             /\ c.list = Len(lists[x])
      BY <1>1, TasksType DEF Writes, c
    <3>3. CASE o = t
      BY <1>1, <2>1, <3>1, <3>2, <3>3 DEF c
    <3>4. CASE o # t
      <4>1. Writes(o, x) /\ x # table /\ ~(Writes(t, x))'
        BY <2>1, <2>2, <3>1, <3>2, <3>4
      <4> QED BY <1>1, <1>3, <2>1, <3>1, <3>4, <4>1 DEF CallsInv, Buffer
    <3> QED BY <3>3, <3>4
  <2> QED BY <2>3, <2>4
<1> QED BY <1>4, <1>5 DEF SerialInv

LEMMA SerialHandleEvent ==
  ASSUME TypeInv, SerialInv, NEW table \in Tables, HandleEvent(table)
  PROVE  SerialInv'
<1>1. /\ events \in Seq(Tables) /\ Len(events) \in Nat /\ Len(events) + 1 \in Numbers
      /\ events' = Append(events, table)
      /\ Last(lists'[table]) = Append(Buffer(table), Len(events) + 1)
      /\ \A other \in Tables : Len(lists'[other]) = Len(lists[other])
      /\ \A other \in Tables \ {table} : lists'[other] = lists[other]
      /\ task'["main"].pc \in {"idle", "acquire"}
      /\ task'["periodic"] = task["periodic"]
  BY HandleEventIs
<1>2. /\ stored' = stored /\ stats' = stats
      /\ raced' = (raced \/ /\ task["periodic"].pc = "sent"
                            /\ task["periodic"].table = table)
  BY DEF HandleEvent
<1>3. \A x \in Tables : Buffer(x) \in Seq(Numbers) /\ Len(Buffer(x)) \in Nat
  BY BufferType DEF Rows
<1>4. CountersInv'
  <2> SUFFICES ASSUME NEW x \in Tables
               PROVE  stats[x] + Len(Last(lists'[x])) = Cardinality((Handled(x))')
    BY <1>2 DEF CountersInv, Buffer
  <2> DEFINE H(es) == HandledOf(es, x)
  <2>0. Handled(x) = H(events) /\ (Handled(x))' = H(events')
    BY DEF Handled, HandledOf
  <2>1. /\ x = table => Cardinality(H(events')) = Cardinality(H(events)) + 1
        /\ x # table => H(events') = H(events)
        /\ Cardinality(H(events)) \in Nat
    BY <1>1, HandledAppend
  <2> HIDE DEF H
  <2>2. stats[x] + Len(Buffer(x)) = Cardinality(Handled(x)) /\ stats[x] \in Nat
    BY DEF SerialInv, CountersInv, TypeInv, TypeOK
  <2>3. CASE x = table
    <3>1. Len(Last(lists'[x])) = Len(Buffer(x)) + 1
      BY <1>1, <1>3, <2>3
    <3> QED BY <1>3, <2>0, <2>1, <2>2, <2>3, <3>1
  <2>4. CASE x # table
    <3>1. Last(lists'[x]) = Buffer(x)
      BY <1>1, <2>4 DEF Buffer
    <3> QED BY <2>0, <2>1, <2>2, <2>4, <3>1
  <2> QED BY <2>3, <2>4
<1>5. ASSUME ~raced' PROVE BufferedOrStored' /\ CallsInv'
  <2>1. BufferedOrStored /\ CallsInv
        /\ ~(task["periodic"].pc = "sent" /\ task["periodic"].table = table)
    BY <1>2, <1>5 DEF SerialInv
  <2>2. BufferedOrStored'
    <3> SUFFICES ASSUME NEW n \in DOMAIN events', n \notin stored
                 PROVE  n \in ToSet(Last(lists'[events'[n]]))
      BY <1>2 DEF BufferedOrStored, Waits, Buffer
    <3>1. ToSet(Last(lists'[table])) = ToSet(Buffer(table)) \cup {Len(events) + 1}
      <4> DEFINE b == Buffer(table)
                 m == Len(events) + 1
      <4>1. b \in Seq(Numbers) /\ m \in Numbers
        BY <1>1, <1>3
      <4> HIDE DEF b, m
      <4>2. /\ DOMAIN b = 1..Len(b) /\ DOMAIN Append(b, m) = 1..(Len(b) + 1)
            /\ Len(b) \in Nat /\ Append(b, m)[Len(b) + 1] = m
            /\ \A i \in 1..Len(b) : Append(b, m)[i] = b[i]
        BY <4>1
      <4>3. ToSet(Append(b, m)) = ToSet(b) \cup {m}
        BY <4>2 DEF ToSet
      <4> QED BY <1>1, <4>3 DEF b, m
    <3>2. CASE n = Len(events) + 1
      <4>1. events'[n] = table
        BY <1>1, <3>2
      <4> QED BY <3>1, <3>2, <4>1
    <3>3. CASE n # Len(events) + 1
      <4>1. n \in DOMAIN events /\ events'[n] = events[n] /\ events[n] \in Tables
        BY <1>1, <3>3
      <4>2. n \in ToSet(Buffer(events[n]))
        BY <2>1, <4>1 DEF BufferedOrStored, Waits
      <4> QED BY <1>1, <3>1, <4>1, <4>2 DEF Buffer
    <3> QED BY <3>2, <3>3
  <2>3. CallsInv'
    <3> SUFFICES ASSUME NEW o \in Tasks, NEW x \in Tables, (Writes(o, x))'
                 PROVE  /\ task'[o].list = Len(lists'[x])
                        /\ \A d \in Tasks \ {o} : ~(Writes(d, x))'
                        /\ task'[o].pc = "sent" => task'[o].rows = Last(lists'[x])
      BY DEF CallsInv, Buffer
    <3>1. o = "periodic" /\ Writes("periodic", x) /\ \A d \in Tasks \ {o} : d = "main"
      BY <1>1, TasksType DEF Writes
    <3>2. task["periodic"].list = Len(lists[x])
          /\ (task["periodic"].pc = "sent" => task["periodic"].rows = Buffer(x))
      BY <2>1, <3>1 DEF CallsInv
    <3>3. task["periodic"].pc = "sent" => Last(lists'[x]) = Buffer(x)
      BY <1>1, <2>1, <3>1 DEF Writes, Buffer
    <3> QED BY <1>1, <3>1, <3>2, <3>3 DEF Writes
  <2> QED BY <2>2, <2>3
<1> QED BY <1>4, <1>5 DEF SerialInv

LEMMA SerialStep == TypeInv /\ SerialInv /\ [Next]_vars => SerialInv'
<1> SUFFICES ASSUME TypeInv, SerialInv, [Next]_vars PROVE SerialInv'
  OBVIOUS
<1>1. "main" \in Tasks /\ "periodic" \in Tasks
  BY DEF Tasks
<1>2. CASE \E table \in Tables : HandleEvent(table)
  BY <1>2, SerialHandleEvent
<1>3. CASE \E t \in Tasks : FlushStep(t)
  BY <1>3, SerialAcquired, SerialDriverReads, SerialCallReturns DEF FlushStep
<1>4. CASE TimerFires \/ TimerDies \/ Cancel \/ MainFails \/ TimerCancelled
  <2>1. lists' = lists /\ stored \subseteq stored'
    BY <1>1, <1>4, CutOffType DEF TimerFires, TimerDies, Cancel, MainFails, TimerCancelled
  <2>2. \A t \in Tasks : task'[t] = task[t] \/ task'[t].pc \notin {"call", "sent"}
    BY <1>1, <1>4, TasksType, TaskTypes
       DEF TimerFires, TimerDies, Cancel, MainFails, TimerCancelled
  <2>3. events' = events /\ stats' = stats /\ raced' = raced
    BY <1>4 DEF TimerFires, TimerDies, Cancel, MainFails, TimerCancelled
  <2> QED BY <2>1, <2>2, <2>3, SerialKept
<1>5. CASE FinalFlush \/ CloseFlush \/ ClosePool \/ UNCHANGED vars
  <2>1. \A t \in Tasks : task'[t] = task[t] \/ task'[t].pc \notin {"call", "sent"}
    BY <1>5, TasksType, FlushingIs DEF FinalFlush, CloseFlush, ClosePool, vars
  <2>2. /\ lists' = lists /\ stored' = stored
        /\ events' = events /\ stats' = stats /\ raced' = raced
    BY <1>5 DEF FinalFlush, CloseFlush, ClosePool, vars
  <2> QED BY <2>1, <2>2, SerialKept
<1> QED BY <1>2, <1>3, <1>4, <1>5 DEF Next

\* Whatever fails or is cancelled, and wherever: as long as no two flushes write a
\* table at once and no row joins a list that has been sent, every row handled is
\* in its buffer or in the database, and the counters miss none and count none
\* twice.
THEOREM NothingIsLost == Spec => []SerialFlushesLoseNothing
<1>1. SerialInv => SerialFlushesLoseNothing
  BY DEF SerialInv, CountersInv, SerialFlushesLoseNothing
<1> QED BY <1>1, TypeInit, TypeStep, SerialInit, SerialStep, PTL DEF Spec

\* Then close returns only when every row is in the database.
THEOREM CloseStoresAll == Spec => []ClosedWriterStoredAll
<1>1. ASSUME TypeInv, SerialInv PROVE ClosedWriterStoredAll
  <2> SUFFICES ASSUME stage = "closed", ~raced, NEW n \in DOMAIN events, n \notin stored
               PROVE  FALSE
    BY DEF ClosedWriterStoredAll
  <2>1. n \in ToSet(Buffer(events[n])) /\ events[n] \in Tables
    BY <1>1 DEF SerialInv, BufferedOrStored, Waits, TypeInv, TypeOK
  <2>2. Buffer(events[n]) = <<>>
    BY <1>1, <2>1 DEF TypeInv, StageInv, BuffersEmpty
  <2> QED BY <2>1, <2>2 DEF ToSet
<1> QED BY <1>1, TypeInit, TypeStep, SerialInit, SerialStep, PTL DEF Spec
==============================================================================
