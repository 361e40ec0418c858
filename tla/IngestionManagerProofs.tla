------------------------- MODULE IngestionManagerProofs -------------------------
(***************************************************************************)
(* Theorems of IngestionManager, for any number of clients, symbols and    *)
(* reconnects and for every size of the shared queue.                      *)
(***************************************************************************)
EXTENDS IngestionManager, FiniteSetTheorems, LeastNumber

------------------------------------------------------------------------------
(* Types, and how far a client can count. *)

\* A connection is only lost when there is another one to come, and a client
\* has not failed more often than it has tried.
CountInv ==
  \A c \in Clients :
    /\ failures[c] <= conn[c]
    /\ conn[c] <= MaxConns[c]
    /\ phase[c] \in {"connecting", "opening", "streaming"} => failures[c] < conn[c]
    /\ phase[c] \in {"unwinding", "reporting", "sleeping"} => conn[c] < MaxConns[c]

TypeInv == TypeOK /\ CountInv

\* The numbers a connection of one client may have.
LEMMA ConnsOf ==
  ASSUME NEW c \in Clients, NEW k
  PROVE  /\ MaxConns[c] \in Nat \ {0}
         /\ k \in Conns => k \in Nat \ {0}
         /\ k \in Nat \ {0} /\ k <= MaxConns[c] => k \in Conns
<1>1. MaxConns \in [Clients -> Nat \ {0}]
  BY IngestionAssumption
<1>2. ASSUME k \in Conns PROVE k \in Nat \ {0}
  <2>1. PICK d \in Clients : k \in 1..MaxConns[d]
    BY <1>2 DEF Conns
  <2> QED BY <1>1, <2>1
<1>3. ASSUME k \in Nat \ {0}, k <= MaxConns[c] PROVE k \in Conns
  <2>1. k \in 1..MaxConns[c]
    BY <1>1, <1>3
  <2> QED BY <2>1 DEF Conns
<1> QED BY <1>1, <1>2, <1>3

LEMMA CountsType ==
  ASSUME TypeInv
  PROVE  \A c \in Clients : /\ conn[c] \in Nat \ {0} /\ conn[c] <= MaxConns[c]
                            /\ failures[c] \in Nat /\ failures[c] <= conn[c]
                            /\ MaxConns[c] \in Nat /\ phase[c] \in Phases
                            /\ clean[c] \in BOOLEAN
                            /\ backoff[c] \in BaseBackoff..MaxBackoff
<1> SUFFICES ASSUME NEW c \in Clients
             PROVE  /\ conn[c] \in Nat \ {0} /\ conn[c] <= MaxConns[c]
                    /\ failures[c] \in Nat /\ failures[c] <= conn[c]
                    /\ MaxConns[c] \in Nat /\ phase[c] \in Phases
                    /\ clean[c] \in BOOLEAN
                    /\ backoff[c] \in BaseBackoff..MaxBackoff
  OBVIOUS
<1>1. conn[c] \in Conns /\ (failures[c] \in Conns \/ failures[c] = 0)
  BY DEF TypeInv, TypeOK
<1>2. conn[c] \in Nat \ {0} /\ failures[c] \in Nat /\ MaxConns[c] \in Nat
  BY <1>1, ConnsOf
<1> QED BY <1>2 DEF TypeInv, TypeOK, CountInv

\* What the events of the clients are.
QueueEvents == Diffs \cup ConnectionEvents

LEMMA PutType ==
  ASSUME TypeInv, NEW e \in QueueEvents, Put(e)
  PROVE  queue' \in Seq(Diffs \cup ConnectionEvents) /\ Len(queue') <= QueueSize
<1>1. queue \in Seq(QueueEvents)
  BY DEF TypeInv, TypeOK, QueueEvents
<1>2. Len(queue) \in Nat /\ QueueSize \in Nat
  BY <1>1, IngestionAssumption
<1>3. queue' \in Seq(QueueEvents) /\ Len(queue') = Len(queue) + 1
  BY <1>1 DEF Put
<1> QED BY <1>2, <1>3 DEF Put, QueueEvents

\* The head of the queue and the rest of it.
LEMMA HeadType ==
  ASSUME TypeInv, queue # <<>>
  PROVE  /\ Tail(queue) \in Seq(Diffs \cup ConnectionEvents)
         /\ Len(Tail(queue)) <= QueueSize
         /\ Head(queue) = queue[1] /\ 1 \in DOMAIN queue
         /\ Head(queue).type = "diff" => Head(queue) \in Diffs
         /\ Head(queue).type # "diff" => Head(queue) \in ConnectionEvents
<1>1. queue \in Seq(QueueEvents) /\ Len(queue) <= QueueSize /\ QueueSize \in Nat
  BY IngestionAssumption DEF TypeInv, TypeOK, QueueEvents
<1>2. /\ Tail(queue) \in Seq(QueueEvents) /\ Len(Tail(queue)) = Len(queue) - 1
      /\ Head(queue) = queue[1] /\ 1 \in DOMAIN queue /\ Len(queue) \in Nat
      /\ Head(queue) \in QueueEvents
  BY <1>1
<1> QED BY <1>1, <1>2 DEF QueueEvents, Diffs, ConnectionEvents

LEMMA TypeInit == Init => TypeInv
<1> SUFFICES ASSUME Init PROVE TypeInv
  OBVIOUS
<1>1. \A c \in Clients : 1 \in Conns /\ MaxConns[c] \in Nat \ {0}
  BY ConnsOf
<1>2. BaseBackoff \in BaseBackoff..MaxBackoff /\ QueueSize \in Nat \ {0}
  BY IngestionAssumption
<1>3. [s \in {} |-> {}] \in Registries
  <2>1. [s \in {} |-> {}] \in [{} -> SUBSET Conns] /\ {} \in SUBSET AllSymbols
    OBVIOUS
  <2> QED BY <2>1 DEF Registries
<1>4. queue \in Seq(Diffs \cup ConnectionEvents) /\ Len(queue) <= QueueSize
  <2>1. <<>> \in Seq(Diffs \cup ConnectionEvents) /\ Len(<<>>) = 0
    OBVIOUS
  <2> QED BY <1>2, <2>1 DEF Init
<1>5. TypeOK
  BY <1>1, <1>2, <1>3, <1>4 DEF Init, TypeOK, Phases
<1>6. CountInv
  BY <1>1 DEF Init, CountInv
<1> QED BY <1>5, <1>6 DEF TypeInv

\* The loop of run_forever goes on while there is a connection to come.
LEMMA LoopAgainType ==
  ASSUME TypeInv, NEW c \in Clients, conn[c] < MaxConns[c], LoopAgain(c)
  PROVE  /\ phase' \in [Clients -> Phases] /\ conn' \in [Clients -> Conns]
         /\ \A d \in Clients : d # c => phase'[d] = phase[d] /\ conn'[d] = conn[d]
         /\ \/ phase'[c] = "connecting" /\ conn'[c] = conn[c] + 1 /\ stage = "running"
            \/ phase'[c] = "ended" /\ conn'[c] = conn[c] /\ stage # "running"
<1>1. /\ phase \in [Clients -> Phases] /\ conn \in [Clients -> Conns]
      /\ conn[c] \in Nat \ {0} /\ MaxConns[c] \in Nat
  BY CountsType DEF TypeInv, TypeOK
<1>2. CASE stage = "running"
  <2>1. conn[c] + 1 \in Conns
    BY <1>1, ConnsOf
  <2> QED BY <1>1, <1>2, <2>1 DEF LoopAgain, Goto, Phases
<1>3. CASE stage # "running"
  BY <1>1, <1>3 DEF LoopAgain, Goto, Phases
<1> QED BY <1>2, <1>3

\* The registry after an event of the queue.
LEMMA SourcesType ==
  ASSUME TypeInv, Consume
  PROVE  sources' \in [Clients -> Registries]
<1>1. /\ sources \in [Clients -> Registries] /\ queue # <<>>
  BY DEF TypeInv, TypeOK, Consume, ConsumeDiff, ConsumeConnectionEvent
<1>2. \A c \in Clients :
        /\ DOMAIN sources[c] \subseteq AllSymbols
        /\ \A s \in DOMAIN sources[c] : sources[c][s] \subseteq Conns
  <2> SUFFICES ASSUME NEW c \in Clients
               PROVE  /\ DOMAIN sources[c] \subseteq AllSymbols
                      /\ \A s \in DOMAIN sources[c] : sources[c][s] \subseteq Conns
    OBVIOUS
  <2>1. PICK S \in SUBSET AllSymbols : sources[c] \in [S -> SUBSET Conns]
    BY <1>1 DEF Registries
  <2> QED BY <2>1
<1>3. ASSUME NEW D \in SUBSET AllSymbols, NEW g \in [D -> SUBSET Conns]
      PROVE  g \in Registries
  BY DEF Registries
<1>4. CASE ConsumeDiff
  <2> DEFINE e == Head(queue)
             D == DOMAIN sources[e.exchange] \cup {e.symbol}
             g == [s \in D |-> SourcesOf(e.exchange, s)
                                 \cup { k \in {e.conn} : s = e.symbol }]
  <2>1. e \in Diffs
    BY <1>1, <1>4, HeadType DEF ConsumeDiff
  <2>2. e.exchange \in Clients /\ e.symbol \in AllSymbols /\ e.conn \in Conns
    BY <2>1 DEF Diffs
  <2>3. sources' = [sources EXCEPT ![e.exchange] = g]
    BY <1>4, Zenon DEF ConsumeDiff
  <2> HIDE DEF e
  <2>4. D \in SUBSET AllSymbols
    BY <1>2, <2>2
  <2>5. \A s \in D : SourcesOf(e.exchange, s) \subseteq Conns
    BY <1>2, <2>2 DEF SourcesOf
  <2>6. g \in [D -> SUBSET Conns]
    BY <2>2, <2>5
  <2> HIDE DEF g, D
  <2>7. g \in Registries
    BY <1>3, <2>4, <2>6
  <2> QED BY <1>1, <2>3, <2>7
<1>5. CASE ConsumeConnectionEvent
  <2> DEFINE c == Head(queue).exchange
  <2>1. c \in Clients
    BY <1>1, <1>5, HeadType DEF ConsumeConnectionEvent, ConnectionEvents
  <2>2. [s \in DOMAIN sources[c] |-> {}] \in Registries
    <3>1. [s \in DOMAIN sources[c] |-> {}] \in [DOMAIN sources[c] -> SUBSET Conns]
      OBVIOUS
    <3> QED BY <1>2, <1>3, <2>1, <3>1
  <2>3. _broadcast_connection_event(c) \in [Clients -> Registries]
    BY <1>1, <2>2 DEF _broadcast_connection_event
  <2> QED BY <1>1, <1>5, <2>3 DEF ConsumeConnectionEvent
<1> QED BY <1>4, <1>5 DEF Consume

LEMMA TypeStep == TypeInv /\ [Next]_vars => TypeInv'
<1> SUFFICES ASSUME TypeInv, [Next]_vars PROVE TypeInv'
  OBVIOUS
<1>1. /\ phase \in [Clients -> Phases] /\ conn \in [Clients -> Conns]
      /\ clean \in [Clients -> BOOLEAN]
      /\ backoff \in [Clients -> BaseBackoff..MaxBackoff]
      /\ failures \in [Clients -> Conns \cup {0}]
      /\ CountInv
  BY DEF TypeInv, TypeOK
<1>2. /\ BaseBackoff \in Nat \ {0} /\ MaxBackoff \in Nat /\ BaseBackoff <= MaxBackoff
  BY IngestionAssumption
<1>3. ASSUME NEW c \in Clients, Connect(c) PROVE TypeInv'
  <2>1. TypeOK'
    BY <1>1, <1>3 DEF Connect, Goto, Phases, TypeInv, TypeOK
  <2>2. CountInv'
    BY <1>1, <1>3 DEF Connect, Goto, CountInv
  <2> QED BY <2>1, <2>2 DEF TypeInv
<1>4. ASSUME NEW c \in Clients, EmitConnected(c) PROVE TypeInv'
  <2>1. [type |-> "connected", exchange |-> c] \in QueueEvents
    BY DEF QueueEvents, ConnectionEvents
  <2>2. queue' \in Seq(Diffs \cup ConnectionEvents) /\ Len(queue') <= QueueSize
    BY <1>4, <2>1, PutType DEF EmitConnected
  <2>3. TypeOK'
    BY <1>1, <1>4, <2>2 DEF EmitConnected, Goto, Phases, TypeInv, TypeOK
  <2>4. CountInv'
    BY <1>1, <1>4 DEF EmitConnected, Goto, CountInv
  <2> QED BY <2>3, <2>4 DEF TypeInv
<1>5. ASSUME NEW c \in Clients, Receive(c) PROVE TypeInv'
  <2>1. PICK s \in Symbols[c] :
          Put([type |-> "diff", exchange |-> c, symbol |-> s, conn |-> conn[c]])
    BY <1>5 DEF Receive
  <2>2. [type |-> "diff", exchange |-> c, symbol |-> s, conn |-> conn[c]] \in QueueEvents
    BY <1>1 DEF QueueEvents, Diffs, AllSymbols
  <2>3. queue' \in Seq(Diffs \cup ConnectionEvents) /\ Len(queue') <= QueueSize
    BY <2>1, <2>2, PutType
  <2> QED BY <1>5, <2>3 DEF Receive, clientVars, TypeInv, TypeOK, CountInv
<1>6. ASSUME NEW c \in Clients, Lose(c) PROVE TypeInv'
  <2>1. /\ conn[c] \in Nat \ {0} /\ failures[c] \in Nat /\ conn[c] < MaxConns[c]
        /\ failures[c] < conn[c] /\ MaxConns[c] \in Nat
    BY <1>6, CountsType DEF Lose, TypeInv, CountInv
  <2>2. failures[c] + 1 \in Conns /\ failures[c] + 1 <= conn[c]
    <3>1. failures[c] + 1 \in Nat \ {0} /\ failures[c] + 1 <= MaxConns[c]
      BY <2>1
    <3> QED BY <2>1, <3>1, ConnsOf
  <2>3. PICK p \in {"unwinding", "reporting"} :
          phase' = [phase EXCEPT ![c] = p] /\ clean' \in [Clients -> BOOLEAN]
    BY <1>1, <1>6 DEF Lose, Goto
  <2>4. PICK n \in {0, failures[c] + 1} : failures' = [failures EXCEPT ![c] = n]
    BY <1>6 DEF Lose
  <2>5. TypeOK'
    BY <1>1, <1>6, <2>2, <2>3, <2>4 DEF Lose, Phases, TypeInv, TypeOK
  <2>6. CountInv'
    <3> SUFFICES ASSUME NEW d \in Clients
                 PROVE  /\ failures'[d] <= conn[d]
                        /\ conn[d] <= MaxConns[d]
                        /\ phase'[d] \in {"connecting", "opening", "streaming"} =>
                             failures'[d] < conn[d]
                        /\ phase'[d] \in {"unwinding", "reporting", "sleeping"} =>
                             conn[d] < MaxConns[d]
      BY <1>6 DEF Lose, CountInv
    <3>1. CASE d = c
      BY <1>1, <2>1, <2>2, <2>3, <2>4, <3>1
    <3>2. CASE d # c
      BY <1>1, <2>3, <2>4, <3>2 DEF CountInv
    <3> QED BY <3>1, <3>2
  <2> QED BY <2>5, <2>6 DEF TypeInv
<1>7. ASSUME NEW c \in Clients, Unwound(c) PROVE TypeInv'
  <2>1. TypeOK'
    BY <1>1, <1>7 DEF Unwound, Goto, Phases, TypeInv, TypeOK
  <2>2. CountInv'
    BY <1>1, <1>7 DEF Unwound, Goto, CountInv
  <2> QED BY <2>1, <2>2 DEF TypeInv
<1>8. ASSUME NEW c \in Clients, LoopAgain(c), conn[c] < MaxConns[c], failures' = failures
      PROVE  CountInv'
  <2>1. /\ conn[c] \in Nat \ {0} /\ failures[c] \in Nat /\ failures[c] <= conn[c]
        /\ MaxConns[c] \in Nat
    BY CountsType
  <2>2. /\ \A d \in Clients : d # c => phase'[d] = phase[d] /\ conn'[d] = conn[d]
        /\ \/ phase'[c] = "connecting" /\ conn'[c] = conn[c] + 1
           \/ phase'[c] = "ended" /\ conn'[c] = conn[c]
    BY <1>8, LoopAgainType
  <2> SUFFICES ASSUME NEW d \in Clients
               PROVE  /\ failures[d] <= conn'[d]
                      /\ conn'[d] <= MaxConns[d]
                      /\ phase'[d] \in {"connecting", "opening", "streaming"} =>
                           failures[d] < conn'[d]
                      /\ phase'[d] \in {"unwinding", "reporting", "sleeping"} =>
                           conn'[d] < MaxConns[d]
    BY <1>8 DEF CountInv
  <2>3. CASE d = c
    BY <1>8, <2>1, <2>2, <2>3
  <2>4. CASE d # c
    BY <1>1, <2>2, <2>4 DEF CountInv
  <2> QED BY <2>3, <2>4
<1>9. ASSUME NEW c \in Clients, ReportClean(c) PROVE TypeInv'
  <2>1. [type |-> "disconnected", exchange |-> c] \in QueueEvents
    BY DEF QueueEvents, ConnectionEvents
  <2>2. queue' \in Seq(Diffs \cup ConnectionEvents) /\ Len(queue') <= QueueSize
    BY <1>9, <2>1, PutType DEF ReportClean
  <2>3. LoopAgain(c) /\ conn[c] < MaxConns[c] /\ failures' = failures
    BY <1>1, <1>9 DEF ReportClean, CountInv
  <2>4. phase' \in [Clients -> Phases] /\ conn' \in [Clients -> Conns]
    BY <2>3, LoopAgainType
  <2>5. BaseBackoff \in BaseBackoff..MaxBackoff
    BY <1>2
  <2>6. TypeOK'
    BY <1>1, <1>9, <2>2, <2>4, <2>5 DEF ReportClean, TypeInv, TypeOK
  <2> QED BY <1>8, <2>3, <2>6 DEF TypeInv
<1>10. ASSUME NEW c \in Clients, ReportFailure(c) PROVE TypeInv'
  <2>1. [type |-> "disconnected", exchange |-> c] \in QueueEvents
    BY DEF QueueEvents, ConnectionEvents
  <2>2. queue' \in Seq(Diffs \cup ConnectionEvents) /\ Len(queue') <= QueueSize
    BY <1>10, <2>1, PutType DEF ReportFailure
  <2>3. TypeOK'
    BY <1>1, <1>10, <2>2 DEF ReportFailure, Goto, Phases, TypeInv, TypeOK
  <2>4. CountInv'
    BY <1>1, <1>10 DEF ReportFailure, Goto, CountInv
  <2> QED BY <2>3, <2>4 DEF TypeInv
<1>11. ASSUME NEW c \in Clients, Wake(c) PROVE TypeInv'
  <2>1. LoopAgain(c) /\ conn[c] < MaxConns[c] /\ failures' = failures
    BY <1>1, <1>11 DEF Wake, CountInv
  <2>2. phase' \in [Clients -> Phases] /\ conn' \in [Clients -> Conns]
    BY <2>1, LoopAgainType
  <2>3. NextBackoff(backoff[c]) \in BaseBackoff..MaxBackoff
    <3>1. backoff[c] \in BaseBackoff..MaxBackoff
      BY <1>1
    <3> QED BY <1>2, <3>1 DEF NextBackoff
  <2>4. backoff' \in [Clients -> BaseBackoff..MaxBackoff]
    BY <1>1, <1>11, <2>3 DEF Wake
  <2>5. TypeOK'
    BY <1>1, <1>11, <2>2, <2>4 DEF Wake, TypeInv, TypeOK
  <2> QED BY <1>8, <2>1, <2>5 DEF TypeInv
<1>12. ASSUME NEW c \in Clients, End(c) PROVE TypeInv'
  <2>1. TypeOK'
    BY <1>1, <1>12 DEF End, Goto, Phases, TypeInv, TypeOK
  <2>2. CountInv'
    BY <1>1, <1>12 DEF End, Goto, CountInv
  <2> QED BY <2>1, <2>2 DEF TypeInv
<1>13. CASE Consume
  <2>1. queue # <<>> /\ queue' = Tail(queue) /\ UNCHANGED <<stage, clientVars>>
    BY <1>13 DEF Consume, ConsumeDiff, ConsumeConnectionEvent
  <2>2. queue' \in Seq(Diffs \cup ConnectionEvents) /\ Len(queue') <= QueueSize
    BY <2>1, HeadType
  <2>3. sources' \in [Clients -> Registries]
    BY <1>13, SourcesType
  <2> QED BY <2>1, <2>2, <2>3 DEF clientVars, TypeInv, TypeOK, CountInv
<1>14. CASE Stop
  <2>1. \A c \in Clients : phase'[c] = phase[c] \/ phase'[c] = "cancelled"
    BY <1>14 DEF Stop, CancelledAt
  <2>2. phase' \in [Clients -> Phases]
    BY <1>1, <1>14 DEF Stop, CancelledAt, Phases
  <2>3. TypeOK'
    BY <1>14, <2>2 DEF Stop, TypeInv, TypeOK
  <2>4. CountInv'
    BY <1>1, <1>14, <2>1 DEF Stop, CountInv
  <2> QED BY <2>3, <2>4 DEF TypeInv
<1>15. CASE GatherReturns
  BY <1>15 DEF GatherReturns, clientVars, TypeInv, TypeOK, CountInv
<1>16. CASE UNCHANGED vars
  BY <1>16 DEF vars, clientVars, TypeInv, TypeOK, CountInv
<1> QED
  BY <1>3, <1>4, <1>5, <1>6, <1>7, <1>9, <1>10, <1>11, <1>12, <1>13, <1>14,
     <1>15, <1>16 DEF Next, ClientStep

\* Every variable keeps its type: the queue never grows beyond its size, the
\* backoff stays between its limits, and no client needs more connections or
\* counts more failures than the bound on its attempts allows.
THEOREM TypeCorrect == Spec => []TypeOK
<1>1. TypeInv => TypeOK
  BY DEF TypeInv
<1> QED BY <1>1, TypeInit, TypeStep, PTL DEF Spec


------------------------------------------------------------------------------
(* The backoff. *)

LEMMA DoubledDef ==
  /\ Doubled[0] = BaseBackoff
  /\ \A n \in Nat : Doubled[n] \in Nat \ {0} /\ Doubled[n + 1] = 2 * Doubled[n]
<1> DEFINE T == Nat \ {0}
           step == [x \in T |-> 2 * x]
           Equation(f) == f = [n \in Nat |-> IF n = 0 THEN BaseBackoff ELSE 2 * f[n - 1]]
<1>1. BaseBackoff \in T /\ step \in [T -> T]
  BY IngestionAssumption
<1>2. PICK f \in [Nat -> T] :
        f[0] = BaseBackoff /\ \A n \in Nat : f[n + 1] = step[f[n]]
  <2> HIDE DEF T, step
  <2> QED BY <1>1, IterationExists
<1>3. \A n \in Nat : f[n + 1] = 2 * f[n]
  BY <1>2
<1>4. Equation(f)
  <2>1. ASSUME NEW n \in Nat
        PROVE  f[n] = IF n = 0 THEN BaseBackoff ELSE 2 * f[n - 1]
    <3>1. CASE n # 0
      <4>1. n - 1 \in Nat /\ (n - 1) + 1 = n
        BY <3>1
      <4> QED BY <1>3, <3>1, <4>1
    <3> QED BY <1>2, <3>1
  <2> QED BY <1>2, <2>1
<1>5. Equation(Doubled)
  <2>1. Equation(CHOOSE g : Equation(g))
    BY <1>4
  <2> QED BY <2>1 DEF Doubled
<1> HIDE DEF T
<1>6. \A n \in Nat : Doubled[n] = IF n = 0 THEN BaseBackoff ELSE 2 * Doubled[n - 1]
  BY <1>5, Zenon
<1>7. Doubled[0] = BaseBackoff
  BY <1>6
<1>8. ASSUME NEW n \in Nat PROVE Doubled[n + 1] = 2 * Doubled[n]
  <2>1. n + 1 \in Nat /\ n + 1 # 0 /\ (n + 1) - 1 = n
    OBVIOUS
  <2> QED BY <1>6, <2>1
<1>9. Nat \subseteq {n \in Nat : Doubled[n] \in Nat \ {0}}
  <2> DEFINE S == {n \in Nat : Doubled[n] \in Nat \ {0}}
  <2>1. 0 \in S
    BY <1>7, IngestionAssumption
  <2>2. \A n \in Nat : n \in S => n + 1 \in S
    BY <1>8
  <2> HIDE DEF S
  <2>3. Nat \subseteq S
    BY <2>1, <2>2, SetInduction
  <2> QED BY <2>3 DEF S
<1> QED BY <1>7, <1>8, <1>9

\* What run_forever computes is what the failures call for.
LEMMA DelayStep ==
  /\ Delay(1) = BaseBackoff
  /\ \A n \in Nat \ {0} : NextBackoff(Delay(n)) = Delay(n + 1)
<1>1. /\ BaseBackoff \in Nat \ {0} /\ MaxBackoff \in Nat /\ BaseBackoff <= MaxBackoff
  BY IngestionAssumption
<1>2. Delay(1) = BaseBackoff
  BY <1>1, DoubledDef DEF Delay
<1>3. ASSUME NEW n \in Nat \ {0} PROVE NextBackoff(Delay(n)) = Delay(n + 1)
  <2>1. n - 1 \in Nat /\ (n - 1) + 1 = n /\ (n + 1) - 1 = n
    OBVIOUS
  <2>2. Doubled[n - 1] \in Nat \ {0} /\ Doubled[n] = 2 * Doubled[n - 1]
    BY <2>1, DoubledDef
  <2> QED BY <1>1, <2>1, <2>2 DEF NextBackoff, Delay
<1> QED BY <1>2, <1>3

\* An attempt that fails now would sleep for backoff; once it has failed it is
\* counted, and backoff, which only grows when the sleep ends, is its delay.
BackoffInv ==
  \A c \in Clients :
    /\ phase[c] \in {"connecting", "opening", "streaming"} =>
         backoff[c] = Delay(failures[c] + 1)
    /\ phase[c] \in {"unwinding", "reporting"} =>
         IF clean[c] THEN failures[c] = 0
         ELSE failures[c] > 0 /\ backoff[c] = Delay(failures[c])
    /\ phase[c] = "sleeping" => failures[c] > 0 /\ backoff[c] = Delay(failures[c])

LEMMA BackoffInit == Init => BackoffInv
  BY DelayStep DEF Init, BackoffInv

LEMMA BackoffStep == TypeInv /\ BackoffInv /\ [Next]_vars => BackoffInv'
<1> SUFFICES ASSUME TypeInv, BackoffInv, [Next]_vars PROVE BackoffInv'
  OBVIOUS
<1>1. /\ phase \in [Clients -> Phases] /\ conn \in [Clients -> Conns]
      /\ clean \in [Clients -> BOOLEAN]
      /\ backoff \in [Clients -> BaseBackoff..MaxBackoff]
      /\ failures \in [Clients -> Conns \cup {0}]
      /\ \A c \in Clients : failures[c] \in Nat /\ conn[c] <= MaxConns[c]
  BY CountsType DEF TypeInv, TypeOK
<1> DEFINE Kept(c) == /\ failures'[c] = failures[c] /\ clean'[c] = clean[c]
                      /\ backoff'[c] = backoff[c]
           Alike(p, q) ==
             \/ p = q
             \/ p \in {"connecting", "opening"} /\ q \in {"opening", "streaming"}
             \/ p = "unwinding" /\ q = "reporting"
             \/ q \in {"cancelled", "ended"}
           Follows(c) ==
             /\ phase'[c] \in {"connecting", "opening", "streaming"} =>
                  backoff'[c] = Delay(failures'[c] + 1)
             /\ phase'[c] \in {"unwinding", "reporting"} =>
                  IF clean'[c] THEN failures'[c] = 0
                  ELSE failures'[c] > 0 /\ backoff'[c] = Delay(failures'[c])
             /\ phase'[c] = "sleeping" =>
                  failures'[c] > 0 /\ backoff'[c] = Delay(failures'[c])
<1>2. ASSUME NEW c \in Clients, Kept(c), Alike(phase[c], phase'[c]) PROVE Follows(c)
  BY <1>2 DEF BackoffInv
<1>3. ASSUME NEW c \in Clients, ClientStep(c), NEW d \in Clients, d # c
      PROVE  Kept(d) /\ phase'[d] = phase[d]
  BY <1>1, <1>3 DEF ClientStep, Connect, EmitConnected, Receive, Lose, Unwound,
     ReportClean, ReportFailure, Wake, End, Goto, LoopAgain, clientVars
<1>4. ASSUME NEW c \in Clients, ClientStep(c) PROVE Follows(c)
  <2>1. CASE Connect(c) \/ EmitConnected(c) \/ Receive(c) \/ Unwound(c) \/ End(c)
    <3>1. Kept(c) /\ Alike(phase[c], phase'[c])
      BY <1>1, <2>1 DEF Connect, EmitConnected, Receive, Unwound, End, Goto, clientVars
    <3> QED BY <1>2, <3>1
  <2>2. CASE Lose(c)
    <3>1. backoff[c] = Delay(failures[c] + 1) /\ backoff' = backoff
      BY <2>2 DEF Lose, BackoffInv
    <3>2. failures'[c] = IF clean'[c] THEN 0 ELSE failures[c] + 1
      BY <1>1, <2>2 DEF Lose
    <3>3. phase'[c] \in {"unwinding", "reporting"}
      BY <1>1, <2>2 DEF Lose, Goto
    <3> QED BY <1>1, <3>1, <3>2, <3>3
  <2>3. CASE ReportClean(c)
    <3>1. failures'[c] = 0 /\ backoff'[c] = BaseBackoff
      BY <1>1, <2>3 DEF ReportClean, BackoffInv
    <3>2. phase'[c] \in {"connecting", "ended"}
      BY <1>1, <2>3 DEF ReportClean, LoopAgain, Goto
    <3> QED BY <3>1, <3>2, DelayStep
  <2>4. CASE ReportFailure(c)
    <3>1. Kept(c) /\ failures[c] > 0 /\ backoff[c] = Delay(failures[c])
      BY <2>4 DEF ReportFailure, BackoffInv
    <3>2. phase'[c] = "sleeping"
      BY <1>1, <2>4 DEF ReportFailure, Goto
    <3> QED BY <3>1, <3>2
  <2>5. CASE Wake(c)
    <3>1. failures[c] > 0 /\ backoff[c] = Delay(failures[c]) /\ failures' = failures
      BY <2>5 DEF Wake, BackoffInv
    <3>2. backoff'[c] = NextBackoff(Delay(failures[c]))
      BY <1>1, <2>5, <3>1 DEF Wake
    <3>3. backoff'[c] = Delay(failures[c] + 1)
      BY <1>1, <3>1, <3>2, DelayStep
    <3>4. phase'[c] \in {"connecting", "ended"}
      BY <1>1, <2>5 DEF Wake, LoopAgain, Goto
    <3> QED BY <3>1, <3>3, <3>4
  <2> QED BY <1>4, <2>1, <2>2, <2>3, <2>4, <2>5 DEF ClientStep
<1>5. CASE \E c \in Clients : ClientStep(c)
  <2>1. PICK c \in Clients : ClientStep(c)
    BY <1>5
  <2>2. ASSUME NEW d \in Clients PROVE Follows(d)
    <3>1. CASE d = c
      BY <1>4, <2>1, <3>1
    <3>2. CASE d # c
      BY <1>2, <1>3, <2>1, <3>2
    <3> QED BY <3>1, <3>2
  <2> QED BY <2>2 DEF BackoffInv
<1>6. CASE Consume \/ Stop \/ GatherReturns \/ UNCHANGED vars
  <2>1. ASSUME NEW c \in Clients PROVE Kept(c) /\ Alike(phase[c], phase'[c])
    BY <1>1, <1>6 DEF Consume, ConsumeDiff, ConsumeConnectionEvent, Stop, CancelledAt,
       GatherReturns, vars, clientVars
  <2>2. ASSUME NEW c \in Clients PROVE Follows(c)
    BY <1>2, <2>1
  <2> QED BY <2>2 DEF BackoffInv
<1> QED BY <1>5, <1>6 DEF Next

\* However the connections end, and however the stop of a script meets them, the
\* n-th failure in a row sleeps for min(base * 2^(n - 1), max), with no jitter added.
THEOREM BackoffIsExponential == Spec => []BackoffFollowsFailures
<1>1. BackoffInv => BackoffFollowsFailures
  BY DEF BackoffInv, BackoffFollowsFailures
<1> QED BY <1>1, TypeInit, TypeStep, BackoffInit, BackoffStep, PTL DEF Spec

------------------------------------------------------------------------------
(* The order of the connections on the shared queue. *)

\* Place 0 is the registry, the events of the queue have the places from 1 on.
\* There is something of connection k of client c at place i of queue q ...
IsFrom(q, src, i, c, k) ==
  IF i = 0 THEN \E s \in DOMAIN src[c] : k \in src[c][s]
  ELSE q[i].type = "diff" /\ q[i].exchange = c /\ q[i].conn = k

\* ... and the event there ends a connection of c.
Ends(q, i, c) == q[i].type = "disconnected" /\ q[i].exchange = c

Between(q, i, j, c) == \E x \in (i + 1)..(j - 1) : Ends(q, x, c)

\* A client in phase p whose latest connection is the n-th.  What is of two
\* connections has the end of one in between, and the end of every connection but
\* the latest is still to come or done with, as is that of the latest when the
\* client sleeps; but it is not while the latest is open or still to be reported.
OrderedFor(q, src, c, n, p) ==
  \A i \in 0..Len(q) : \A k \in Conns : IsFrom(q, src, i, c, k) =>
    /\ k <= n
    /\ p \in {"connecting", "opening"} => k < n
    /\ \A j \in i..Len(q) : \A l \in Conns :
         IsFrom(q, src, j, c, l) /\ k # l => Between(q, i, j, c)
    /\ k # n \/ p = "sleeping" => Between(q, i, Len(q) + 1, c)
    /\ k = n /\ p \in {"streaming", "unwinding", "reporting"} =>
         ~Between(q, i, Len(q) + 1, c)

OrderInv == \A c \in Clients : OrderedFor(queue, sources, c, conn[c], phase[c])

\* What an event put into the queue changes.
LEMMA AppendPlaces ==
  ASSUME NEW q \in Seq(QueueEvents), NEW e \in QueueEvents, NEW src, NEW c, NEW k
  PROVE  LET r == Append(q, e)
         IN  /\ Len(q) \in Nat /\ Len(r) = Len(q) + 1
             /\ r[Len(q) + 1] = e
             /\ \A i \in 0..Len(q) : IsFrom(r, src, i, c, k) <=> IsFrom(q, src, i, c, k)
             /\ \A i \in 1..Len(q) : Ends(r, i, c) <=> Ends(q, i, c)
<1>1. /\ Len(q) \in Nat /\ Len(Append(q, e)) = Len(q) + 1
      /\ Append(q, e)[Len(q) + 1] = e
      /\ \A i \in 1..Len(q) : Append(q, e)[i] = q[i]
  OBVIOUS
<1>2. ASSUME NEW i \in 0..Len(q)
      PROVE  IsFrom(Append(q, e), src, i, c, k) <=> IsFrom(q, src, i, c, k)
  <2>1. i = 0 \/ i \in 1..Len(q)
    BY <1>1
  <2> QED BY <1>1, <2>1 DEF IsFrom
<1>3. ASSUME NEW i \in 1..Len(q)
      PROVE  Ends(Append(q, e), i, c) <=> Ends(q, i, c)
  BY <1>1 DEF Ends
<1> QED BY <1>1, <1>2, <1>3

LEMMA AppendBetween ==
  ASSUME NEW q \in Seq(QueueEvents), NEW e \in QueueEvents, NEW c
  PROVE  LET r == Append(q, e)
         IN  /\ \A i \in 0..Len(q), j \in 0..(Len(q) + 1) :
                  Between(r, i, j, c) <=> Between(q, i, j, c)
             /\ \A i \in 0..Len(q) :
                  Between(r, i, Len(q) + 2, c) <=>
                    \/ Between(q, i, Len(q) + 1, c)
                    \/ e.type = "disconnected" /\ e.exchange = c
             /\ ~Between(r, Len(q) + 1, Len(q) + 2, c)
<1> DEFINE r == Append(q, e)
<1>1. /\ Len(q) \in Nat /\ Len(r) = Len(q) + 1 /\ r[Len(q) + 1] = e
      /\ \A i \in 1..Len(q) : Ends(r, i, c) <=> Ends(q, i, c)
  BY AppendPlaces
<1>2. Ends(r, Len(q) + 1, c) <=> e.type = "disconnected" /\ e.exchange = c
  BY <1>1 DEF Ends
<1> HIDE DEF r
<1>3. ASSUME NEW i \in 0..Len(q), NEW j \in 0..(Len(q) + 1)
      PROVE  Between(r, i, j, c) <=> Between(q, i, j, c)
  <2>1. \A x \in (i + 1)..(j - 1) : x \in 1..Len(q)
    BY <1>1
  <2> QED BY <1>1, <2>1 DEF Between
<1>4. ASSUME NEW i \in 0..Len(q)
      PROVE  Between(r, i, Len(q) + 2, c) <=>
               \/ Between(q, i, Len(q) + 1, c)
               \/ e.type = "disconnected" /\ e.exchange = c
  <2>1. /\ (i + 1)..((Len(q) + 2) - 1)
             = (i + 1)..((Len(q) + 1) - 1) \cup {Len(q) + 1}
        /\ \A x \in (i + 1)..((Len(q) + 1) - 1) : x \in 1..Len(q)
    BY <1>1
  <2> QED BY <1>1, <1>2, <2>1 DEF Between
<1>5. ~Between(r, Len(q) + 1, Len(q) + 2, c)
  BY <1>1 DEF Between
<1> QED BY <1>3, <1>4, <1>5 DEF r

\* An event that is neither a diff nor the end of a connection of c.
LEMMA AppendOther ==
  ASSUME NEW q \in Seq(QueueEvents), NEW e \in QueueEvents, NEW src,
         NEW c \in Clients, NEW n \in Nat, NEW p, OrderedFor(q, src, c, n, p),
         e.exchange # c \/ e.type = "connected"
  PROVE  OrderedFor(Append(q, e), src, c, n, p)
<1> DEFINE r == Append(q, e)
<1>1. /\ Len(q) \in Nat /\ Len(r) = Len(q) + 1 /\ r[Len(q) + 1] = e
      /\ \A k : \A i \in 0..Len(q) : IsFrom(r, src, i, c, k) <=> IsFrom(q, src, i, c, k)
  BY AppendPlaces
<1>2. /\ \A i \in 0..Len(q), j \in 0..(Len(q) + 1) :
           Between(r, i, j, c) <=> Between(q, i, j, c)
      /\ \A i \in 0..Len(q) :
           Between(r, i, Len(q) + 2, c) <=> Between(q, i, Len(q) + 1, c)
  BY AppendBetween
<1>3. \A k : ~IsFrom(r, src, Len(q) + 1, c, k)
  BY <1>1 DEF IsFrom
<1> HIDE DEF r
<1> SUFFICES ASSUME NEW i \in 0..Len(r), NEW k \in Conns, IsFrom(r, src, i, c, k)
             PROVE  /\ k <= n
                    /\ p \in {"connecting", "opening"} => k < n
                    /\ \A j \in i..Len(r) : \A l \in Conns :
                         IsFrom(r, src, j, c, l) /\ k # l => Between(r, i, j, c)
                    /\ k # n \/ p = "sleeping" => Between(r, i, Len(r) + 1, c)
                    /\ k = n /\ p \in {"streaming", "unwinding", "reporting"} =>
                         ~Between(r, i, Len(r) + 1, c)
  BY DEF OrderedFor, r
<1>4. i \in 0..Len(q) /\ IsFrom(q, src, i, c, k)
  BY <1>1, <1>3
<1>5. ASSUME NEW j \in i..Len(r), NEW l \in Conns, IsFrom(r, src, j, c, l), k # l
      PROVE  Between(r, i, j, c)
  <2>1. j \in i..Len(q) /\ j \in 0..Len(q) /\ j \in 0..(Len(q) + 1)
    BY <1>1, <1>3, <1>4, <1>5
  <2>2. Between(q, i, j, c)
    BY <1>1, <1>4, <1>5, <2>1 DEF OrderedFor
  <2> QED BY <1>2, <1>4, <2>1, <2>2
<1>6. Len(r) + 1 = Len(q) + 2
  BY <1>1
<1> QED BY <1>2, <1>4, <1>5, <1>6 DEF OrderedFor

\* A diff of the connection that is open.
LEMMA AppendDiff ==
  ASSUME NEW q \in Seq(QueueEvents), NEW e \in QueueEvents, NEW src,
         NEW c \in Clients, NEW n \in Conns, n \in Nat,
         OrderedFor(q, src, c, n, "streaming"),
         e.type = "diff", e.exchange = c, e.conn = n
  PROVE  OrderedFor(Append(q, e), src, c, n, "streaming")
<1> DEFINE r == Append(q, e)
<1>1. /\ Len(q) \in Nat /\ Len(r) = Len(q) + 1 /\ r[Len(q) + 1] = e
      /\ \A k : \A i \in 0..Len(q) : IsFrom(r, src, i, c, k) <=> IsFrom(q, src, i, c, k)
  BY AppendPlaces
<1>2. /\ \A i \in 0..Len(q), j \in 0..(Len(q) + 1) :
           Between(r, i, j, c) <=> Between(q, i, j, c)
      /\ \A i \in 0..Len(q) :
           Between(r, i, Len(q) + 2, c) <=> Between(q, i, Len(q) + 1, c)
      /\ ~Between(r, Len(q) + 1, Len(q) + 2, c)
  BY AppendBetween
<1>3. \A k : IsFrom(r, src, Len(q) + 1, c, k) => k = n
  BY <1>1 DEF IsFrom
<1>6. Len(r) + 1 = Len(q) + 2
  BY <1>1
<1> HIDE DEF r
<1> SUFFICES ASSUME NEW i \in 0..Len(r), NEW k \in Conns, IsFrom(r, src, i, c, k)
             PROVE  /\ k <= n
                    /\ \A j \in i..Len(r) : \A l \in Conns :
                         IsFrom(r, src, j, c, l) /\ k # l => Between(r, i, j, c)
                    /\ k # n => Between(r, i, Len(r) + 1, c)
                    /\ k = n => ~Between(r, i, Len(r) + 1, c)
  BY DEF OrderedFor, r
<1>4. CASE i = Len(q) + 1
  <2>1. k = n /\ \A j \in i..Len(r) : j = i
    BY <1>1, <1>3, <1>4
  <2> QED BY <1>2, <1>3, <1>4, <1>6, <2>1
<1>5. CASE i \in 0..Len(q)
  <2>1. IsFrom(q, src, i, c, k)
    BY <1>1, <1>5
  <2>2. k # n => Between(q, i, Len(q) + 1, c)
    BY <1>5, <2>1 DEF OrderedFor
  <2>3. ASSUME NEW j \in i..Len(r), NEW l \in Conns, IsFrom(r, src, j, c, l), k # l
        PROVE  Between(r, i, j, c)
    <3>1. CASE j = Len(q) + 1
      <4>1. Between(q, i, j, c) /\ j \in 0..(Len(q) + 1)
        BY <1>1, <1>3, <2>2, <2>3, <3>1
      <4> QED BY <1>2, <1>5, <4>1
    <3>2. CASE j # Len(q) + 1
      <4>1. j \in i..Len(q) /\ j \in 0..Len(q) /\ j \in 0..(Len(q) + 1)
        BY <1>1, <1>5, <3>2
      <4>2. Between(q, i, j, c)
        BY <1>1, <1>5, <2>1, <2>3, <4>1 DEF OrderedFor
      <4> QED BY <1>2, <1>5, <4>1, <4>2
    <3> QED BY <3>1, <3>2
  <2> QED BY <1>2, <1>5, <1>6, <2>1, <2>2, <2>3 DEF OrderedFor
<1> QED BY <1>1, <1>4, <1>5

\* Once the end of the latest connection is in the queue, or known to be, the
\* next one may begin.
LEMMA AllOver ==
  ASSUME NEW q, NEW src, NEW c \in Clients, NEW n \in Nat, NEW m \in {n, n + 1}, NEW p,
         p \notin {"opening", "streaming", "unwinding", "reporting"},
         p = "connecting" => m = n + 1,
         \A i \in 0..Len(q) : \A k \in Conns : IsFrom(q, src, i, c, k) =>
           /\ k <= n
           /\ \A j \in i..Len(q) : \A l \in Conns :
                IsFrom(q, src, j, c, l) /\ k # l => Between(q, i, j, c)
           /\ Between(q, i, Len(q) + 1, c)
  PROVE  OrderedFor(q, src, c, m, p)
<1>1. \A k \in Conns : k \in Nat
  BY ConnsOf
<1> QED BY <1>1 DEF OrderedFor

\* The end of the connection is put into the queue.
LEMMA AppendEnd ==
  ASSUME NEW q \in Seq(QueueEvents), NEW e \in QueueEvents, NEW src,
         NEW c \in Clients, NEW n \in Nat, NEW p, OrderedFor(q, src, c, n, p),
         e.type = "disconnected", e.exchange = c,
         NEW m \in {n, n + 1}, NEW p2 \in {"connecting", "sleeping", "ended"},
         p2 = "connecting" => m = n + 1
  PROVE  OrderedFor(Append(q, e), src, c, m, p2)
<1> DEFINE r == Append(q, e)
<1>1. /\ Len(q) \in Nat /\ Len(r) = Len(q) + 1 /\ r[Len(q) + 1] = e
      /\ \A k : \A i \in 0..Len(q) : IsFrom(r, src, i, c, k) <=> IsFrom(q, src, i, c, k)
  BY AppendPlaces
<1>2. /\ \A i \in 0..Len(q), j \in 0..(Len(q) + 1) :
           Between(r, i, j, c) <=> Between(q, i, j, c)
      /\ \A i \in 0..Len(q) : Between(r, i, Len(q) + 2, c)
  BY AppendBetween
<1>3. \A k : ~IsFrom(r, src, Len(q) + 1, c, k)
  BY <1>1 DEF IsFrom
<1>4. Len(r) + 1 = Len(q) + 2
  BY <1>1
<1> HIDE DEF r
<1>5. ASSUME NEW i \in 0..Len(r), NEW k \in Conns, IsFrom(r, src, i, c, k)
      PROVE  /\ k <= n
             /\ \A j \in i..Len(r) : \A l \in Conns :
                  IsFrom(r, src, j, c, l) /\ k # l => Between(r, i, j, c)
             /\ Between(r, i, Len(r) + 1, c)
  <2>1. i \in 0..Len(q) /\ IsFrom(q, src, i, c, k)
    BY <1>1, <1>3, <1>5
  <2>2. ASSUME NEW j \in i..Len(r), NEW l \in Conns, IsFrom(r, src, j, c, l), k # l
        PROVE  Between(r, i, j, c)
    <3>1. j \in i..Len(q) /\ j \in 0..Len(q) /\ j \in 0..(Len(q) + 1)
      BY <1>1, <1>3, <2>1, <2>2
    <3>2. Between(q, i, j, c)
      BY <1>1, <2>1, <2>2, <3>1 DEF OrderedFor
    <3> QED BY <1>2, <2>1, <3>1, <3>2
  <2> QED BY <1>2, <1>4, <2>1, <2>2 DEF OrderedFor
<1>6. OrderedFor(r, src, c, m, p2)
  BY <1>5, AllOver
<1> QED BY <1>6 DEF r

\* The steps of a client that leave the queue alone.
LEMMA PhaseStep ==
  ASSUME NEW q, NEW src, NEW c \in Clients, NEW n \in Nat, NEW p, NEW p2,
         OrderedFor(q, src, c, n, p),
         \/ p2 = p
         \/ p = "connecting" /\ p2 \in {"opening", "reporting"}
         \/ p = "opening" /\ p2 = "streaming"
         \/ p = "streaming" /\ p2 \in {"unwinding", "reporting"}
         \/ p = "unwinding" /\ p2 = "reporting"
         \/ p2 \in {"cancelled", "ended"}
  PROVE  OrderedFor(q, src, c, n, p2)
<1>1. \A k \in Conns : k \in Nat
  BY ConnsOf
<1> QED BY <1>1 DEF OrderedFor

\* The registry takes the head of the queue: it keeps what it had unless the
\* head is the end of a connection, and has nothing new but the head.
LEMMA TailOrdered ==
  ASSUME NEW q \in Seq(QueueEvents), q # <<>>, NEW src, NEW src2,
         NEW c \in Clients, NEW n \in Nat, NEW p, OrderedFor(q, src, c, n, p),
         \A k : IsFrom(q, src2, 0, c, k) =>
                  \/ IsFrom(q, src, 1, c, k)
                  \/ IsFrom(q, src, 0, c, k) /\ ~Ends(q, 1, c)
  PROVE  OrderedFor(Tail(q), src2, c, n, p)
<1> DEFINE r == Tail(q)
<1>1. /\ Len(q) \in Nat /\ Len(r) \in Nat /\ Len(q) = Len(r) + 1
      /\ \A i \in 1..Len(r) : r[i] = q[i + 1]
  OBVIOUS
<1> HIDE DEF r
\* Where the entry at place i of the new queue was.
<1> DEFINE From(i, a, k) ==
             /\ IsFrom(q, src, a, c, k)
             /\ \/ a = i + 1
                \/ i = 0 /\ a = 0 /\ ~Ends(q, 1, c)
<1>2. ASSUME NEW i \in 0..Len(r), NEW k, IsFrom(r, src2, i, c, k)
      PROVE  \E a \in {i, i + 1} : From(i, a, k)
  <2>1. CASE i = 0
    <3>1. IsFrom(q, src2, 0, c, k)
      BY <1>2, <2>1 DEF IsFrom
    <3>2. \/ IsFrom(q, src, 1, c, k)
          \/ IsFrom(q, src, 0, c, k) /\ ~Ends(q, 1, c)
      BY <3>1
    <3>3. From(0, 1, k) \/ From(0, 0, k)
      BY <3>2
    <3> QED BY <2>1, <3>3
  <2>2. CASE i # 0
    <3>1. i \in 1..Len(r) /\ i + 1 # 0
      BY <1>1, <2>2
    <3>2. r[i] = q[i + 1]
      BY <1>1, <3>1
    <3>3. IsFrom(q, src, i + 1, c, k)
      BY <1>2, <2>2, <3>1, <3>2 DEF IsFrom
    <3>4. From(i, i + 1, k)
      BY <3>3
    <3> QED BY <3>4
  <2> QED BY <2>1, <2>2
<1>3. ASSUME NEW i \in 0..Len(r), NEW j \in 0..(Len(r) + 1), NEW a \in {i, i + 1},
             NEW k, From(i, a, k)
      PROVE  Between(r, i, j, c) <=> Between(q, a, j + 1, c)
  <2>1. \A x \in 1..Len(r) : Ends(r, x, c) <=> Ends(q, x + 1, c)
    BY <1>1 DEF Ends
  <2>2. ASSUME Between(r, i, j, c) PROVE Between(q, a, j + 1, c)
    <3>1. PICK x \in (i + 1)..(j - 1) : Ends(r, x, c)
      BY <2>2 DEF Between
    <3>2. x \in 1..Len(r) /\ x + 1 \in (a + 1)..((j + 1) - 1)
      BY <1>1, <3>1
    <3> QED BY <2>1, <3>1, <3>2 DEF Between
  <2>3. ASSUME Between(q, a, j + 1, c) PROVE Between(r, i, j, c)
    <3>1. PICK y \in (a + 1)..((j + 1) - 1) : Ends(q, y, c)
      BY <2>3 DEF Between
    <3>2. y # 1
      BY <1>1, <1>3, <3>1
    <3>3. y - 1 \in 1..Len(r) /\ y - 1 \in (i + 1)..(j - 1) /\ (y - 1) + 1 = y
      BY <1>1, <1>3, <3>1, <3>2
    <3> QED BY <2>1, <3>1, <3>3 DEF Between
  <2> QED BY <2>2, <2>3
<1> SUFFICES ASSUME NEW i \in 0..Len(r), NEW k \in Conns, IsFrom(r, src2, i, c, k)
             PROVE  /\ k <= n
                    /\ p \in {"connecting", "opening"} => k < n
                    /\ \A j \in i..Len(r) : \A l \in Conns :
                         IsFrom(r, src2, j, c, l) /\ k # l => Between(r, i, j, c)
                    /\ k # n \/ p = "sleeping" => Between(r, i, Len(r) + 1, c)
                    /\ k = n /\ p \in {"streaming", "unwinding", "reporting"} =>
                         ~Between(r, i, Len(r) + 1, c)
  BY DEF OrderedFor, r
<1>4. PICK a \in {i, i + 1} : From(i, a, k)
  BY <1>2
<1>5. a \in 0..Len(q) /\ IsFrom(q, src, a, c, k)
  BY <1>1, <1>4
<1>6. Between(r, i, Len(r) + 1, c) <=> Between(q, a, Len(q) + 1, c)
  <2>1. Len(r) + 1 \in 0..(Len(r) + 1) /\ (Len(r) + 1) + 1 = Len(q) + 1
    BY <1>1
  <2> QED BY <1>3, <1>4, <2>1
<1>7. ASSUME NEW j \in i..Len(r), NEW l \in Conns, IsFrom(r, src2, j, c, l), k # l
      PROVE  Between(r, i, j, c)
  <2>1. j \in 0..Len(r) /\ j \in 0..(Len(r) + 1)
    BY <1>1
  <2>2. PICK b \in {j, j + 1} : From(j, b, l)
    BY <1>2, <1>7, <2>1
  <2>3. b \in 0..Len(q) /\ IsFrom(q, src, b, c, l)
    BY <1>1, <2>1, <2>2
  <2>4. CASE a <= b
    <3>1. Between(q, a, b, c)
      BY <1>1, <1>5, <1>7, <2>3, <2>4 DEF OrderedFor
    <3>2. Between(q, a, j + 1, c)
      BY <1>1, <1>5, <2>1, <2>2, <3>1 DEF Between
    <3> QED BY <1>3, <1>4, <2>1, <3>2
  <2>5. CASE ~(a <= b)
    <3>1. a = 1 /\ b = 0
      BY <1>4, <2>1, <2>2, <2>5
    <3>2. Between(q, b, a, c)
      BY <1>1, <1>5, <1>7, <2>3, <3>1 DEF OrderedFor
    <3> QED BY <3>1, <3>2 DEF Between
  <2> QED BY <1>1, <1>5, <2>3, <2>4, <2>5
<1> QED BY <1>5, <1>6, <1>7 DEF OrderedFor

LEMMA OrderInit == Init => OrderInv
<1> SUFFICES ASSUME Init, NEW c \in Clients
             PROVE  OrderedFor(queue, sources, c, conn[c], phase[c])
  BY DEF OrderInv
<1>1. Len(queue) = 0 /\ sources[c] = [s \in {} |-> {}]
  BY DEF Init
<1>2. \A i \in 0..Len(queue) : \A k : ~IsFrom(queue, sources, i, c, k)
  BY <1>1 DEF IsFrom
<1> QED BY <1>2 DEF OrderedFor

LEMMA OrderConsume ==
  ASSUME TypeInv, OrderInv, Consume
  PROVE  OrderInv'
<1>1. /\ queue \in Seq(QueueEvents) /\ queue # <<>> /\ queue' = Tail(queue)
      /\ sources \in [Clients -> Registries]
      /\ phase' = phase /\ conn' = conn
      /\ \A c \in Clients : conn[c] \in Nat
      /\ Head(queue) = queue[1]
  BY CountsType, HeadType DEF TypeInv, TypeOK, Consume, ConsumeDiff,
     ConsumeConnectionEvent, clientVars, QueueEvents
<1> SUFFICES ASSUME NEW c \in Clients
             PROVE  OrderedFor(queue', sources', c, conn[c], phase[c])
  BY <1>1 DEF OrderInv
<1> SUFFICES ASSUME NEW k, IsFrom(queue, sources', 0, c, k)
             PROVE  \/ IsFrom(queue, sources, 1, c, k)
                    \/ IsFrom(queue, sources, 0, c, k) /\ ~Ends(queue, 1, c)
  BY <1>1, TailOrdered DEF OrderInv
<1>2. PICK s \in DOMAIN sources'[c] : k \in sources'[c][s]
  BY DEF IsFrom
<1>3. CASE ConsumeDiff
  <2> DEFINE e == Head(queue)
             g == [t \in DOMAIN sources[e.exchange] \cup {e.symbol} |->
                     SourcesOf(e.exchange, t) \cup { x \in {e.conn} : t = e.symbol }]
  <2>1. sources' = [sources EXCEPT ![e.exchange] = g] /\ e.type = "diff"
    BY <1>3, Zenon DEF ConsumeDiff
  <2>2. ~Ends(queue, 1, c)
    BY <1>1, <2>1 DEF Ends
  <2>3. CASE e.exchange # c
    <3>1. sources'[c] = sources[c]
      BY <1>1, <2>1, <2>3
    <3> QED BY <1>2, <2>2, <3>1 DEF IsFrom
  <2>4. CASE e.exchange = c
    <3>1. sources'[c] = g
      BY <1>1, <2>1, <2>4
    <3>2. k \in SourcesOf(c, s) \/ k = e.conn
      BY <1>2, <2>4, <3>1
    <3>3. CASE k = e.conn
      BY <1>1, <2>1, <2>4, <3>3 DEF IsFrom
    <3>4. CASE k \in SourcesOf(c, s)
      <4>1. s \in DOMAIN sources[c] /\ k \in sources[c][s]
        BY <3>4 DEF SourcesOf
      <4> QED BY <2>2, <4>1 DEF IsFrom
    <3> QED BY <3>2, <3>3, <3>4
  <2> QED BY <2>3, <2>4
<1>4. CASE ConsumeConnectionEvent
  <2>1. CASE Ends(queue, 1, c)
    <3>1. sources' = [sources EXCEPT ![c] = [t \in DOMAIN sources[c] |-> {}]]
      BY <1>1, <1>4, <2>1 DEF ConsumeConnectionEvent, Ends, _broadcast_connection_event
    <3>2. sources'[c] = [t \in DOMAIN sources[c] |-> {}]
      BY <1>1, <3>1
    <3> QED BY <1>2, <3>2
  <2>2. CASE ~Ends(queue, 1, c)
    <3>1. sources'[c] = sources[c]
      BY <1>1, <1>4, <2>2 DEF ConsumeConnectionEvent, Ends, _broadcast_connection_event
    <3> QED BY <1>2, <2>2, <3>1 DEF IsFrom
  <2> QED BY <2>1, <2>2
<1> QED BY <1>3, <1>4 DEF Consume

LEMMA OrderStep == TypeInv /\ OrderInv /\ [Next]_vars => OrderInv'
<1> SUFFICES ASSUME TypeInv, OrderInv, [Next]_vars PROVE OrderInv'
  OBVIOUS
<1>1. /\ phase \in [Clients -> Phases] /\ conn \in [Clients -> Conns]
      /\ queue \in Seq(QueueEvents) /\ CountInv
      /\ \A c \in Clients : conn[c] \in Nat
  BY CountsType DEF TypeInv, TypeOK, QueueEvents
<1> DEFINE Ordered(c) == OrderedFor(queue', sources', c, conn'[c], phase'[c])
<1>2. ASSUME NEW c \in Clients
      PROVE  OrderedFor(queue, sources, c, conn[c], phase[c])
  BY DEF OrderInv
<1>3. ASSUME NEW c \in Clients, ClientStep(c), NEW d \in Clients, d # c
      PROVE  Ordered(d)
  <2>1. phase'[d] = phase[d] /\ conn'[d] = conn[d] /\ sources' = sources
    BY <1>1, <1>3 DEF ClientStep, Connect, EmitConnected, Receive, Lose, Unwound,
       ReportClean, ReportFailure, Wake, End, Goto, LoopAgain, clientVars
  <2>2. CASE queue' = queue
    BY <1>2, <2>1, <2>2
  <2>3. CASE \E e \in QueueEvents : e.exchange = c /\ queue' = Append(queue, e)
    <3>1. PICK e \in QueueEvents : e.exchange = c /\ queue' = Append(queue, e)
      BY <2>3
    <3>2. OrderedFor(Append(queue, e), sources, d, conn[d], phase[d])
      BY <1>1, <1>2, <1>3, <3>1, AppendOther
    <3> QED BY <2>1, <3>1, <3>2
  <2>4. queue' = queue \/ \E e \in QueueEvents : e.exchange = c /\ queue' = Append(queue, e)
    <3>1. CASE EmitConnected(c) \/ ReportClean(c) \/ ReportFailure(c)
      BY <3>1 DEF EmitConnected, ReportClean, ReportFailure, Put, QueueEvents,
         ConnectionEvents
    <3>2. CASE Receive(c)
      BY <1>1, <3>2 DEF Receive, Put, QueueEvents, Diffs, AllSymbols
    <3>3. CASE Connect(c) \/ Lose(c) \/ Unwound(c) \/ Wake(c) \/ End(c)
      BY <3>3 DEF Connect, Lose, Unwound, Wake, End
    <3> QED BY <1>3, <3>1, <3>2, <3>3 DEF ClientStep
  <2> QED BY <2>2, <2>3, <2>4
<1>4. ASSUME NEW c \in Clients, ClientStep(c) PROVE Ordered(c)
  <2>1. CASE Connect(c) \/ Lose(c) \/ Unwound(c) \/ End(c)
    <3>1. queue' = queue /\ sources' = sources /\ conn' = conn
      BY <2>1 DEF Connect, Lose, Unwound, End
    <3>2. \/ phase[c] = "connecting" /\ phase'[c] \in {"opening", "reporting"}
          \/ phase[c] = "streaming" /\ phase'[c] \in {"unwinding", "reporting"}
          \/ phase[c] = "unwinding" /\ phase'[c] = "reporting"
          \/ phase'[c] = "ended"
      BY <1>1, <2>1 DEF Connect, Lose, Unwound, End, Goto
    <3> QED BY <1>1, <1>2, <3>1, <3>2, PhaseStep
  <2>2. CASE EmitConnected(c)
    <3> DEFINE e == [type |-> "connected", exchange |-> c]
    <3>1. /\ queue' = Append(queue, e) /\ sources' = sources /\ conn' = conn
          /\ phase[c] = "opening" /\ phase'[c] = "streaming"
      BY <1>1, <2>2 DEF EmitConnected, Put, Goto
    <3>2. e \in QueueEvents /\ e.type = "connected"
      BY DEF QueueEvents, ConnectionEvents
    <3> HIDE DEF e
    <3>3. OrderedFor(Append(queue, e), sources, c, conn[c], "opening")
      BY <1>1, <1>2, <3>1, <3>2, AppendOther
    <3> QED BY <1>1, <3>1, <3>3, PhaseStep
  <2>3. CASE Receive(c)
    <3>1. PICK s \in Symbols[c] :
            Put([type |-> "diff", exchange |-> c, symbol |-> s, conn |-> conn[c]])
      BY <2>3 DEF Receive
    <3> DEFINE e == [type |-> "diff", exchange |-> c, symbol |-> s, conn |-> conn[c]]
    <3>2. /\ queue' = Append(queue, e) /\ sources' = sources /\ conn' = conn
          /\ phase[c] = "streaming" /\ phase' = phase
      BY <2>3, <3>1 DEF Receive, Put, clientVars
    <3>3. e \in QueueEvents /\ e.type = "diff" /\ e.exchange = c /\ e.conn = conn[c]
      BY <1>1 DEF QueueEvents, Diffs, AllSymbols
    <3> HIDE DEF e
    <3>4. conn[c] \in Conns /\ conn[c] \in Nat
          /\ OrderedFor(queue, sources, c, conn[c], "streaming")
      BY <1>1, <1>2, <3>2
    <3>5. OrderedFor(Append(queue, e), sources, c, conn[c], "streaming")
      BY <1>1, <3>3, <3>4, AppendDiff
    <3> QED BY <3>2, <3>5
  <2>4. CASE ReportClean(c) \/ ReportFailure(c)
    <3> DEFINE e == [type |-> "disconnected", exchange |-> c]
    <3>1. /\ queue' = Append(queue, e) /\ sources' = sources
      BY <2>4 DEF ReportClean, ReportFailure, Put
    <3>2. /\ phase'[c] \in {"connecting", "sleeping", "ended"}
          /\ conn'[c] \in {conn[c], conn[c] + 1}
          /\ phase'[c] = "connecting" => conn'[c] = conn[c] + 1
      BY <1>1, <2>4 DEF ReportClean, ReportFailure, LoopAgain, Goto
    <3>3. e \in QueueEvents /\ e.type = "disconnected" /\ e.exchange = c
      BY DEF QueueEvents, ConnectionEvents
    <3> HIDE DEF e
    <3>4. OrderedFor(Append(queue, e), sources, c, conn'[c], phase'[c])
      BY <1>1, <1>2, <3>2, <3>3, AppendEnd
    <3> QED BY <3>1, <3>4
  <2>5. CASE Wake(c)
    <3>1. /\ queue' = queue /\ sources' = sources /\ phase[c] = "sleeping"
          /\ phase'[c] \in {"connecting", "ended"}
          /\ conn'[c] \in {conn[c], conn[c] + 1}
          /\ phase'[c] = "connecting" => conn'[c] = conn[c] + 1
      BY <1>1, <2>5 DEF Wake, LoopAgain, Goto
    <3>2. OrderedFor(queue, sources, c, conn[c], "sleeping")
      BY <1>2, <3>1
    <3>3. OrderedFor(queue, sources, c, conn'[c], phase'[c])
      <4>1. \A i \in 0..Len(queue) : \A k \in Conns : IsFrom(queue, sources, i, c, k) =>
              /\ k <= conn[c]
              /\ \A j \in i..Len(queue) : \A l \in Conns :
                   IsFrom(queue, sources, j, c, l) /\ k # l => Between(queue, i, j, c)
              /\ Between(queue, i, Len(queue) + 1, c)
        BY <3>2 DEF OrderedFor
      <4> QED BY <1>1, <3>1, <4>1, AllOver
    <3> QED BY <3>1, <3>3
  <2> QED BY <1>4, <2>1, <2>2, <2>3, <2>4, <2>5 DEF ClientStep
<1>5. CASE \E c \in Clients : ClientStep(c)
  <2>1. PICK c \in Clients : ClientStep(c)
    BY <1>5
  <2>2. ASSUME NEW d \in Clients PROVE Ordered(d)
    BY <1>3, <1>4, <2>1
  <2> QED BY <2>2 DEF OrderInv
<1>6. CASE Stop \/ GatherReturns \/ UNCHANGED vars
  <2>1. /\ queue' = queue /\ sources' = sources /\ conn' = conn
        /\ \A c \in Clients : phase'[c] = phase[c] \/ phase'[c] = "cancelled"
    BY <1>6 DEF Stop, CancelledAt, GatherReturns, vars, clientVars
  <2>2. ASSUME NEW c \in Clients PROVE Ordered(c)
    BY <1>1, <1>2, <2>1, PhaseStep
  <2> QED BY <2>2 DEF OrderInv
<1> QED BY <1>5, <1>6, OrderConsume DEF Next

\* At any number of clients and symbols and any interleaving of their events, no
\* reconciler holds diffs of two connections of its exchange.
THEOREM OneConnectionAtATime == Spec => []BooksFromOneConnection
<1>1. ASSUME TypeInv, OrderInv PROVE BooksFromOneConnection
  <2> SUFFICES ASSUME NEW c \in Clients, NEW s \in DOMAIN sources[c]
               PROVE  Cardinality(sources[c][s]) <= 1
    BY DEF BooksFromOneConnection
  <2>1. sources[c][s] \subseteq Conns
    <3>1. PICK S \in SUBSET AllSymbols : sources[c] \in [S -> SUBSET Conns]
      BY <1>1 DEF TypeInv, TypeOK, Registries
    <3> QED BY <3>1
  <2>2. ASSUME NEW k \in sources[c][s], NEW l \in sources[c][s], k # l PROVE FALSE
    <3>1. IsFrom(queue, sources, 0, c, k) /\ IsFrom(queue, sources, 0, c, l)
      BY DEF IsFrom
    <3>2. OrderedFor(queue, sources, c, conn[c], phase[c]) /\ Len(queue) \in Nat
      BY <1>1 DEF OrderInv, TypeInv, TypeOK
    <3>3. Between(queue, 0, 0, c)
      BY <2>1, <2>2, <3>1, <3>2 DEF OrderedFor
    <3> QED BY <3>3 DEF Between
  <2>3. sources[c][s] = {} \/ \E k : sources[c][s] = {k}
    BY <2>2
  <2>4. CASE sources[c][s] = {}
    BY <2>4, FS_EmptySet
  <2>5. CASE \E k : sources[c][s] = {k}
    <3>1. Cardinality(sources[c][s]) = 1
      BY <2>5, FS_Singleton
    <3> QED BY <3>1
  <2> QED BY <2>3, <2>4, <2>5
<1> QED BY <1>1, TypeInit, TypeStep, OrderInit, OrderStep, PTL DEF Spec

\* And it loses what it holds only to the end of the connection that it is from:
\* never while that connection is up, and never to another client's failure.
THEOREM OnlyItsOwnEndClearsABook == Spec => ClearedBooksLostTheirConnection
<1> DEFINE Kept ==
      \A c \in Clients : \A s \in DOMAIN sources[c] : \A k \in sources[c][s] :
        \/ s \in DOMAIN sources'[c] /\ k \in sources'[c][s]
        \/ k < conn[c]
        \/ phase[c] \notin {"streaming", "unwinding", "reporting"}
<1>1. ASSUME TypeInv, OrderInv, [Next]_vars PROVE [Kept]_vars
  <2> SUFFICES ASSUME Next, NEW c \in Clients, NEW s \in DOMAIN sources[c],
                      NEW k \in sources[c][s], ~(k < conn[c]),
                      phase[c] \in {"streaming", "unwinding", "reporting"}
               PROVE  s \in DOMAIN sources'[c] /\ k \in sources'[c][s]
    BY <1>1
  <2>1. sources \in [Clients -> Registries] /\ conn[c] \in Nat
    BY <1>1, CountsType DEF TypeInv, TypeOK
  <2>2. k \in Conns /\ k \in Nat
    <3>1. PICK S \in SUBSET AllSymbols : sources[c] \in [S -> SUBSET Conns]
      BY <2>1 DEF Registries
    <3> QED BY <3>1, ConnsOf
  <2>3. ~Between(queue, 0, Len(queue) + 1, c) /\ Len(queue) \in Nat
    <3>1. IsFrom(queue, sources, 0, c, k)
      BY DEF IsFrom
    <3>2. OrderedFor(queue, sources, c, conn[c], phase[c]) /\ Len(queue) \in Nat
      BY <1>1 DEF OrderInv, TypeInv, TypeOK
    <3>3. k <= conn[c]
      BY <2>2, <3>1, <3>2 DEF OrderedFor
    <3>4. k = conn[c]
      BY <2>1, <2>2, <3>3
    <3> QED BY <2>2, <3>1, <3>2, <3>4 DEF OrderedFor
  <2>4. CASE ConsumeDiff
    <3> DEFINE e == Head(queue)
               g == [t \in DOMAIN sources[e.exchange] \cup {e.symbol} |->
                       SourcesOf(e.exchange, t) \cup { x \in {e.conn} : t = e.symbol }]
    <3>1. sources' = [sources EXCEPT ![e.exchange] = g]
      BY <2>4, Zenon DEF ConsumeDiff
    <3>2. CASE e.exchange # c
      <4>1. sources'[c] = sources[c]
        BY <2>1, <3>1, <3>2
      <4> QED BY <4>1
    <3>3. CASE e.exchange = c
      <4>1. sources'[c] = g
        BY <2>1, <3>1, <3>3
      <4> QED BY <3>3, <4>1 DEF SourcesOf
    <3> QED BY <3>2, <3>3
  <2>5. CASE ConsumeConnectionEvent
    <3>1. queue # <<>> /\ Head(queue) = queue[1] /\ Len(queue) >= 1
      BY <1>1, <2>3, <2>5, HeadType DEF ConsumeConnectionEvent
    <3>2. ~Ends(queue, 1, c)
      BY <2>3, <3>1 DEF Between
    <3>3. sources'[c] = sources[c]
      BY <2>1, <2>5, <3>1, <3>2 DEF ConsumeConnectionEvent, Ends,
         _broadcast_connection_event
    <3> QED BY <3>3
  <2>6. CASE (\E d \in Clients : ClientStep(d)) \/ Stop \/ GatherReturns
    <3>1. sources' = sources
      BY <2>6 DEF ClientStep, Connect, EmitConnected, Receive, Lose, Unwound,
         ReportClean, ReportFailure, Wake, End, Stop, GatherReturns
    <3> QED BY <3>1
  <2> QED BY <2>4, <2>5, <2>6 DEF Next, Consume
<1>2. Spec => [](TypeInv /\ OrderInv)
  BY TypeInit, TypeStep, OrderInit, OrderStep, PTL DEF Spec
<1>3. TypeInv /\ OrderInv /\ [Next]_vars => [Kept]_vars
  BY <1>1
<1> HIDE DEF Kept
<1>4. Spec => [][Kept]_vars
  BY <1>2, <1>3, PTL DEF Spec
<1>5. [][Kept]_vars => ClearedBooksLostTheirConnection
  BY PTL DEF Kept, ClearedBooksLostTheirConnection
<1> QED BY <1>4, <1>5
===============================================================================
