--------------------------- MODULE BookReplayProofs ---------------------------
(***************************************************************************)
(* Theorems of BookReplay, for every market, any number of connections and *)
(* with or without a retention policy.                                     *)
(***************************************************************************)
EXTENDS BookReplay, MarketProofs, LeastNumber

------------------------------------------------------------------------------
(* The live reconciler: whatever it is given, it stays one. *)

LEMMA ApplyDiffReconciler ==
  ASSUME NEW r \in Reconcilers, NEW d \in Diffs
  PROVE  ApplyDiff(r, d) \in Reconcilers
<1>1. d.first \in Ids /\ d.last \in Ids /\ r.book \in Books
  BY DEF Diffs, Reconcilers
<1>2. apply_levels(r.book, DiffLevels(d.first, d.last)) \in Books
  BY <1>1, ApplyDiffType
<1> QED BY <1>1, <1>2 DEF ApplyDiff, Reconcilers

LEMMA GapReconciler ==
  ASSUME NEW r \in Reconcilers
  PROVE  Gap(r) \in Reconcilers
<1>1. <<>> \in Seq(Diffs)
  OBVIOUS
<1> QED BY <1>1, EmptyBookType DEF Gap, Reconcilers

LEMMA DrainStepReconciler ==
  ASSUME NEW r \in Reconcilers
  PROVE  DrainStep(r) \in Reconcilers
<1>1. CASE r.pending = <<>>
  BY <1>1 DEF DrainStep
<1>2. CASE r.pending # <<>>
  <2> DEFINE d == Head(r.pending)
             p == Popped(r)
  <2>1. r.pending \in Seq(Diffs)
    BY DEF Reconcilers
  <2>2. d \in Diffs /\ Tail(r.pending) \in Seq(Diffs)
    BY <1>2, <2>1
  <2>3. p \in Reconcilers
    BY <2>2 DEF Popped, Reconcilers
  <2>4. DrainStep(r) \in {p, r, ApplyDiff(p, d), Gap(r),
                          [ApplyDiff(p, d) EXCEPT !.awaiting = FALSE, !.synced = TRUE]}
    BY <1>2 DEF DrainStep
  <2> HIDE DEF d, p
  <2>5. ApplyDiff(p, d) \in Reconcilers /\ Gap(r) \in Reconcilers
    BY <2>2, <2>3, ApplyDiffReconciler, GapReconciler
  <2>6. [ApplyDiff(p, d) EXCEPT !.awaiting = FALSE, !.synced = TRUE] \in Reconcilers
    BY <2>5 DEF Reconcilers
  <2> QED BY <2>3, <2>4, <2>5, <2>6
<1> QED BY <1>1, <1>2

\* The loop of _drain_buffer keeps what each of its iterations keeps; P[k] is what
\* holds after k of them.
LEMMA DrainKeeps ==
  ASSUME NEW P \in [Nat -> SUBSET Reconcilers], NEW r \in P[0],
         \A k \in Nat : \A x \in P[k] : DrainStep(x) \in P[k + 1]
  PROVE  Drain(r) \in P[Len(r.pending)]
<1> DEFINE N == Len(r.pending)
           step == [x \in (0..N) \X Reconcilers |-> DrainStep(x[2])]
           Equation(f) == f = [k \in 0..N |-> IF k = 0 THEN r ELSE DrainStep(f[k - 1])]
<1>1. r \in Reconcilers /\ N \in Nat /\ N \in 0..N
  BY DEF Reconcilers
<1>2. step \in [(0..N) \X Reconcilers -> Reconcilers]
  BY DrainStepReconciler
<1> HIDE DEF N
<1>3. PICK f : Computed(f, 0, N, Reconcilers, r, step)
  <2>1. 0 \in Nat /\ 0 <= N
    BY <1>1
  <2> HIDE DEF step
  <2> QED BY <1>1, <1>2, <2>1, RecursionExists
<1>4. \A k \in 1..N : f[k] = DrainStep(f[k - 1])
  <2> SUFFICES ASSUME NEW k \in 1..N PROVE f[k] = DrainStep(f[k - 1])
    OBVIOUS
  <2>1. k \in (0 + 1)..N /\ k \in 0..N /\ k - 1 \in 0..N
    BY <1>1
  <2>2. <<k, f[k - 1]>> \in (0..N) \X Reconcilers
    BY <1>3, <2>1 DEF Computed
  <2> QED BY <1>3, <2>1, <2>2 DEF Computed
<1>5. Equation(f)
  <2>1. \A k \in 0..N : f[k] = IF k = 0 THEN r ELSE DrainStep(f[k - 1])
    BY <1>1, <1>3, <1>4 DEF Computed
  <2>2. f \in [0..N -> Reconcilers]
    BY <1>3 DEF Computed
  <2>3. f = [k \in 0..N |-> f[k]]
    BY <2>2
  <2> QED BY <2>1, <2>3
<1>6. PICK g : Equation(g) /\ Drain(r) = g[N]
  <2>1. Equation(CHOOSE g : Equation(g))
    BY <1>5
  <2>2. Drain(r) = (CHOOSE g : Equation(g))[N]
    BY DEF Drain, Iterations, N
  <2> QED BY <2>1, <2>2
<1>7. \A k \in 0..N : g[k] = IF k = 0 THEN r ELSE DrainStep(g[k - 1])
  BY <1>6, Zenon
<1> DEFINE S == {k \in 0..N : g[k] \in P[k]}
<1>8. 0 \in S
  <2>1. 0 \in 0..N
    BY <1>1
  <2>2. g[0] = r
    BY <1>7, <2>1
  <2> QED BY <2>1, <2>2
<1>9. ASSUME NEW k \in (0 + 1)..N, k - 1 \in S PROVE k \in S
  <2>1. k \in 0..N /\ k # 0 /\ k - 1 \in Nat /\ (k - 1) + 1 = k
    BY <1>1
  <2>2. g[k] = DrainStep(g[k - 1])
    BY <1>7, <2>1
  <2>3. g[k - 1] \in P[k - 1]
    BY <1>9
  <2>4. DrainStep(g[k - 1]) \in P[(k - 1) + 1]
    BY <2>1, <2>3
  <2> QED BY <2>1, <2>2, <2>4
<1>10. 0..N \subseteq S
  <2> HIDE DEF S
  <2> QED BY <1>1, <1>8, <1>9, IntervalInduction
<1> QED BY <1>1, <1>6, <1>10 DEF N

LEMMA DrainReconciler ==
  ASSUME NEW r \in Reconcilers
  PROVE  Drain(r) \in Reconcilers
<1> DEFINE P == [k \in Nat |-> Reconcilers]
<1>1. P \in [Nat -> SUBSET Reconcilers] /\ r \in P[0]
  OBVIOUS
<1>2. \A k \in Nat : \A x \in P[k] : DrainStep(x) \in P[k + 1]
  BY DrainStepReconciler
<1>3. Len(r.pending) \in Nat
  BY DEF Reconcilers
<1>4. P[Len(r.pending)] = Reconcilers
  BY <1>3
<1> HIDE DEF P
<1> QED BY <1>1, <1>2, <1>4, DrainKeeps

LEMMA HandlersReconciler ==
  ASSUME NEW r \in Reconcilers
  PROVE  /\ \A d \in Diffs : handle_diff(r, d) \in Reconcilers
         /\ \A n \in Ids : handle_snapshot(r, n) \in Reconcilers
         /\ \A kind : handle_connection_event(r, kind) \in Reconcilers
<1>1. ASSUME NEW d \in Diffs PROVE handle_diff(r, d) \in Reconcilers
  <2>1. Append(r.pending, d) \in Seq(Diffs)
    BY DEF Reconcilers
  <2>2. BoundBuffer(Append(r.pending, d)) \in Seq(Diffs)
    BY <2>1, BoundBufferType
  <2>3. Buffered(r, d) \in Reconcilers
    BY <2>2 DEF Buffered, Reconcilers
  <2> QED BY <2>3, DrainReconciler, ApplyDiffReconciler, GapReconciler DEF handle_diff
<1>2. ASSUME NEW n \in Ids PROVE handle_snapshot(r, n) \in Reconcilers
  <2> DEFINE b == apply_snapshot(SnapshotLevels(n))
             s == [r EXCEPT !.book = b, !.lastId = n, !.synced = FALSE, !.awaiting = TRUE]
  <2>1. b \in Books
    BY SnapshotShows
  <2> HIDE DEF b
  <2>2. s \in Reconcilers
    BY <2>1 DEF Reconcilers
  <2>3. handle_snapshot(r, n) = Drain(s)
    BY DEF handle_snapshot, b
  <2> HIDE DEF s
  <2> QED BY <2>2, <2>3, DrainReconciler
<1>3. ASSUME NEW kind PROVE handle_connection_event(r, kind) \in Reconcilers
  <2>1. <<>> \in Seq(Diffs)
    OBVIOUS
  <2> QED BY <2>1, EmptyBookType DEF handle_connection_event, Reconcilers
<1> QED BY <1>1, <1>2, <1>3

------------------------------------------------------------------------------
(* Types. *)

\* The exchange stays within the bound, and only diffs are on their way.
TypeInv ==
  /\ TypeOK
  /\ Published <= MaxUpdates
  /\ \A i \in DOMAIN transit : transit[i].event \in Diffs

LEMMA DiffFields ==
  ASSUME NEW d \in Diffs
  PROVE  /\ d.type = "diff" /\ d.first \in Ids /\ d.last \in Ids
         /\ d.first \in Nat /\ d.last \in Nat /\ 1 <= d.first /\ d.first <= d.last
  BY DEF Diffs, Ids

\* The diff that EmitDiff sends.
LEMMA EmittedDiff ==
  ASSUME TypeInv, EmitDiff
  PROVE  LET d == [type |-> "diff", first |-> emitted + 1, last |-> Published]
         IN  /\ d \in Diffs /\ d.first = emitted + 1 /\ d.last = Published
             /\ Stamped(d, clock) \in Received
             /\ transit' = Append(transit, Stamped(d, clock))
             /\ Published \in Ids
<1> DEFINE d == [type |-> "diff", first |-> emitted + 1, last |-> Published]
<1>1. /\ emitted \in Nat /\ Published \in Nat /\ Published <= MaxUpdates
      /\ MaxUpdates \in Nat /\ clock \in Nat
  BY MarketAssumption DEF TypeInv, TypeOK, Ids, Times, Published
<1>2. emitted < Published
  BY DEF EmitDiff
<1>3. emitted + 1 \in Ids /\ Published \in Ids
  BY <1>1, <1>2 DEF Ids
<1>4. d \in Diffs
  BY <1>1, <1>2, <1>3 DEF Diffs
<1> QED BY <1>1, <1>3, <1>4 DEF EmitDiff, Stamped, Received, Times

\* The diff that arrives, and the log and the transit after it.
LEMMA ArrivingDiff ==
  ASSUME TypeInv, DiffArrives
  PROVE  LET d == Head(transit).event
         IN  /\ d \in Diffs /\ d = transit[1].event /\ Head(transit) = transit[1]
             /\ 1 \in DOMAIN transit /\ transit[1].ts \in Times
             /\ log' = Logged(d, DiffLevels(d.first, d.last), transit[1].ts)
             /\ transit' = Tail(transit) /\ transit' \in Seq(Received)
             /\ Len(transit') = Len(transit) - 1
             /\ \A i \in DOMAIN transit' :
                  i + 1 \in DOMAIN transit /\ transit'[i] = transit[i + 1]
<1>1. transit \in Seq(Received) /\ transit # <<>>
  BY DEF TypeInv, TypeOK, DiffArrives
<1>2. /\ 1 \in DOMAIN transit /\ Head(transit) = transit[1] /\ transit[1] \in Received
      /\ Tail(transit) \in Seq(Received) /\ Len(Tail(transit)) = Len(transit) - 1
      /\ \A i \in DOMAIN Tail(transit) :
           i + 1 \in DOMAIN transit /\ Tail(transit)[i] = transit[i + 1]
  BY <1>1
<1>3. transit[1].event \in Diffs /\ transit[1].ts \in Times
  BY <1>2 DEF TypeInv, Received
<1> QED BY <1>2, <1>3, Zenon DEF DiffArrives

LEMMA LoggedType ==
  ASSUME TypeInv, NEW event \in Diffs \cup Snapshots, NEW levels, NEW ts \in Times
  PROVE  Logged(event, levels, ts) \in Seq(Entries)
<1>1. log \in Seq(Entries) /\ conn \in 1..MaxConnections
  BY DEF TypeInv, TypeOK
<1>2. [event |-> event, ts |-> ts, conn |-> conn] \in Entries
  BY <1>1 DEF Entries
<1> QED BY <1>1, <1>2 DEF Logged

LEMMA TypeInit == Init => TypeInv
<1> SUFFICES ASSUME Init PROVE TypeInv
  OBVIOUS
<1>1. MaxUpdates \in Nat /\ 0 \in Ids
  BY MarketAssumption DEF Ids
<1>2. 1 \in 1..MaxConnections
  BY ReplayAssumption
<1>3. NewReconciler \in Reconcilers
  <2>1. <<>> \in Seq(Diffs)
    OBVIOUS
  <2> QED BY <2>1, EmptyBookType DEF NewReconciler, Reconcilers
<1>4. Requested \in FetchStates
  BY <1>1 DEF Requested, FetchStates, Times
<1> QED BY <1>1, <1>2, <1>3, <1>4 DEF Init, TypeInv, TypeOK, Published, Times

LEMMA TypeStep == TypeInv /\ [Next]_vars => TypeInv'
<1> SUFFICES ASSUME TypeInv, [Next]_vars PROVE TypeInv'
  OBVIOUS
<1> USE DEF TypeInv, TypeOK, Times
<1>1. CASE Publish
  <2>1. /\ publishedAt' \in Seq(Nat) /\ Len(publishedAt') = Len(publishedAt) + 1
        /\ clock' \in Nat
    BY <1>1 DEF Publish, Tick
  <2>2. Published' <= MaxUpdates
    BY <1>1, <2>1, MarketAssumption DEF Publish, Published
  <2> QED BY <1>1, <2>1, <2>2 DEF Publish
<1>2. CASE EmitDiff
  <2> DEFINE d == [type |-> "diff", first |-> emitted + 1, last |-> Published]
             s == Stamped(d, clock)
  <2>1. d \in Diffs /\ s \in Received /\ transit' = Append(transit, s) /\ Published \in Ids
    BY <1>2, EmittedDiff
  <2>2. s.event = d
    BY DEF Stamped
  <2> HIDE DEF d, s
  <2>3. /\ transit' \in Seq(Received)
        /\ \A i \in DOMAIN transit' : transit'[i].event \in Diffs
    BY <2>1, <2>2
  <2>4. emitted' \in Ids /\ clock' \in Nat
    BY <1>2, <2>1 DEF EmitDiff, Tick
  <2>5. UNCHANGED <<publishedAt, conn, fetch, log, oldest, rec>>
    BY <1>2 DEF EmitDiff
  <2> QED BY <2>3, <2>4, <2>5 DEF Published
<1>3. CASE Answer
  <2>1. Published \in Ids
    BY MarketAssumption DEF Published, Ids
  <2> QED BY <1>3, <2>1 DEF Answer, FetchStates, Published
<1>4. CASE SnapshotArrives
  <2>1. /\ fetch' = [fetch EXCEPT !.pc = "put", !.ts = clock] /\ clock' = clock + 1
        /\ UNCHANGED <<publishedAt, transit, emitted, conn, log, oldest, rec>>
    BY <1>4 DEF SnapshotArrives, Tick
  <2>2. fetch' \in FetchStates
    BY <2>1 DEF FetchStates
  <2>3. clock' \in Nat
    BY <2>1
  <2> QED BY <2>1, <2>2, <2>3 DEF Published
<1>5. CASE PutSnapshot
  <2>1. fetch.id \in Ids /\ fetch.ts \in Times
    BY DEF FetchStates
  <2>2. [type |-> "snapshot", id |-> fetch.id] \in Snapshots
    BY <2>1 DEF Snapshots
  <2>3. log' \in Seq(Entries)
    BY <1>5, <2>1, <2>2, LoggedType DEF PutSnapshot
  <2>4. rec' \in Reconcilers
    BY <1>5, <2>1, HandlersReconciler DEF PutSnapshot
  <2>5. fetch' \in FetchStates
    BY <1>5 DEF PutSnapshot, FetchStates
  <2> QED BY <1>5, <2>3, <2>4, <2>5 DEF PutSnapshot, Published
<1>6. CASE DiffArrives
  <2> DEFINE d == Head(transit).event
  <2>1. /\ d \in Diffs /\ transit[1].ts \in Times
        /\ log' = Logged(d, DiffLevels(d.first, d.last), transit[1].ts)
        /\ transit' \in Seq(Received)
        /\ \A i \in DOMAIN transit' :
             i + 1 \in DOMAIN transit /\ transit'[i] = transit[i + 1]
    BY <1>6, ArrivingDiff
  <2>2. rec' \in Reconcilers
    BY <1>6, <2>1, HandlersReconciler DEF DiffArrives
  <2> HIDE DEF d
  <2>3. log' \in Seq(Entries)
    BY <2>1, LoggedType
  <2>4. UNCHANGED <<clock, publishedAt, emitted, conn, fetch, oldest>>
    BY <1>6 DEF DiffArrives
  <2> QED BY <2>1, <2>2, <2>3, <2>4 DEF Published
<1>7. CASE Reconnect
  <2>1. conn' \in 1..MaxConnections
    BY <1>7, ReplayAssumption DEF Reconnect
  <2>2. Published \in Ids
    BY MarketAssumption DEF Published, Ids
  <2>3. Requested \in FetchStates
    BY MarketAssumption DEF Requested, FetchStates, Ids
  <2>4. rec' \in Reconcilers
    BY <1>7, HandlersReconciler DEF Reconnect
  <2> QED BY <1>7, <2>1, <2>2, <2>3, <2>4 DEF Reconnect, Published
<1>8. CASE DropChunks
  <2>1. oldest' \in Nat
    BY <1>8 DEF DropChunks
  <2> QED BY <1>8, <2>1 DEF DropChunks, Published
<1>9. CASE UNCHANGED vars
  BY <1>9 DEF vars, Published
<1> QED BY <1>1, <1>2, <1>3, <1>4, <1>5, <1>6, <1>7, <1>8, <1>9 DEF Next

\* Every variable keeps its type: the log holds events of the exchange, from a
\* connection there has been, whatever is lost with one or dropped from the log.
THEOREM TypeCorrect == Spec => []TypeOK
<1>1. Init => TypeInv
  BY TypeInit
<1>2. TypeInv /\ [Next]_vars => TypeInv'
  BY TypeStep
<1>3. TypeInv => TypeOK
  BY DEF TypeInv
<1> QED BY <1>1, <1>2, <1>3, PTL DEF Spec

------------------------------------------------------------------------------
(* The stamped events: those of the log, and those on their way to it. *)

\* The last update that an event covers.
LastOf(event) == IF event.type = "diff" THEN event.last ELSE event.id

IsDiff(e) == e.event.type = "diff"
IsSnapshot(e) == e.event.type = "snapshot"

Entry(event, ts, c) == [event |-> event, ts |-> ts, conn |-> c]

SnapshotOf(n) == [type |-> "snapshot", id |-> n]

Logs == ToSet(log)

InTransit == { Entry(transit[i].event, transit[i].ts, conn) : i \in DOMAIN transit }

Fetched == IF fetch.pc = "put" THEN {Entry(SnapshotOf(fetch.id), fetch.ts, conn)} ELSE {}

Stamps == Logs \cup InTransit \cup Fetched

\* An entry is of a diff or of a snapshot.
LEMMA EntryKinds ==
  ASSUME NEW e \in Entries
  PROVE  /\ e.ts \in Nat /\ e.conn \in Nat /\ e.conn \in 1..MaxConnections
         /\ LastOf(e.event) \in Ids /\ LastOf(e.event) \in Nat
         /\ \/ /\ IsDiff(e) /\ ~IsSnapshot(e) /\ e.event \in Diffs
               /\ LastOf(e.event) = e.event.last
               /\ e.event.first \in Nat /\ e.event.last \in Ids /\ e.event.last \in Nat
               /\ 1 <= e.event.first /\ e.event.first <= e.event.last
            \/ /\ IsSnapshot(e) /\ ~IsDiff(e) /\ e.event \in Snapshots
               /\ LastOf(e.event) = e.event.id
               /\ e.event.id \in Ids /\ e.event.id \in Nat
<1>1. e.ts \in Nat /\ e.conn \in 1..MaxConnections /\ e.event \in Diffs \cup Snapshots
  BY DEF Entries, Times
<1>2. e.conn \in Nat
  BY <1>1, ReplayAssumption
<1>3. CASE e.event \in Diffs
  BY <1>1, <1>2, <1>3, DiffFields DEF LastOf, IsDiff, IsSnapshot
<1>4. CASE e.event \in Snapshots
  BY <1>1, <1>2, <1>4 DEF LastOf, IsDiff, IsSnapshot, Snapshots, Ids
<1> QED BY <1>1, <1>3, <1>4

LEMMA StampsType ==
  ASSUME TypeInv
  PROVE  Stamps \subseteq Entries
<1>1. /\ log \in Seq(Entries) /\ transit \in Seq(Received) /\ conn \in 1..MaxConnections
      /\ fetch.id \in Ids /\ fetch.ts \in Times
  BY DEF TypeInv, TypeOK, FetchStates
<1>2. Logs \subseteq Entries
  BY <1>1 DEF Logs, ToSet
<1>3. InTransit \subseteq Entries
  <2> SUFFICES ASSUME NEW i \in DOMAIN transit
               PROVE  Entry(transit[i].event, transit[i].ts, conn) \in Entries
    BY DEF InTransit
  <2>1. transit[i] \in Received
    BY <1>1
  <2> QED BY <1>1, <2>1 DEF Entry, Entries, Received
<1>4. Fetched \subseteq Entries
  BY <1>1 DEF Fetched, Entry, Entries, SnapshotOf, Snapshots
<1> QED BY <1>2, <1>3, <1>4 DEF Stamps

\* The log after an event.
LEMMA LoggedEntries ==
  ASSUME TypeInv, NEW event, NEW levels, NEW ts
  PROVE  ToSet(Logged(event, levels, ts)) =
           IF DOMAIN levels = {} THEN Logs ELSE Logs \cup {Entry(event, ts, conn)}
<1> DEFINE e == Entry(event, ts, conn)
<1>1. Logged(event, levels, ts) = IF DOMAIN levels = {} THEN log ELSE Append(log, e)
  BY DEF Logged, Entry
<1>2. log \in Seq(Entries)
  BY DEF TypeInv, TypeOK
<1> HIDE DEF e
<1>3. ToSet(Append(log, e)) = Logs \cup {e}
  <2>1. /\ Len(log) \in Nat /\ DOMAIN log = 1..Len(log)
        /\ DOMAIN Append(log, e) = 1..(Len(log) + 1)
        /\ \A i \in 1..Len(log) : Append(log, e)[i] = log[i]
        /\ Append(log, e)[Len(log) + 1] = e
    BY <1>2
  <2>2. 1..(Len(log) + 1) = 1..Len(log) \cup {Len(log) + 1}
    BY <2>1
  <2> QED BY <2>1, <2>2 DEF ToSet, Logs
<1> QED BY <1>1, <1>3 DEF Logs, e

\* What each action does to the stamped events: two stamp one with the clock, the
\* others stamp none.
LEMMA EmitStamps ==
  ASSUME TypeInv, EmitDiff
  PROVE  LET d == [type |-> "diff", first |-> emitted + 1, last |-> Published]
         IN  /\ d \in Diffs /\ d.first = emitted + 1 /\ d.last = Published
             /\ Logs' = Logs
             /\ Stamps' = Stamps \cup {Entry(d, clock, conn)}
<1> DEFINE d == [type |-> "diff", first |-> emitted + 1, last |-> Published]
           s == Stamped(d, clock)
<1>1. d \in Diffs /\ d.first = emitted + 1 /\ d.last = Published
      /\ transit' = Append(transit, s) /\ s.event = d /\ s.ts = clock
  BY EmittedDiff DEF Stamped
<1>2. conn' = conn /\ fetch' = fetch /\ log' = log
  BY DEF EmitDiff
<1> HIDE DEF d, s
<1>3. InTransit' = InTransit \cup {Entry(d, clock, conn)}
  <2>1. transit \in Seq(Received)
    BY DEF TypeInv, TypeOK
  <2>2. /\ Len(transit) \in Nat /\ DOMAIN transit = 1..Len(transit)
        /\ DOMAIN transit' = 1..(Len(transit) + 1)
        /\ \A i \in 1..Len(transit) : transit'[i] = transit[i]
        /\ transit'[Len(transit) + 1] = s
    BY <1>1, <2>1
  <2>3. 1..(Len(transit) + 1) = 1..Len(transit) \cup {Len(transit) + 1}
    BY <2>2
  <2> QED BY <1>1, <1>2, <2>2, <2>3 DEF InTransit
<1>4. Logs' = Logs /\ Fetched' = Fetched
  BY <1>2 DEF Logs, Fetched
<1> QED BY <1>1, <1>3, <1>4 DEF Stamps, d

LEMMA SnapshotStamps ==
  ASSUME TypeInv, SnapshotArrives
  PROVE  /\ Logs' = Logs
         /\ Stamps' = Stamps \cup {Entry(SnapshotOf(fetch.id), clock, conn)}
         /\ fetch.id \in Ids
<1>1. /\ fetch.pc = "answered" /\ fetch \in FetchStates
      /\ fetch' = [fetch EXCEPT !.pc = "put", !.ts = clock]
      /\ conn' = conn /\ log' = log /\ transit' = transit
  BY DEF SnapshotArrives, TypeInv, TypeOK
<1>2. /\ fetch'.pc = "put" /\ fetch'.ts = clock /\ fetch'.id = fetch.id
      /\ fetch.id \in Ids
  BY <1>1 DEF FetchStates
<1>3. Fetched = {} /\ Fetched' = {Entry(SnapshotOf(fetch.id), clock, conn)}
  BY <1>1, <1>2 DEF Fetched
<1>4. Logs' = Logs /\ InTransit' = InTransit
  BY <1>1 DEF Logs, InTransit
<1> QED BY <1>2, <1>3, <1>4 DEF Stamps

LEMMA PutSnapshotStamps ==
  ASSUME TypeInv, PutSnapshot
  PROVE  /\ Stamps' \subseteq Stamps
         /\ Logs \subseteq Logs' /\ Logs' \subseteq Logs \cup Fetched
<1>1. /\ fetch.pc = "put" /\ fetch'.pc = "done"
      /\ log' = Logged(SnapshotOf(fetch.id), SnapshotLevels(fetch.id), fetch.ts)
      /\ conn' = conn /\ transit' = transit
  BY DEF PutSnapshot, SnapshotOf, TypeInv, TypeOK, FetchStates
<1>2. /\ Logs \subseteq Logs'
      /\ Logs' \subseteq Logs \cup {Entry(SnapshotOf(fetch.id), fetch.ts, conn)}
  BY <1>1, LoggedEntries DEF Logs
<1>3. Fetched' = {} /\ Fetched = {Entry(SnapshotOf(fetch.id), fetch.ts, conn)}
  BY <1>1 DEF Fetched
<1>4. InTransit' = InTransit
  BY <1>1 DEF InTransit
<1> QED BY <1>2, <1>3, <1>4 DEF Stamps

LEMMA DiffArrivesStamps ==
  ASSUME TypeInv, DiffArrives
  PROVE  LET d == transit[1].event
             e == Entry(d, transit[1].ts, conn)
         IN  /\ d \in Diffs /\ e \in InTransit
             /\ Stamps' \subseteq Stamps
             /\ Logs' = IF Touched(d.first, d.last) = {} THEN Logs ELSE Logs \cup {e}
<1> DEFINE d == transit[1].event
           e == Entry(d, transit[1].ts, conn)
<1>1. /\ d \in Diffs /\ 1 \in DOMAIN transit
      /\ log' = Logged(d, DiffLevels(d.first, d.last), transit[1].ts)
      /\ \A i \in DOMAIN transit' : i + 1 \in DOMAIN transit /\ transit'[i] = transit[i + 1]
  BY ArrivingDiff
<1>2. conn' = conn /\ fetch' = fetch
  BY DEF DiffArrives
<1>3. Logs' = IF Touched(d.first, d.last) = {} THEN Logs ELSE Logs \cup {e}
  <2>1. DOMAIN DiffLevels(d.first, d.last) = Touched(d.first, d.last)
    BY DEF DiffLevels
  <2>2. Logs' = ToSet(Logged(d, DiffLevels(d.first, d.last), transit[1].ts))
    BY <1>1 DEF Logs
  <2> QED BY <2>1, <2>2, LoggedEntries
<1>4. e \in InTransit
  BY <1>1 DEF InTransit
<1>5. InTransit' \subseteq InTransit
  BY <1>1, <1>2 DEF InTransit
<1>6. Fetched' = Fetched
  BY <1>2 DEF Fetched
<1> QED BY <1>1, <1>3, <1>4, <1>5, <1>6 DEF Stamps

LEMMA ReconnectStamps ==
  ASSUME Reconnect
  PROVE  Logs' = Logs /\ Stamps' = Logs /\ InTransit' = {} /\ Fetched' = {}
<1>1. log' = log /\ transit' = <<>> /\ fetch'.pc = "rest"
  BY DEF Reconnect, Requested
<1>2. Logs' = Logs /\ InTransit' = {} /\ Fetched' = {}
  BY <1>1 DEF Logs, InTransit, Fetched
<1> QED BY <1>2 DEF Stamps

LEMMA IdleStamps ==
  ASSUME log' = log, transit' = transit, conn' = conn,
         \/ fetch' = fetch
         \/ fetch.pc # "put" /\ fetch'.pc # "put"
  PROVE  Logs' = Logs /\ InTransit' = InTransit /\ Stamps' = Stamps
<1>1. Logs' = Logs /\ InTransit' = InTransit /\ Fetched' = Fetched
  BY DEF Logs, InTransit, Fetched
<1> QED BY <1>1 DEF Stamps

------------------------------------------------------------------------------
(* The past: an event is stamped after the updates it covers. *)

StampedAfter(e) == \A n \in 1..LastOf(e.event) : publishedAt[n] < e.ts

PastEvent(e) ==
  /\ e.ts < clock /\ e.conn <= conn
  /\ LastOf(e.event) <= Published
  /\ StampedAfter(e)
  /\ e.conn = conn /\ IsDiff(e) => e.event.last <= emitted
  /\ e.conn = conn /\ IsSnapshot(e) => fetch.pc \in {"put", "done"} /\ e.event.id = fetch.id

PastInv ==
  /\ \A n \in DOMAIN publishedAt : publishedAt[n] < clock
  /\ emitted <= Published
  /\ fetch.pc # "rest" => fetch.id <= Published
  /\ \A e \in Stamps : PastEvent(e)

LEMMA PastInit == Init => PastInv
<1> SUFFICES ASSUME Init PROVE PastInv
  OBVIOUS
<1>1. Logs = {} /\ InTransit = {} /\ Fetched = {}
  BY DEF Init, Logs, ToSet, InTransit, Fetched, Requested
<1>2. Stamps = {}
  BY <1>1 DEF Stamps
<1> QED BY <1>2 DEF Init, PastInv, Published, Requested

\* What keeps an event in the past.
LEMMA PastEventStays ==
  ASSUME TypeInv, NEW e \in Entries, PastEvent(e),
         clock' \in Nat, clock <= clock', Published <= Published', Published' \in Nat,
         \A n \in 1..Published : publishedAt'[n] = publishedAt[n],
         \/ conn' = conn /\ emitted' \in Nat /\ emitted <= emitted'
            /\ (fetch.pc \in {"put", "done"} =>
                  fetch'.pc \in {"put", "done"} /\ fetch'.id = fetch.id)
         \/ conn' = conn + 1
  PROVE  PastEvent(e)'
<1>1. /\ e.ts \in Nat /\ e.conn \in Nat /\ LastOf(e.event) \in Nat
      /\ IsDiff(e) => e.event.last \in Nat
  BY EntryKinds
<1>2. clock \in Nat /\ conn \in Nat /\ Published \in Nat /\ emitted \in Nat
  BY ReplayAssumption, MarketAssumption DEF TypeInv, TypeOK, Times, Published, Ids
<1>3. /\ e.ts < clock /\ e.conn <= conn /\ LastOf(e.event) <= Published /\ StampedAfter(e)
      /\ e.conn = conn /\ IsDiff(e) => e.event.last <= emitted
      /\ e.conn = conn /\ IsSnapshot(e) =>
           fetch.pc \in {"put", "done"} /\ e.event.id = fetch.id
  BY DEF PastEvent
<1>4. StampedAfter(e)'
  BY <1>1, <1>2, <1>3 DEF StampedAfter
<1>5. /\ e.ts < clock' /\ e.conn <= conn' /\ LastOf(e.event) <= Published'
  BY <1>1, <1>2, <1>3
<1>6. e.conn = conn' /\ IsDiff(e) => e.event.last <= emitted'
  BY <1>1, <1>2, <1>3
<1>7. e.conn = conn' /\ IsSnapshot(e) =>
        fetch'.pc \in {"put", "done"} /\ e.event.id = fetch'.id
  BY <1>1, <1>2, <1>3
<1> QED BY <1>4, <1>5, <1>6, <1>7 DEF PastEvent

LEMMA PastStep ==
  ASSUME TypeInv, TypeInv', PastInv, [Next]_vars
  PROVE  PastInv'
<1>1. /\ clock \in Nat /\ conn \in Nat /\ Published \in Nat /\ emitted \in Nat
      /\ clock' \in Nat /\ Published' \in Nat /\ emitted' \in Nat /\ fetch.id \in Nat
      /\ DOMAIN publishedAt = 1..Published /\ fetch \in FetchStates
      /\ \A n \in 1..Published : publishedAt[n] \in Nat
  <2>1. /\ clock \in Nat /\ conn \in Nat /\ emitted \in Nat /\ fetch \in FetchStates
        /\ publishedAt \in Seq(Nat) /\ fetch.id \in Nat
    BY ReplayAssumption, MarketAssumption DEF TypeInv, TypeOK, Times, Ids, FetchStates
  <2>2. clock' \in Nat /\ emitted' \in Nat /\ publishedAt' \in Seq(Nat)
    BY MarketAssumption DEF TypeInv, TypeOK, Times, Ids
  <2> QED BY <2>1, <2>2 DEF Published
<1>2. /\ \A n \in 1..Published : publishedAt[n] < clock
      /\ emitted <= Published
      /\ fetch.pc # "rest" => fetch.id <= Published
  BY <1>1 DEF PastInv
<1>3. Stamps \subseteq Entries
  BY StampsType
<1>4. \A e \in Stamps : PastEvent(e)
  BY DEF PastInv
<1>5. CASE Publish
  <2>1. /\ Published' = Published + 1 /\ clock' = clock + 1
        /\ \A n \in 1..Published : publishedAt'[n] = publishedAt[n]
        /\ publishedAt'[Published'] = clock
        /\ DOMAIN publishedAt' = 1..Published'
        /\ log' = log /\ transit' = transit /\ conn' = conn /\ fetch' = fetch
        /\ emitted' = emitted
    BY <1>5 DEF Publish, Tick, Published, TypeInv, TypeOK
  <2>2. Stamps' = Stamps
    BY <2>1, IdleStamps
  <2>3. \A e \in Stamps : PastEvent(e)'
    BY <1>1, <1>3, <1>4, <2>1, PastEventStays
  <2>4. \A n \in DOMAIN publishedAt' : publishedAt'[n] < clock'
    BY <1>1, <1>2, <2>1
  <2>5. emitted' <= Published' /\ (fetch'.pc # "rest" => fetch'.id <= Published')
    BY <1>1, <1>2, <2>1
  <2> QED BY <2>2, <2>3, <2>4, <2>5 DEF PastInv
<1>6. CASE EmitDiff
  <2> DEFINE d == [type |-> "diff", first |-> emitted + 1, last |-> Published]
  <2> PICK e0 : e0 = Entry(d, clock, conn)
    OBVIOUS
  <2>1. d \in Diffs /\ d.last = Published /\ Stamps' = Stamps \cup {e0}
    BY <1>6, EmitStamps
  <2>2. /\ clock' = clock + 1 /\ emitted' = Published
        /\ publishedAt' = publishedAt /\ Published' = Published
        /\ conn' = conn /\ fetch' = fetch
    BY <1>6 DEF EmitDiff, Tick, Published
  <2>3. \A e \in Stamps : PastEvent(e)'
    BY <1>1, <1>2, <1>3, <1>4, <2>2, PastEventStays
  <2> HIDE DEF d
  <2>4. PastEvent(e0)'
    <3>1. /\ e0.ts = clock /\ e0.conn = conn /\ e0.event = d
          /\ d.type = "diff"
      BY <2>1, DiffFields DEF Entry
    <3>2. LastOf(e0.event) = Published /\ IsDiff(e0) /\ ~IsSnapshot(e0)
      BY <2>1, <3>1 DEF LastOf, IsDiff, IsSnapshot
    <3>3. StampedAfter(e0)'
      BY <1>2, <2>2, <3>1, <3>2 DEF StampedAfter
    <3>4. e0.ts < clock' /\ e0.conn <= conn' /\ LastOf(e0.event) <= Published'
          /\ e0.event.last <= emitted'
      BY <1>1, <2>1, <2>2, <3>1, <3>2
    <3> QED BY <3>2, <3>3, <3>4 DEF PastEvent
  <2>5. /\ \A n \in DOMAIN publishedAt' : publishedAt'[n] < clock'
        /\ emitted' <= Published' /\ (fetch'.pc # "rest" => fetch'.id <= Published')
    BY <1>1, <1>2, <2>2
  <2> QED BY <2>1, <2>3, <2>4, <2>5 DEF PastInv
<1>7. CASE Answer
  <2>1. /\ log' = log /\ transit' = transit /\ conn' = conn /\ emitted' = emitted
        /\ clock' = clock /\ publishedAt' = publishedAt /\ Published' = Published
        /\ fetch.pc = "rest" /\ fetch'.pc = "answered" /\ fetch'.id = Published
    BY <1>7 DEF Answer, Published
  <2>2. Stamps' = Stamps
    BY <2>1, IdleStamps
  <2>3. \A e \in Stamps : PastEvent(e)'
    BY <1>1, <1>3, <1>4, <2>1, PastEventStays
  <2>4. /\ \A n \in DOMAIN publishedAt' : publishedAt'[n] < clock'
        /\ emitted' <= Published' /\ (fetch'.pc # "rest" => fetch'.id <= Published')
    BY <1>1, <1>2, <2>1
  <2> QED BY <2>2, <2>3, <2>4 DEF PastInv
<1>8. CASE SnapshotArrives
  <2> PICK e0 : e0 = Entry(SnapshotOf(fetch.id), clock, conn)
    OBVIOUS
  <2>1. Stamps' = Stamps \cup {e0}
    BY <1>8, SnapshotStamps
  <2>2. /\ clock' = clock + 1 /\ emitted' = emitted
        /\ publishedAt' = publishedAt /\ Published' = Published
        /\ conn' = conn /\ fetch' = [fetch EXCEPT !.pc = "put", !.ts = clock]
        /\ fetch.pc = "answered"
    BY <1>8 DEF SnapshotArrives, Tick, Published
  <2>3. fetch'.pc = "put" /\ fetch'.id = fetch.id
    BY <1>1, <2>2 DEF FetchStates
  <2>4. \A e \in Stamps : PastEvent(e)'
    BY <1>1, <1>2, <1>3, <1>4, <2>2, <2>3, PastEventStays
  <2>5. PastEvent(e0)'
    <3>1. /\ e0.ts = clock /\ e0.conn = conn /\ e0.event.type = "snapshot"
          /\ e0.event.id = fetch.id
      BY DEF Entry, SnapshotOf
    <3>2. LastOf(e0.event) = fetch.id /\ ~IsDiff(e0)
      BY <3>1 DEF LastOf, IsDiff
    <3>3. fetch.id <= Published
      BY <1>2, <2>2
    <3>4. StampedAfter(e0)'
      BY <1>1, <1>2, <2>2, <3>1, <3>2, <3>3 DEF StampedAfter
    <3>5. e0.ts < clock' /\ e0.conn <= conn' /\ LastOf(e0.event) <= Published'
      BY <1>1, <2>2, <3>1, <3>2, <3>3
    <3> QED BY <2>3, <3>1, <3>2, <3>4, <3>5 DEF PastEvent
  <2>6. /\ \A n \in DOMAIN publishedAt' : publishedAt'[n] < clock'
        /\ emitted' <= Published' /\ (fetch'.pc # "rest" => fetch'.id <= Published')
    BY <1>1, <1>2, <2>2, <2>3
  <2> QED BY <2>1, <2>4, <2>5, <2>6 DEF PastInv
<1>9. CASE PutSnapshot
  <2>1. /\ clock' = clock /\ emitted' = emitted
        /\ publishedAt' = publishedAt /\ Published' = Published
        /\ conn' = conn /\ fetch.pc = "put" /\ fetch' = [fetch EXCEPT !.pc = "done"]
    BY <1>9 DEF PutSnapshot, Published
  <2>2. fetch'.pc = "done" /\ fetch'.id = fetch.id
    BY <1>1, <2>1 DEF FetchStates
  <2>3. Stamps' \subseteq Stamps
    BY <1>9, PutSnapshotStamps
  <2>4. \A e \in Stamps : PastEvent(e)'
    BY <1>1, <1>3, <1>4, <2>1, <2>2, PastEventStays
  <2>5. /\ \A n \in DOMAIN publishedAt' : publishedAt'[n] < clock'
        /\ emitted' <= Published' /\ (fetch'.pc # "rest" => fetch'.id <= Published')
    BY <1>1, <1>2, <2>1, <2>2
  <2> QED BY <2>3, <2>4, <2>5 DEF PastInv
<1>10. CASE DiffArrives
  <2>1. /\ clock' = clock /\ emitted' = emitted
        /\ publishedAt' = publishedAt /\ Published' = Published
        /\ conn' = conn /\ fetch' = fetch
    BY <1>10 DEF DiffArrives, Published
  <2>2. Stamps' \subseteq Stamps
    BY <1>10, DiffArrivesStamps
  <2>3. \A e \in Stamps : PastEvent(e)'
    BY <1>1, <1>3, <1>4, <2>1, PastEventStays
  <2>4. /\ \A n \in DOMAIN publishedAt' : publishedAt'[n] < clock'
        /\ emitted' <= Published' /\ (fetch'.pc # "rest" => fetch'.id <= Published')
    BY <1>1, <1>2, <2>1
  <2> QED BY <2>2, <2>3, <2>4 DEF PastInv
<1>11. CASE Reconnect
  <2>1. /\ clock' = clock /\ emitted' = Published
        /\ publishedAt' = publishedAt /\ Published' = Published
        /\ conn' = conn + 1 /\ fetch'.pc = "rest"
    BY <1>11 DEF Reconnect, Published, Requested
  <2>2. Stamps' \subseteq Stamps
    BY <1>11, ReconnectStamps DEF Stamps
  <2>3. \A e \in Stamps : PastEvent(e)'
    BY <1>1, <1>3, <1>4, <2>1, PastEventStays
  <2>4. /\ \A n \in DOMAIN publishedAt' : publishedAt'[n] < clock'
        /\ emitted' <= Published' /\ (fetch'.pc # "rest" => fetch'.id <= Published')
    BY <1>1, <1>2, <2>1
  <2> QED BY <2>2, <2>3, <2>4 DEF PastInv
<1>12. CASE DropChunks \/ UNCHANGED vars
  <2>1. /\ log' = log /\ transit' = transit /\ conn' = conn /\ emitted' = emitted
        /\ clock' = clock /\ publishedAt' = publishedAt /\ Published' = Published
        /\ fetch' = fetch
    BY <1>12 DEF DropChunks, vars, Published
  <2>2. Stamps' = Stamps
    BY <2>1, IdleStamps
  <2>3. \A e \in Stamps : PastEvent(e)'
    BY <1>1, <1>3, <1>4, <2>1, PastEventStays
  <2>4. /\ \A n \in DOMAIN publishedAt' : publishedAt'[n] < clock'
        /\ emitted' <= Published' /\ (fetch'.pc # "rest" => fetch'.id <= Published')
    BY <1>1, <1>2, <2>1
  <2> QED BY <2>2, <2>3, <2>4 DEF PastInv
<1> QED BY <1>5, <1>6, <1>7, <1>8, <1>9, <1>10, <1>11, <1>12 DEF Next

------------------------------------------------------------------------------
(* The order of the stamps: they differ, and within a connection follow the  *)
(* updates.                                                                  *)

InOrder(e, f) ==
  /\ e.ts = f.ts => e = f
  /\ e.conn < f.conn => e.ts < f.ts
  /\ e.conn = f.conn =>
       /\ IsSnapshot(e) /\ IsSnapshot(f) => e = f
       /\ IsDiff(e) /\ IsDiff(f) /\ e.ts < f.ts => e.event.last < f.event.first
       /\ IsSnapshot(e) /\ IsDiff(f) /\ e.ts < f.ts => e.event.id <= f.event.last

StampInv == \A e, f \in Stamps : InOrder(e, f)

\* A stamp of the present comes after all.
LEMMA NewStamp ==
  ASSUME TypeInv, PastInv, StampInv, NEW e0 \in Entries,
         e0.ts = clock, e0.conn = conn,
         \/ IsDiff(e0) /\ e0.event.first = emitted + 1 /\ e0.event.last = Published
         \/ IsSnapshot(e0) /\ fetch.pc = "answered",
         Stamps' = Stamps \cup {e0}
  PROVE  StampInv'
<1>1. emitted \in Nat /\ clock \in Nat
  BY MarketAssumption DEF TypeInv, TypeOK, Ids, Times
<1>2. ASSUME NEW f \in Stamps PROVE InOrder(e0, f) /\ InOrder(f, e0)
  <2>1. f \in Entries /\ PastEvent(f)
    BY StampsType DEF PastInv
  <2>2. /\ f.ts \in Nat /\ f.ts < clock /\ f.ts # e0.ts /\ ~(e0.ts < f.ts)
        /\ f.ts < e0.ts /\ ~(e0.conn < f.conn)
    <3>1. f.conn \in Nat /\ f.conn <= e0.conn /\ e0.conn \in Nat
      BY <2>1, EntryKinds DEF PastEvent
    <3> QED BY <1>1, <2>1, <3>1, EntryKinds DEF PastEvent
  <2>3. CASE IsDiff(e0) /\ e0.event.first = emitted + 1 /\ e0.event.last = Published
    <3>1. ~IsSnapshot(e0)
      BY <2>3, EntryKinds
    <3>2. f.conn = e0.conn /\ IsDiff(f) => f.event.last < e0.event.first
      <4> SUFFICES ASSUME f.conn = conn, IsDiff(f) PROVE f.event.last < emitted + 1
        BY <2>3
      <4>1. f.event.last \in Nat /\ f.event.last <= emitted
        BY <2>1, EntryKinds DEF PastEvent
      <4> QED BY <1>1, <4>1
    <3>3. IsSnapshot(f) => f.event.id <= e0.event.last
      BY <2>1, <2>3, EntryKinds DEF PastEvent
    <3> QED BY <2>2, <3>1, <3>2, <3>3 DEF InOrder
  <2>4. CASE IsSnapshot(e0) /\ fetch.pc = "answered"
    <3>1. ~IsDiff(e0)
      BY <2>4, EntryKinds
    <3>2. ~(f.conn = e0.conn /\ IsSnapshot(f))
      BY <2>1, <2>4 DEF PastEvent
    <3> QED BY <2>2, <3>1, <3>2 DEF InOrder
  <2> QED BY <2>3, <2>4
<1>3. InOrder(e0, e0)
  <2>1. e0.ts \in Nat /\ e0.conn \in Nat
    BY EntryKinds
  <2>2. ~(e0.ts < e0.ts) /\ ~(e0.conn < e0.conn)
    BY <2>1
  <2> QED BY <2>2 DEF InOrder
<1> QED BY <1>2, <1>3 DEF StampInv

LEMMA StampStep ==
  ASSUME TypeInv, TypeInv', PastInv, StampInv, [Next]_vars
  PROVE  StampInv'
<1>1. CASE EmitDiff
  <2> DEFINE d == [type |-> "diff", first |-> emitted + 1, last |-> Published]
  <2>1. d \in Diffs /\ d.first = emitted + 1 /\ d.last = Published
        /\ Stamps' = Stamps \cup {Entry(d, clock, conn)}
    BY <1>1, EmitStamps
  <2> HIDE DEF d
  <2> PICK e0 : e0 = Entry(d, clock, conn)
    OBVIOUS
  <2>2. e0 \in Entries /\ e0.ts = clock /\ e0.conn = conn /\ e0.event = d
    BY <2>1 DEF Entry, Entries, TypeInv, TypeOK
  <2>3. IsDiff(e0)
    BY <2>1, <2>2, DiffFields DEF IsDiff
  <2> QED BY <2>1, <2>2, <2>3, NewStamp
<1>2. CASE SnapshotArrives
  <2> PICK e0 : e0 = Entry(SnapshotOf(fetch.id), clock, conn)
    OBVIOUS
  <2>1. Stamps' = Stamps \cup {e0} /\ fetch.id \in Ids /\ fetch.pc = "answered"
    BY <1>2, SnapshotStamps DEF SnapshotArrives
  <2>2. e0 \in Entries /\ e0.ts = clock /\ e0.conn = conn /\ IsSnapshot(e0)
    BY <2>1 DEF Entry, SnapshotOf, Snapshots, Entries, TypeInv, TypeOK, IsSnapshot
  <2> QED BY <2>1, <2>2, NewStamp
<1>3. ASSUME Stamps' \subseteq Stamps PROVE StampInv'
  BY <1>3 DEF StampInv
<1>4. CASE Publish \/ Answer \/ DropChunks \/ UNCHANGED vars
  <2>1. /\ log' = log /\ transit' = transit /\ conn' = conn
        /\ \/ fetch' = fetch
           \/ fetch.pc # "put" /\ fetch'.pc # "put"
    BY <1>4 DEF Publish, Answer, DropChunks, vars
  <2> QED BY <1>3, <2>1, IdleStamps
<1>5. CASE PutSnapshot
  BY <1>3, <1>5, PutSnapshotStamps
<1>6. CASE DiffArrives
  BY <1>3, <1>6, DiffArrivesStamps
<1>7. CASE Reconnect
  BY <1>3, <1>7, ReconnectStamps DEF Stamps
<1> QED BY <1>1, <1>2, <1>4, <1>5, <1>6, <1>7 DEF Next

------------------------------------------------------------------------------
(* The diffs on their way go on from each other, and from those that arrived. *)

\* The last update of the diffs that have arrived on the connection.
Arrived == IF transit = <<>> THEN emitted ELSE transit[1].event.first - 1

TransitInv ==
  /\ \A i \in DOMAIN transit :
       i > 1 => transit[i].event.first = transit[i - 1].event.last + 1
  /\ transit # <<>> => transit[Len(transit)].event.last = emitted
  /\ \A e \in Logs : e.conn = conn /\ IsDiff(e) => e.event.last <= Arrived

LEMMA ArrivedType ==
  ASSUME TypeInv, TransitInv
  PROVE  /\ Arrived \in Ids /\ Arrived <= emitted /\ emitted \in Nat /\ Arrived \in Nat
         /\ transit # <<>> => /\ transit[1].event \in Diffs /\ 1 \in DOMAIN transit
                              /\ Arrived = transit[1].event.first - 1
<1>1. emitted \in Ids /\ transit \in Seq(Received) /\ MaxUpdates \in Nat
  BY MarketAssumption DEF TypeInv, TypeOK
<1>2. CASE transit = <<>>
  BY <1>1, <1>2 DEF Arrived, Ids
<1>3. CASE transit # <<>>
  <2>1. Len(transit) \in Nat /\ Len(transit) >= 1 /\ DOMAIN transit = 1..Len(transit)
    BY <1>1, <1>3
  <2>2. \A i \in 1..Len(transit) : transit[i].event \in Diffs
    BY <2>1 DEF TypeInv
  <2> DEFINE S == { i \in 1..Len(transit) : transit[1].event.last <= transit[i].event.last }
  <2>3. 1 \in S
    BY <2>1, <2>2, DiffFields
  <2>4. ASSUME NEW i \in (1 + 1)..Len(transit), i - 1 \in S PROVE i \in S
    <3>1. i \in 1..Len(transit) /\ i - 1 \in 1..Len(transit) /\ 1 \in 1..Len(transit) /\ i > 1
      BY <2>1
    <3>2. transit[i].event.first = transit[i - 1].event.last + 1
      BY <2>1, <3>1 DEF TransitInv
    <3>3. /\ transit[i].event.first \in Nat /\ transit[i].event.last \in Nat
          /\ transit[i].event.first <= transit[i].event.last
          /\ transit[i - 1].event.last \in Nat /\ transit[1].event.last \in Nat
      BY <2>2, <3>1, DiffFields
    <3>4. transit[1].event.last <= transit[i - 1].event.last
      BY <2>4
    <3> QED BY <3>1, <3>2, <3>3, <3>4
  <2>5. 1..Len(transit) \subseteq S
    <3> HIDE DEF S
    <3> QED BY <2>1, <2>3, <2>4, IntervalInduction
  <2>6. transit[1].event.last <= emitted
    <3>1. Len(transit) \in 1..Len(transit)
      BY <2>1
    <3>2. Len(transit) \in S
      BY <2>5, <3>1
    <3> QED BY <1>3, <3>2 DEF TransitInv
  <2>7. /\ transit[1].event \in Diffs /\ 1 \in DOMAIN transit
    BY <2>1, <2>2
  <2>8. /\ transit[1].event.first \in Nat /\ transit[1].event.last \in Nat
        /\ 1 <= transit[1].event.first /\ transit[1].event.first <= transit[1].event.last
    BY <2>7, DiffFields
  <2>9. Arrived = transit[1].event.first - 1
    BY <1>3 DEF Arrived
  <2> HIDE DEF S
  <2> QED BY <1>1, <1>3, <2>6, <2>7, <2>8, <2>9 DEF Ids
<1> QED BY <1>2, <1>3

\* What each action does to Arrived.
LEMMA EmitArrived ==
  ASSUME TypeInv, TransitInv, EmitDiff
  PROVE  Arrived' = Arrived
<1> DEFINE d == [type |-> "diff", first |-> emitted + 1, last |-> Published]
<1>1. /\ transit' = Append(transit, Stamped(d, clock)) /\ d.first = emitted + 1
      /\ Stamped(d, clock).event = d /\ emitted \in Nat /\ transit \in Seq(Received)
  BY EmittedDiff, MarketAssumption DEF Stamped, TypeInv, TypeOK, Ids
<1> HIDE DEF d
<1>2. transit' # <<>> /\ transit'[1] = IF transit = <<>> THEN Stamped(d, clock) ELSE transit[1]
  BY <1>1
<1> QED BY <1>1, <1>2 DEF Arrived

LEMMA DiffArrived ==
  ASSUME TypeInv, TransitInv, DiffArrives
  PROVE  Arrived' = transit[1].event.last
<1>1. /\ transit \in Seq(Received) /\ transit # <<>>
      /\ transit' = Tail(transit) /\ transit' \in Seq(Received)
      /\ Len(transit') = Len(transit) - 1 /\ 1 \in DOMAIN transit
      /\ \A i \in DOMAIN transit' : i + 1 \in DOMAIN transit /\ transit'[i] = transit[i + 1]
  BY ArrivingDiff DEF TypeInv, TypeOK, DiffArrives
<1>2. emitted' = emitted
  BY DEF DiffArrives
<1>3. transit[1].event.last \in Nat
  BY <1>1, DiffFields DEF TypeInv
<1>4. CASE transit' = <<>>
  BY <1>1, <1>2, <1>4 DEF Arrived, TransitInv
<1>5. CASE transit' # <<>>
  <2>1. 1 \in DOMAIN transit' /\ 2 \in DOMAIN transit /\ transit'[1] = transit[2]
    BY <1>1, <1>5
  <2>2. transit[2].event.first = transit[1].event.last + 1
    BY <2>1 DEF TransitInv
  <2> QED BY <1>3, <1>5, <2>1, <2>2 DEF Arrived
<1> QED BY <1>4, <1>5

LEMMA TransitInit == Init => TransitInv
<1> SUFFICES ASSUME Init PROVE TransitInv
  OBVIOUS
<1>1. Logs = {}
  BY DEF Init, Logs, ToSet
<1> QED BY <1>1 DEF Init, TransitInv

LEMMA TransitStep ==
  ASSUME TypeInv, TypeInv', PastInv, TransitInv, [Next]_vars
  PROVE  TransitInv'
<1>1. CASE EmitDiff
  <2> DEFINE d == [type |-> "diff", first |-> emitted + 1, last |-> Published]
             s == Stamped(d, clock)
  <2>1. /\ transit' = Append(transit, s) /\ d.first = emitted + 1 /\ d.last = Published
        /\ s.event = d /\ transit \in Seq(Received)
    BY <1>1, EmittedDiff DEF Stamped, TypeInv, TypeOK
  <2>2. emitted' = Published /\ conn' = conn /\ Logs' = Logs
    BY <1>1, EmitStamps DEF EmitDiff
  <2> HIDE DEF d, s
  <2>3. /\ Len(transit) \in Nat /\ Len(transit') = Len(transit) + 1
        /\ DOMAIN transit = 1..Len(transit) /\ DOMAIN transit' = 1..(Len(transit) + 1)
        /\ \A i \in 1..Len(transit) : transit'[i] = transit[i]
        /\ transit'[Len(transit) + 1] = s /\ transit' # <<>>
    BY <2>1
  <2>4. ASSUME NEW i \in DOMAIN transit', i > 1
        PROVE  transit'[i].event.first = transit'[i - 1].event.last + 1
    <3>1. CASE i \in 1..Len(transit)
      BY <2>3, <2>4, <3>1 DEF TransitInv
    <3>2. CASE i = Len(transit) + 1
      <4>1. transit # <<>> /\ transit'[i - 1] = transit[Len(transit)] /\ transit'[i] = s
        BY <2>3, <2>4, <3>2
      <4> QED BY <2>1, <4>1 DEF TransitInv
    <3> QED BY <2>3, <3>1, <3>2
  <2>5. transit'[Len(transit')].event.last = emitted'
    BY <2>1, <2>2, <2>3
  <2>6. Arrived' = Arrived
    BY <1>1, EmitArrived
  <2> QED BY <2>2, <2>4, <2>5, <2>6 DEF TransitInv
<1>2. CASE DiffArrives
  <2> DEFINE d == transit[1].event
             e0 == Entry(d, transit[1].ts, conn)
  <2>1. /\ transit \in Seq(Received)
        /\ transit' \in Seq(Received) /\ Len(transit') = Len(transit) - 1
        /\ 1 \in DOMAIN transit /\ d \in Diffs
        /\ \A i \in DOMAIN transit' : i + 1 \in DOMAIN transit /\ transit'[i] = transit[i + 1]
    BY <1>2, ArrivingDiff DEF TypeInv, TypeOK
  <2>2. emitted' = emitted /\ conn' = conn
    BY <1>2 DEF DiffArrives
  <2>3. Logs' \subseteq Logs \cup {e0}
    BY <1>2, DiffArrivesStamps
  <2>4. Arrived' = d.last
    BY <1>2, DiffArrived
  <2>5. ASSUME NEW i \in DOMAIN transit', i > 1
        PROVE  transit'[i].event.first = transit'[i - 1].event.last + 1
    <3>1. i - 1 \in DOMAIN transit' /\ i \in Nat
      BY <2>1, <2>5
    <3>2. /\ i + 1 \in DOMAIN transit /\ transit'[i] = transit[i + 1]
          /\ transit'[i - 1] = transit[i] /\ i + 1 > 1 /\ (i + 1) - 1 = i
      BY <2>1, <2>5, <3>1
    <3>3. transit[i + 1].event.first = transit[(i + 1) - 1].event.last + 1
      BY <3>2 DEF TransitInv
    <3> QED BY <3>2, <3>3
  <2>6. transit' # <<>> => transit'[Len(transit')].event.last = emitted'
    <3> SUFFICES ASSUME transit' # <<>> PROVE transit'[Len(transit')].event.last = emitted
      BY <2>2
    <3>1. Len(transit') \in DOMAIN transit' /\ Len(transit') + 1 = Len(transit) /\ transit # <<>>
      BY <2>1
    <3>2. transit'[Len(transit')] = transit[Len(transit)]
      BY <2>1, <3>1
    <3> QED BY <3>1, <3>2 DEF TransitInv
  <2>7. ASSUME NEW e \in Logs', e.conn = conn, IsDiff(e) PROVE e.event.last <= d.last
    <3>1. d.first \in Nat /\ d.last \in Nat /\ d.first <= d.last
      BY <2>1, DiffFields
    <3>2. CASE e \in Logs
      <4>1. e \in Entries
        BY <3>2, StampsType DEF Stamps
      <4>2. e.event.last \in Nat
        BY <2>7, <4>1, EntryKinds
      <4>3. e.event.last <= Arrived /\ Arrived = d.first - 1
        BY <1>2, <2>7, <3>2, ArrivedType DEF TransitInv, DiffArrives
      <4> QED BY <3>1, <4>2, <4>3
    <3>3. CASE e = e0
      BY <3>1, <3>3 DEF Entry
    <3> QED BY <2>3, <3>2, <3>3
  <2> QED BY <2>2, <2>4, <2>5, <2>6, <2>7 DEF TransitInv
<1>3. CASE Reconnect
  <2>1. transit' = <<>> /\ conn' = conn + 1 /\ Logs' = Logs /\ conn \in Nat
    BY <1>3, ReconnectStamps, ReplayAssumption DEF Reconnect, TypeInv, TypeOK
  <2>2. \A e \in Logs : e.conn # conn'
    <3> SUFFICES ASSUME NEW e \in Logs PROVE e.conn # conn'
      OBVIOUS
    <3>1. e \in Entries /\ e.conn <= conn
      BY StampsType DEF Stamps, PastInv, PastEvent
    <3> QED BY <2>1, <3>1, EntryKinds
  <2> QED BY <2>1, <2>2 DEF TransitInv
<1>4. ASSUME transit' = transit, emitted' = emitted, conn' = conn,
             \A e \in Logs' : e \in Logs \/ ~IsDiff(e)
      PROVE  TransitInv'
  <2>1. Arrived' = Arrived
    BY <1>4 DEF Arrived
  <2> QED BY <1>4, <2>1 DEF TransitInv
<1>5. CASE PutSnapshot
  <2>1. transit' = transit /\ emitted' = emitted /\ conn' = conn
    BY <1>5 DEF PutSnapshot
  <2>2. \A e \in Logs' : e \in Logs \/ ~IsDiff(e)
    <3>1. \A e \in Fetched : ~IsDiff(e)
      BY DEF Fetched, Entry, SnapshotOf, IsDiff
    <3> QED BY <1>5, <3>1, PutSnapshotStamps
  <2> QED BY <1>4, <2>1, <2>2
<1>6. CASE Publish \/ Answer \/ SnapshotArrives \/ DropChunks \/ UNCHANGED vars
  <2>1. transit' = transit /\ emitted' = emitted /\ conn' = conn /\ log' = log
    BY <1>6 DEF Publish, Answer, SnapshotArrives, DropChunks, vars
  <2>2. Logs' = Logs
    BY <2>1 DEF Logs
  <2> QED BY <1>4, <2>1, <2>2
<1> QED BY <1>1, <1>2, <1>3, <1>5, <1>6 DEF Next

------------------------------------------------------------------------------
(* The links: between an update that the replay may be at and a later diff of *)
(* the connection, the log has another diff, or the book has not changed.     *)

SameBook(m, n) == \A l \in Levels : SizeAt(m, l) = SizeAt(n, l)

Links(m, c, n) ==
  \/ \E g \in Logs : IsDiff(g) /\ g.conn = c /\ m < g.event.last /\ g.event.last <= n
  \/ SameBook(m, n)

\* A replay of connection c may be at update m, now or once its snapshot is put.
Mark(m, c) ==
  \/ \E x \in Logs : x.conn = c /\ LastOf(x.event) = m
  \/ c = conn /\ fetch.pc \in {"answered", "put"} /\ fetch.id = m

\* A diff of connection c goes on from update n, in the log or yet to come.
GoesOn(n, c) ==
  \/ \E f \in Logs : IsDiff(f) /\ f.conn = c /\ f.event.first - 1 = n
  \/ c = conn /\ Arrived = n

LinkInv ==
  \A c \in 1..MaxConnections : \A m, n \in Ids :
    Mark(m, c) /\ GoesOn(n, c) /\ m <= n => Links(m, c, n)

\* Nothing but a snapshot that was awaited joins the log.
LEMMA LinksStay ==
  ASSUME LinkInv, conn' = conn, Arrived' = Arrived,
         Logs \subseteq Logs', \A e \in Logs' : e \in Logs \/ ~IsDiff(e),
         \A m \in Ids : \A c : Mark(m, c)' => Mark(m, c)
  PROVE  LinkInv'
<1> SUFFICES ASSUME NEW c \in 1..MaxConnections, NEW m \in Ids, NEW n \in Ids,
                    Mark(m, c)', GoesOn(n, c)', m <= n
             PROVE  Links(m, c, n)'
  BY DEF LinkInv
<1>1. Mark(m, c) /\ GoesOn(n, c)
  BY DEF GoesOn
<1>2. Links(m, c, n)
  BY <1>1 DEF LinkInv
<1> QED BY <1>2 DEF Links

\* The answer to the request shows every update that a diff has brought.
LEMMA AnswerLinks ==
  ASSUME TypeInv, PastInv, TransitInv, LinkInv, Answer
  PROVE  LinkInv'
<1> SUFFICES ASSUME NEW c \in 1..MaxConnections, NEW m \in Ids, NEW n \in Ids,
                    Mark(m, c)', GoesOn(n, c)', m <= n
             PROVE  Links(m, c, n)'
  BY DEF LinkInv
<1>1. /\ log' = log /\ conn' = conn /\ transit' = transit /\ emitted' = emitted
      /\ fetch'.id = Published
  BY DEF Answer
<1>2. Logs' = Logs /\ Arrived' = Arrived
  BY <1>1 DEF Logs, Arrived
<1>3. GoesOn(n, c)
  BY <1>1, <1>2 DEF GoesOn
<1>4. Mark(m, c) \/ m = Published
  BY <1>1, <1>2 DEF Mark
<1>5. CASE Mark(m, c)
  <2>1. Links(m, c, n)
    BY <1>3, <1>5 DEF LinkInv
  <2> QED BY <1>2, <2>1 DEF Links
<1>6. CASE m = Published
  <2>1. m \in Nat /\ n \in Nat /\ Published \in Nat /\ Arrived <= emitted /\ emitted <= Published
        /\ Arrived \in Nat /\ emitted \in Nat
    BY ArrivedType DEF Ids, TypeInv, TypeOK, Published, PastInv
  <2>2. n <= Published
    <3>1. CASE c = conn /\ Arrived = n
      BY <2>1, <3>1
    <3>2. ASSUME NEW f \in Logs, IsDiff(f), f.event.first - 1 = n PROVE n <= Published
      <4>1. f \in Entries /\ LastOf(f.event) <= Published
        BY StampsType DEF Stamps, PastInv, PastEvent
      <4> QED BY <2>1, <3>2, <4>1, EntryKinds
    <3> QED BY <1>3, <3>1, <3>2 DEF GoesOn
  <2>3. m = n
    BY <1>6, <2>1, <2>2
  <2> QED BY <2>3 DEF Links, SameBook
<1> QED BY <1>4, <1>5, <1>6

\* A diff links the updates before it to those after it, and one that leaves no
\* row has changed nothing.
LEMMA DiffArrivesLinks ==
  ASSUME TypeInv, PastInv, TransitInv, LinkInv, DiffArrives
  PROVE  LinkInv'
<1> SUFFICES ASSUME NEW c \in 1..MaxConnections, NEW m \in Ids, NEW n \in Ids,
                    Mark(m, c)', GoesOn(n, c)', m <= n
             PROVE  Links(m, c, n)'
  BY DEF LinkInv
<1> DEFINE d == transit[1].event
           e0 == Entry(d, transit[1].ts, conn)
<1>1. /\ d \in Diffs /\ e0 \in InTransit
      /\ Logs' = IF Touched(d.first, d.last) = {} THEN Logs ELSE Logs \cup {e0}
  BY DiffArrivesStamps
<1>2. conn' = conn /\ fetch' = fetch /\ transit # <<>>
  BY DEF DiffArrives
<1>3. Arrived' = d.last
  BY DiffArrived
<1>4. Arrived = d.first - 1 /\ Arrived \in Ids
  BY <1>2, ArrivedType
<1>5. /\ e0.conn = conn /\ e0.event = d /\ LastOf(e0.event) = d.last /\ IsDiff(e0)
      /\ d.first \in Nat /\ d.last \in Ids /\ d.last \in Nat /\ 1 <= d.first /\ d.first <= d.last
  BY <1>1, DiffFields DEF Entry, LastOf, IsDiff
<1> HIDE DEF d, e0
<1>6. m \in Nat /\ n \in Nat
  BY DEF Ids
<1>7. c = conn \/ (Mark(m, c) /\ GoesOn(n, c))
  BY <1>1, <1>2, <1>5 DEF Mark, GoesOn
<1>8. Links(m, c, n) => Links(m, c, n)'
  BY <1>1 DEF Links
<1>9. CASE Mark(m, c) /\ GoesOn(n, c)
  BY <1>8, <1>9 DEF LinkInv
<1>10. CASE c = conn
  <2>1. Mark(m, c) \/ m = d.last
    BY <1>1, <1>2, <1>5 DEF Mark
  <2>2. n <= Arrived \/ n = d.last
    <3>1. CASE n = Arrived'
      BY <1>3, <3>1
    <3>2. ASSUME NEW f \in Logs', IsDiff(f), f.conn = conn, f.event.first - 1 = n
          PROVE  n <= Arrived
      <4>1. CASE f = e0
        BY <1>4, <1>5, <3>2, <4>1
      <4>2. CASE f \in Logs
        <5>1. f \in Entries /\ f.event.last <= Arrived
          BY <3>2, <4>2, StampsType DEF Stamps, TransitInv
        <5> QED BY <1>4, <1>5, <3>2, <5>1, EntryKinds
      <4> QED BY <1>1, <4>1, <4>2
    <3> QED BY <1>2, <1>10, <3>1, <3>2 DEF GoesOn
  <2>3. CASE m = d.last
    <3>1. n = m
      BY <1>4, <1>5, <1>6, <2>2, <2>3
    <3> QED BY <3>1 DEF Links, SameBook
  <2>4. CASE m < d.last /\ Mark(m, c) /\ n = d.last
    <3>1. CASE Logs' = Logs \cup {e0}
      <4>1. e0 \in Logs' /\ m < e0.event.last /\ e0.event.last <= n
        BY <1>5, <2>4, <3>1
      <4> QED BY <1>5, <1>10, <4>1 DEF Links
    <3>2. CASE Touched(d.first, d.last) = {}
      <4>1. ASSUME NEW x \in (d.first - 1)..d.last PROVE SameBook(x, d.last)
        BY <3>2 DEF Touched, SameBook
      <4>2. CASE m >= d.first - 1
        <5>1. m \in (d.first - 1)..d.last
          BY <1>5, <1>6, <2>4, <4>2
        <5>2. SameBook(m, n)
          BY <2>4, <4>1, <5>1
        <5> QED BY <5>2 DEF Links, SameBook
      <4>3. CASE m < d.first - 1
        <5>1. Links(m, c, Arrived)
          <6>1. GoesOn(Arrived, c)
            BY <1>10 DEF GoesOn
          <6>2. m <= Arrived
            BY <1>4, <1>5, <1>6, <4>3
          <6> QED BY <1>4, <2>4, <6>1, <6>2 DEF LinkInv
        <5>2. SameBook(Arrived, n)
          <6>1. d.first - 1 \in (d.first - 1)..d.last
            BY <1>5
          <6> QED BY <1>4, <2>4, <4>1, <6>1
        <5>3. Logs \subseteq Logs'
          BY <1>1
        <5>4. CASE SameBook(m, Arrived)
          <6>1. SameBook(m, n)
            BY <5>2, <5>4 DEF SameBook
          <6> QED BY <6>1 DEF Links, SameBook
        <5>5. ASSUME NEW g \in Logs, IsDiff(g), g.conn = c, m < g.event.last,
                     g.event.last <= Arrived
              PROVE  Links(m, c, n)'
          <6>1. g.event.last \in Nat
            BY <5>5, StampsType, EntryKinds DEF Stamps
          <6>2. g.event.last <= n
            BY <1>4, <1>5, <2>4, <5>5, <6>1
          <6> QED BY <5>3, <5>5, <6>2 DEF Links
        <5> QED BY <5>1, <5>4, <5>5 DEF Links
      <4> QED BY <1>5, <1>6, <4>2, <4>3
    <3> QED BY <1>1, <3>1, <3>2
  <2>5. CASE m < d.last /\ Mark(m, c) /\ n <= Arrived
    <3>1. GoesOn(n, c)
      <4>1. CASE c = conn' /\ n = Arrived'
        <5>1. FALSE
          BY <1>3, <1>4, <1>5, <2>5, <4>1
        <5> QED BY <5>1
      <4>2. ASSUME NEW f \in Logs', IsDiff(f), f.conn = c, f.event.first - 1 = n
            PROVE  GoesOn(n, c)
        <5>1. CASE f = e0
          BY <1>4, <1>5, <1>10, <4>2, <5>1 DEF GoesOn
        <5>2. CASE f \in Logs
          BY <4>2, <5>2 DEF GoesOn
        <5> QED BY <1>1, <5>1, <5>2
      <4> QED BY <4>1, <4>2 DEF GoesOn
    <3> QED BY <1>8, <2>5, <3>1 DEF LinkInv
  <2>6. m < d.last \/ m = d.last
    BY <1>4, <1>5, <1>6, <2>2
  <2> QED BY <2>1, <2>2, <2>3, <2>4, <2>5, <2>6
<1> QED BY <1>7, <1>9, <1>10

\* Nothing is logged of a new connection.
LEMMA ReconnectLinks ==
  ASSUME TypeInv, PastInv, TransitInv, LinkInv, Reconnect
  PROVE  LinkInv'
<1> SUFFICES ASSUME NEW c \in 1..MaxConnections, NEW m \in Ids, NEW n \in Ids,
                    Mark(m, c)', GoesOn(n, c)', m <= n
             PROVE  Links(m, c, n)'
  BY DEF LinkInv
<1>1. Logs' = Logs /\ conn' = conn + 1 /\ fetch'.pc = "rest" /\ conn \in Nat
  BY ReconnectStamps, ReplayAssumption DEF Reconnect, Requested, TypeInv, TypeOK
<1>2. PICK x \in Logs : x.conn = c /\ LastOf(x.event) = m
  BY <1>1 DEF Mark
<1>3. c # conn'
  <2>1. x \in Entries /\ x.conn <= conn
    BY StampsType DEF Stamps, PastInv, PastEvent
  <2> QED BY <1>1, <1>2, <2>1, EntryKinds
<1>4. Mark(m, c) /\ GoesOn(n, c)
  BY <1>1, <1>2, <1>3 DEF Mark, GoesOn
<1>5. Links(m, c, n)
  BY <1>4 DEF LinkInv
<1> QED BY <1>1, <1>5 DEF Links

LEMMA LinkInit == Init => LinkInv
<1> SUFFICES ASSUME Init PROVE LinkInv
  OBVIOUS
<1>1. Logs = {} /\ fetch.pc = "rest"
  BY DEF Init, Logs, ToSet, Requested
<1> QED BY <1>1 DEF LinkInv, Mark

LEMMA LinkStep ==
  ASSUME TypeInv, TypeInv', PastInv, TransitInv, LinkInv, [Next]_vars
  PROVE  LinkInv'
<1>1. CASE PutSnapshot
  <2>1. /\ transit' = transit /\ emitted' = emitted /\ conn' = conn
        /\ fetch.pc = "put" /\ fetch'.pc = "done"
    BY <1>1 DEF PutSnapshot, TypeInv, TypeOK, FetchStates
  <2>2. Arrived' = Arrived
    BY <2>1 DEF Arrived
  <2>3. Logs \subseteq Logs' /\ Logs' \subseteq Logs \cup Fetched
    BY <1>1, PutSnapshotStamps
  <2>4. \A e \in Fetched : ~IsDiff(e) /\ e.conn = conn /\ LastOf(e.event) = fetch.id
    BY DEF Fetched, Entry, SnapshotOf, IsDiff, LastOf
  <2>5. \A m \in Ids : \A c : Mark(m, c)' => Mark(m, c)
    <3> SUFFICES ASSUME NEW m \in Ids, NEW c, Mark(m, c)' PROVE Mark(m, c)
      OBVIOUS
    <3>1. PICK x \in Logs' : x.conn = c /\ LastOf(x.event) = m
      BY <2>1 DEF Mark
    <3> QED BY <2>1, <2>3, <2>4, <3>1 DEF Mark
  <2>6. \A e \in Logs' : e \in Logs \/ ~IsDiff(e)
    BY <2>3, <2>4
  <2> QED BY <2>1, <2>2, <2>3, <2>5, <2>6, LinksStay
<1>2. CASE EmitDiff
  <2>1. Arrived' = Arrived /\ Logs' = Logs /\ conn' = conn /\ fetch' = fetch
    BY <1>2, EmitArrived, EmitStamps DEF EmitDiff
  <2>2. \A m \in Ids : \A c : Mark(m, c)' => Mark(m, c)
    BY <2>1 DEF Mark
  <2> QED BY <2>1, <2>2, LinksStay
<1>3. CASE Publish \/ SnapshotArrives \/ DropChunks \/ UNCHANGED vars
  <2>1. /\ transit' = transit /\ emitted' = emitted /\ conn' = conn /\ log' = log
        /\ \/ fetch' = fetch
           \/ fetch.pc = "answered" /\ fetch'.id = fetch.id
    <3>1. CASE SnapshotArrives
      BY <3>1 DEF SnapshotArrives, TypeInv, TypeOK, FetchStates
    <3>2. CASE Publish \/ DropChunks \/ UNCHANGED vars
      BY <3>2 DEF Publish, DropChunks, vars
    <3> QED BY <1>3, <3>1, <3>2
  <2>2. Logs' = Logs /\ Arrived' = Arrived
    BY <2>1 DEF Logs, Arrived
  <2>3. \A m \in Ids : \A c : Mark(m, c)' => Mark(m, c)
    BY <2>1, <2>2 DEF Mark
  <2> QED BY <2>1, <2>2, <2>3, LinksStay
<1> QED BY <1>1, <1>2, <1>3, AnswerLinks, DiffArrivesLinks, ReconnectLinks DEF Next

------------------------------------------------------------------------------
(* The live book: what it holds is right, and once synced it is at the last   *)
(* diff that has arrived.                                                      *)

\* Diffs that go on from each other, up to update a.
Queued(q, a) ==
  /\ \A i \in DOMAIN q : i > 1 => q[i].first = q[i - 1].last + 1
  /\ q # <<>> => q[Len(q)].last = a

\* A reconciler, within a call too, that was given the diffs up to a, and the
\* connection's snapshot s if any.
LiveAt(r, a, s) ==
  /\ r.lastId # NoId => Shows(r.book, r.lastId) /\ s <= r.lastId /\ (r.synced \/ r.awaiting)
  /\ Queued(r.pending, a)
  /\ r.synced => /\ r.lastId # NoId /\ ~r.awaiting
                 /\ r.pending = <<>> => r.lastId = a
                 /\ r.pending # <<>> => r.pending[1].first = r.lastId + 1

LEMMA QueuedTail ==
  ASSUME NEW q \in Seq(Diffs), q # <<>>, NEW a, Queued(q, a)
  PROVE  /\ Head(q) = q[1] /\ Head(q) \in Diffs /\ Tail(q) \in Seq(Diffs)
         /\ Len(Tail(q)) = Len(q) - 1
         /\ Queued(Tail(q), a)
         /\ Tail(q) = <<>> => q[1].last = a
         /\ Tail(q) # <<>> => Tail(q)[1].first = q[1].last + 1
<1> PICK tl : tl = Tail(q)
  OBVIOUS
<1>1. /\ Head(q) = q[1] /\ Head(q) \in Diffs /\ tl \in Seq(Diffs)
      /\ Len(tl) = Len(q) - 1 /\ Len(q) \in Nat /\ DOMAIN q = 1..Len(q) /\ Len(q) >= 1
      /\ DOMAIN tl = 1..(Len(q) - 1)
      /\ \A i \in 1..(Len(q) - 1) : tl[i] = q[i + 1]
  OBVIOUS
<1>2. ASSUME NEW i \in DOMAIN tl, i > 1
      PROVE  tl[i].first = tl[i - 1].last + 1
  <2>1. /\ i + 1 \in DOMAIN q /\ i + 1 > 1 /\ (i + 1) - 1 = i
        /\ tl[i] = q[i + 1] /\ tl[i - 1] = q[i]
    BY <1>1, <1>2
  <2>2. q[i + 1].first = q[(i + 1) - 1].last + 1
    BY <2>1 DEF Queued
  <2> QED BY <2>1, <2>2
<1>3. tl = <<>> => q[1].last = a
  <2> SUFFICES ASSUME tl = <<>> PROVE q[1].last = a
    OBVIOUS
  <2>1. Len(q) = 1
    <3>1. DOMAIN tl = DOMAIN <<>>
      BY Zenon
    <3>2. DOMAIN <<>> = {}
      OBVIOUS
    <3> QED BY <1>1, <3>1, <3>2
  <2> QED BY <2>1 DEF Queued
<1>4. tl # <<>> => tl[1].first = q[1].last + 1 /\ tl[Len(tl)] = q[Len(q)]
  <2> SUFFICES ASSUME tl # <<>>
               PROVE  tl[1].first = q[1].last + 1 /\ tl[Len(tl)] = q[Len(q)]
    OBVIOUS
  <2>1. 2 \in DOMAIN q /\ tl[1] = q[2] /\ tl[Len(tl)] = q[Len(q)]
    BY <1>1
  <2>2. q[2].first = q[1].last + 1
    BY <2>1 DEF Queued
  <2> QED BY <2>1, <2>2
<1>5. Queued(tl, a)
  BY <1>2, <1>4 DEF Queued
<1> QED BY <1>1, <1>3, <1>4, <1>5

LEMMA QueuedAppend ==
  ASSUME NEW q \in Seq(Diffs), NEW a \in Nat, Queued(q, a),
         NEW d \in Diffs, d.first = a + 1
  PROVE  Queued(Append(q, d), d.last)
<1> PICK p : p = Append(q, d)
  OBVIOUS
<1>1. /\ Len(q) \in Nat /\ DOMAIN q = 1..Len(q) /\ Len(p) = Len(q) + 1
      /\ DOMAIN p = 1..(Len(q) + 1)
      /\ \A i \in 1..Len(q) : p[i] = q[i]
      /\ p[Len(q) + 1] = d
  OBVIOUS
<1>2. ASSUME NEW i \in DOMAIN p, i > 1
      PROVE  p[i].first = p[i - 1].last + 1
  <2>1. CASE i \in 1..Len(q)
    <3>1. i - 1 \in 1..Len(q) /\ p[i] = q[i] /\ p[i - 1] = q[i - 1]
      BY <1>1, <1>2, <2>1
    <3>2. q[i].first = q[i - 1].last + 1
      BY <1>1, <1>2, <2>1 DEF Queued
    <3> QED BY <3>1, <3>2
  <2>2. CASE i = Len(q) + 1
    <3>1. i - 1 = Len(q) /\ Len(q) \in 1..Len(q)
      BY <1>1, <1>2, <2>2
    <3>2. q # <<>>
      BY <3>1
    <3>3. p[i - 1] = q[Len(q)] /\ p[i] = d
      BY <1>1, <2>2, <3>1
    <3>4. q[Len(q)].last = a
      BY <3>2 DEF Queued
    <3> QED BY <3>3, <3>4
  <2>3. i \in 1..Len(q) \/ i = Len(q) + 1
    BY <1>1, <1>2
  <2> QED BY <2>1, <2>2, <2>3
<1>3. Queued(p, d.last)
  BY <1>1, <1>2 DEF Queued
<1> QED BY <1>3

LEMMA QueuedBound ==
  ASSUME NEW q \in Seq(Diffs), NEW a, Queued(q, a)
  PROVE  Queued(BoundBuffer(q), a)
<1> DEFINE m == Len(q) - MaxPending + 1
           n == Len(q)
           b == SubSeq(q, m, n)
<1>1. CASE Len(q) > MaxPending
  <2>1. m \in 1..n /\ m - 1 \in Nat /\ n \in Nat /\ DOMAIN q = 1..n /\ MaxPending \in Nat
        /\ MaxPending >= 1
    BY <1>1, MaxPendingAssumption
  <2>2. /\ DOMAIN b = 1..MaxPending /\ Len(b) = MaxPending
        /\ \A i \in 1..MaxPending : b[i] = q[i + m - 1]
    BY <2>1
  <2> HIDE DEF b
  <2>3. ASSUME NEW i \in DOMAIN b, i > 1 PROVE b[i].first = b[i - 1].last + 1
    <3>1. /\ i + m - 1 \in DOMAIN q /\ i + m - 1 > 1 /\ b[i] = q[i + m - 1]
          /\ b[i - 1] = q[(i + m - 1) - 1]
      BY <2>1, <2>2, <2>3
    <3>2. q[i + m - 1].first = q[(i + m - 1) - 1].last + 1
      BY <3>1 DEF Queued
    <3> QED BY <3>1, <3>2
  <2>4. b[Len(b)] = q[n] /\ q # <<>>
    BY <1>1, <2>1, <2>2
  <2>5. b[Len(b)].last = a
    BY <2>4 DEF Queued
  <2>6. Queued(b, a)
    BY <2>3, <2>5 DEF Queued
  <2> QED BY <1>1, <2>6 DEF BoundBuffer, b
<1>2. CASE ~(Len(q) > MaxPending)
  BY <1>2 DEF BoundBuffer
<1> QED BY <1>1, <1>2

\* A diff that goes on from the book, applied first of those that are buffered.
LEMMA ApplyLive ==
  ASSUME NEW r \in Reconcilers, NEW a \in Nat, NEW s \in Nat, LiveAt(r, a, s),
         r.pending # <<>>, r.lastId # NoId,
         r.pending[1].first <= r.lastId + 1, r.lastId + 1 <= r.pending[1].last
  PROVE  LET x == ApplyDiff(Popped(r), r.pending[1])
             y == [x EXCEPT !.awaiting = FALSE, !.synced = TRUE]
         IN  /\ LiveAt(y, a, s) /\ y \in Reconcilers
             /\ y.pending = Tail(r.pending)
             /\ r.synced => y = x
<1> DEFINE d == r.pending[1]
           x == ApplyDiff(Popped(r), d)
           y == [x EXCEPT !.awaiting = FALSE, !.synced = TRUE]
<1>1. /\ r.pending \in Seq(Diffs) /\ r.book \in Books /\ r.lastId \in Ids
      /\ r.synced \in BOOLEAN /\ r.awaiting \in BOOLEAN
  BY DEF Reconcilers
<1>2. /\ Head(r.pending) = d /\ d \in Diffs /\ Tail(r.pending) \in Seq(Diffs)
      /\ Queued(Tail(r.pending), a)
      /\ Tail(r.pending) = <<>> => d.last = a
      /\ Tail(r.pending) # <<>> => Tail(r.pending)[1].first = d.last + 1
  BY <1>1, QueuedTail DEF LiveAt
<1>3. /\ d.first \in Ids /\ d.last \in Ids /\ d.first \in Nat /\ d.last \in Nat
      /\ 1 <= d.first /\ d.first <= d.last
  BY <1>2, DiffFields
<1> HIDE DEF d
<1>4. Popped(r) \in Reconcilers /\ Popped(r).book = r.book
      /\ Popped(r).pending = Tail(r.pending)
      /\ Popped(r).synced = r.synced /\ Popped(r).awaiting = r.awaiting
  BY <1>2 DEF Popped, Reconcilers
<1>5. x \in Reconcilers
  BY <1>2, <1>4, ApplyDiffReconciler
<1>6. /\ x.book = apply_levels(r.book, DiffLevels(d.first, d.last)) /\ x.lastId = d.last
      /\ x.pending = Tail(r.pending) /\ x.synced = r.synced /\ x.awaiting = r.awaiting
  BY <1>4 DEF ApplyDiff, Reconcilers
<1> HIDE DEF x
<1>7. /\ y \in Reconcilers /\ y.book = x.book /\ y.lastId = d.last
      /\ y.pending = Tail(r.pending) /\ y.synced = TRUE /\ y.awaiting = FALSE
  BY <1>5, <1>6 DEF Reconcilers
<1>8. r.synced => y = x
  <2> SUFFICES ASSUME r.synced PROVE y = x
    OBVIOUS
  <2>1. x.synced = TRUE /\ x.awaiting = FALSE
    BY <1>1, <1>6 DEF LiveAt
  <2> QED BY <1>5, <2>1 DEF Reconcilers
<1> HIDE DEF y
<1>9. Shows(y.book, y.lastId)
  <2>1. r.lastId \in Nat /\ d.first - 1 <= r.lastId /\ r.lastId <= d.last
        /\ d.first <= r.lastId + 1
    BY <1>1, <1>3 DEF d, Ids
  <2>2. Shows(r.book, r.lastId)
    BY DEF LiveAt
  <2>3. Shows(apply_levels(r.book, DiffLevels(d.first, d.last)), d.last)
    BY <1>1, <1>3, <2>1, <2>2, ApplyDiffShows
  <2> QED BY <1>6, <1>7, <2>3
<1>10. s <= y.lastId /\ y.lastId # NoId
  <2>1. s <= r.lastId /\ r.lastId \in Nat /\ r.lastId + 1 <= d.last
    BY <1>1 DEF LiveAt, d, Ids
  <2> QED BY <1>3, <1>7, <2>1 DEF NoId
<1>11. LiveAt(y, a, s)
  BY <1>2, <1>7, <1>9, <1>10 DEF LiveAt
<1> QED BY <1>7, <1>8, <1>11 DEF d, x, y

\* An iteration of the loop takes the oldest buffered diff, empties the buffer, or
\* is the last and leaves the book unsynced.
LEMMA DrainStepLive ==
  ASSUME NEW r \in Reconcilers, NEW a \in Nat, NEW s \in Nat, LiveAt(r, a, s)
  PROVE  /\ LiveAt(DrainStep(r), a, s)
         /\ \/ DrainStep(r).pending = <<>>
            \/ DrainStep(r) = r /\ ~r.synced
            \/ r.pending # <<>> /\ Len(DrainStep(r).pending) = Len(r.pending) - 1
<1>1. CASE r.pending = <<>>
  BY <1>1 DEF DrainStep
<1>2. CASE r.pending # <<>>
  <2> DEFINE d == Head(r.pending)
             x == ApplyDiff(Popped(r), d)
             y == [x EXCEPT !.awaiting = FALSE, !.synced = TRUE]
  <2>1. /\ r.pending \in Seq(Diffs) /\ r.lastId \in Ids \cup {NoId}
        /\ r.synced \in BOOLEAN /\ r.awaiting \in BOOLEAN
    BY DEF Reconcilers
  <2>2. /\ d = r.pending[1] /\ d \in Diffs /\ Tail(r.pending) \in Seq(Diffs)
        /\ Len(Tail(r.pending)) = Len(r.pending) - 1
        /\ Queued(Tail(r.pending), a)
    BY <1>2, <2>1, QueuedTail DEF LiveAt
  <2>3. d.first \in Nat /\ d.last \in Nat /\ 1 <= d.first /\ d.first <= d.last
    BY <2>2, DiffFields
  <2>4. r.lastId = NoId \/ r.lastId \in Nat
    BY <2>1 DEF Ids
  <2>5. r.synced => r.lastId # NoId /\ ~r.awaiting /\ d.first = r.lastId + 1
    BY <1>2, <2>2 DEF LiveAt
  <2> HIDE DEF d
  <2>6. CASE d.last <= r.lastId
    <3>1. DrainStep(r) = Popped(r)
      BY <1>2, <2>6 DEF DrainStep, d
    <3>2. ~r.synced
      BY <2>3, <2>4, <2>5, <2>6
    <3>3. /\ Popped(r).pending = Tail(r.pending) /\ Popped(r).book = r.book
          /\ Popped(r).lastId = r.lastId /\ Popped(r).synced = r.synced
          /\ Popped(r).awaiting = r.awaiting
      BY DEF Popped, Reconcilers
    <3> QED BY <1>2, <2>2, <3>1, <3>2, <3>3 DEF LiveAt
  <2>7. CASE ~(d.last <= r.lastId) /\ r.awaiting /\ Bridges(r, d)
    <3>1. DrainStep(r) = y
      BY <1>2, <2>7 DEF DrainStep, d
    <3>2. d.first <= r.lastId + 1 /\ r.lastId + 1 <= d.last
      BY <2>7 DEF Bridges
    <3>3. r.lastId # NoId
      BY <2>3, <3>2 DEF NoId
    <3>4. LiveAt(y, a, s) /\ y.pending = Tail(r.pending)
      BY <1>2, <2>2, <3>2, <3>3, ApplyLive
    <3> HIDE DEF y
    <3> QED BY <1>2, <2>2, <3>1, <3>4
  <2>8. CASE ~(d.last <= r.lastId) /\ r.awaiting /\ ~Bridges(r, d)
    <3>1. DrainStep(r) = r
      BY <1>2, <2>8 DEF DrainStep, d
    <3> QED BY <2>5, <2>8, <3>1
  <2>9. CASE ~(d.last <= r.lastId) /\ ~r.awaiting /\ d.first = r.lastId + 1
    <3>1. DrainStep(r) = x
      BY <1>2, <2>9 DEF DrainStep, d
    <3>2. r.lastId # NoId
      BY <2>3, <2>9 DEF NoId
    <3>3. r.synced
      BY <2>9, <3>2 DEF LiveAt
    <3>4. d.first <= r.lastId + 1 /\ r.lastId + 1 <= d.last
      BY <2>3, <2>9
    <3>5. LiveAt(y, a, s) /\ y.pending = Tail(r.pending) /\ y = x
      BY <1>2, <2>2, <3>2, <3>3, <3>4, ApplyLive
    <3> HIDE DEF x, y
    <3> QED BY <1>2, <2>2, <3>1, <3>5
  <2>10. CASE ~(d.last <= r.lastId) /\ ~r.awaiting /\ ~(d.first = r.lastId + 1)
    <3>1. DrainStep(r) = Gap(r)
      BY <1>2, <2>10 DEF DrainStep, d
    <3>2. Gap(r).lastId = NoId /\ Gap(r).pending = <<>> /\ Gap(r).synced = FALSE
      BY DEF Gap, Reconcilers
    <3> QED BY <3>1, <3>2 DEF LiveAt, Queued
  <2> QED BY <2>6, <2>7, <2>8, <2>9, <2>10
<1> QED BY <1>1, <1>2

\* The loop ends with nothing buffered, or unsynced.
LEMMA DrainLive ==
  ASSUME NEW r \in Reconcilers, NEW a \in Nat, NEW s \in Nat, LiveAt(r, a, s)
  PROVE  LiveAt(Drain(r), a, s) /\ (Drain(r).synced => Drain(r).pending = <<>>)
<1> DEFINE N == Len(r.pending)
           Left(x, k) == \/ x.pending = <<>>
                         \/ DrainStep(x) = x /\ ~x.synced
                         \/ Len(x.pending) <= N - k
           P == [k \in Nat |-> { x \in Reconcilers : LiveAt(x, a, s) /\ Left(x, k) }]
<1>1. N \in Nat
  BY DEF Reconcilers
<1> HIDE DEF N
<1>2. r \in P[0]
  BY <1>1 DEF N
<1>3. ASSUME NEW k \in Nat, NEW x \in P[k] PROVE DrainStep(x) \in P[k + 1]
  <2>1. x \in Reconcilers /\ LiveAt(x, a, s) /\ Left(x, k)
    BY <1>3
  <2>2. DrainStep(x) \in Reconcilers
    BY <2>1, DrainStepReconciler
  <2>3. /\ LiveAt(DrainStep(x), a, s)
        /\ \/ DrainStep(x).pending = <<>>
           \/ DrainStep(x) = x /\ ~x.synced
           \/ x.pending # <<>> /\ Len(DrainStep(x).pending) = Len(x.pending) - 1
    BY <2>1, DrainStepLive
  <2>4. Len(x.pending) \in Nat /\ k + 1 \in Nat
    BY <2>1 DEF Reconcilers
  <2>5. Left(DrainStep(x), k + 1)
    BY <1>1, <2>1, <2>3, <2>4
  <2> HIDE DEF Left
  <2> QED BY <2>2, <2>3, <2>4, <2>5
<1>4. P \in [Nat -> SUBSET Reconcilers]
  OBVIOUS
<1>5. Drain(r) \in P[N]
  <2> HIDE DEF P
  <2> QED BY <1>2, <1>3, <1>4, DrainKeeps DEF N
<1>6. Drain(r) \in Reconcilers /\ LiveAt(Drain(r), a, s) /\ Left(Drain(r), N)
  BY <1>1, <1>5
<1>7. Drain(r).synced => Drain(r).pending = <<>>
  <2>1. Drain(r).pending \in Seq(Diffs)
    BY <1>6 DEF Reconcilers
  <2>2. Len(Drain(r).pending) <= N - N => Drain(r).pending = <<>>
    BY <1>1, <2>1
  <2> QED BY <1>6, <2>2
<1> QED BY <1>6, <1>7

\* Between calls nothing is buffered of a synced book.
Live(r, a, s) == LiveAt(r, a, s) /\ (r.synced => r.pending = <<>>)

LEMMA HandleDiffLive ==
  ASSUME NEW r \in Reconcilers, NEW a \in Nat, NEW s \in Nat, Live(r, a, s),
         NEW d \in Diffs, d.first = a + 1
  PROVE  Live(handle_diff(r, d), d.last, s)
<1>1. /\ r.pending \in Seq(Diffs) /\ r.book \in Books /\ r.lastId \in Ids \cup {NoId}
      /\ r.synced \in BOOLEAN
  BY DEF Reconcilers
<1>2. /\ d.first \in Ids /\ d.last \in Ids /\ d.first \in Nat /\ d.last \in Nat
      /\ 1 <= d.first /\ d.first <= d.last
  BY DiffFields
<1>3. CASE ~r.synced
  <2> DEFINE b == Buffered(r, d)
  <2>1. Append(r.pending, d) \in Seq(Diffs) /\ Queued(Append(r.pending, d), d.last)
    BY <1>1, QueuedAppend DEF Live, LiveAt
  <2>2. /\ BoundBuffer(Append(r.pending, d)) \in Seq(Diffs)
        /\ Queued(BoundBuffer(Append(r.pending, d)), d.last)
    BY <2>1, BoundBufferType, QueuedBound
  <2>3. /\ b \in Reconcilers /\ b.pending = BoundBuffer(Append(r.pending, d))
        /\ b.book = r.book /\ b.lastId = r.lastId /\ b.synced = r.synced
        /\ b.awaiting = r.awaiting
    BY <2>2 DEF Buffered, Reconcilers
  <2> HIDE DEF b
  <2>4. LiveAt(b, d.last, s)
    BY <1>3, <2>2, <2>3 DEF Live, LiveAt
  <2>5. handle_diff(r, d) = IF r.lastId # NoId THEN Drain(b) ELSE b
    BY <1>3 DEF handle_diff, b
  <2>6. Live(Drain(b), d.last, s)
    BY <1>2, <2>3, <2>4, DrainLive DEF Live
  <2>7. Live(b, d.last, s)
    BY <1>3, <2>3, <2>4 DEF Live
  <2> QED BY <2>5, <2>6, <2>7
<1>4. CASE r.synced
  <2> DEFINE x == ApplyDiff(r, d)
  <2>1. /\ r.pending = <<>> /\ r.lastId = a /\ r.lastId # NoId /\ ~r.awaiting
        /\ Shows(r.book, a) /\ s <= a
    BY <1>4 DEF Live, LiveAt
  <2>2. handle_diff(r, d) = x
    BY <1>4, <2>1 DEF handle_diff
  <2>3. /\ x.book = apply_levels(r.book, DiffLevels(d.first, d.last)) /\ x.lastId = d.last
        /\ x.pending = r.pending /\ x.synced = r.synced /\ x.awaiting = r.awaiting
    BY DEF ApplyDiff, Reconcilers
  <2> HIDE DEF x
  <2>4. a \in Ids /\ d.first - 1 <= a /\ a <= d.last /\ s <= d.last /\ d.last # NoId
    BY <1>1, <1>2, <2>1 DEF NoId
  <2>5. Shows(x.book, d.last)
    BY <1>1, <1>2, <2>1, <2>3, <2>4, ApplyDiffShows
  <2>6. Queued(x.pending, d.last)
    BY <2>1, <2>3 DEF Queued
  <2>7. Live(x, d.last, s)
    BY <1>4, <2>1, <2>3, <2>4, <2>5, <2>6 DEF Live, LiveAt
  <2> QED BY <2>2, <2>7
<1> QED BY <1>3, <1>4

LEMMA HandleSnapshotLive ==
  ASSUME NEW r \in Reconcilers, NEW a \in Nat, NEW s \in Nat, Live(r, a, s), NEW n \in Ids
  PROVE  Live(handle_snapshot(r, n), a, n)
<1> DEFINE b == apply_snapshot(SnapshotLevels(n))
           x == [r EXCEPT !.book = b, !.lastId = n, !.synced = FALSE, !.awaiting = TRUE]
<1>1. b \in Books /\ Shows(b, n) /\ n \in Nat
  BY SnapshotShows DEF Ids
<1>2. handle_snapshot(r, n) = Drain(x)
  BY DEF handle_snapshot
<1> HIDE DEF b
<1>3. /\ x \in Reconcilers /\ x.book = b /\ x.lastId = n /\ x.synced = FALSE
      /\ x.awaiting = TRUE /\ x.pending = r.pending
  BY <1>1 DEF Reconcilers
<1> HIDE DEF x
<1>4. LiveAt(x, a, n)
  BY <1>1, <1>3 DEF Live, LiveAt
<1> QED BY <1>1, <1>2, <1>3, <1>4, DrainLive DEF Live

\* The update of the connection's snapshot, once the live book has taken it.
Taken == IF fetch.pc = "done" THEN fetch.id ELSE 0

LiveInv ==
  /\ Live(rec, Arrived, Taken)
  /\ \A e \in Logs : e.conn = conn /\ IsSnapshot(e) => fetch.pc = "done"

LEMMA LiveInit == Init => LiveInv
<1> SUFFICES ASSUME Init PROVE LiveInv
  OBVIOUS
<1>1. rec.lastId = NoId /\ rec.pending = <<>> /\ rec.synced = FALSE
  BY DEF Init, NewReconciler
<1>2. Logs = {}
  BY DEF Init, Logs, ToSet
<1> QED BY <1>1, <1>2 DEF LiveInv, Live, LiveAt, Queued

LEMMA LiveStep ==
  ASSUME TypeInv, PastInv, TransitInv, LiveInv, [Next]_vars
  PROVE  LiveInv'
<1>1. /\ rec \in Reconcilers /\ Arrived \in Nat /\ fetch.id \in Ids /\ Taken \in Nat
      /\ fetch \in FetchStates
  BY ArrivedType DEF TypeInv, TypeOK, FetchStates, Taken, Ids
<1>2. Live(rec, Arrived, Taken)
  BY DEF LiveInv
<1>3. CASE PutSnapshot
  <2>1. /\ transit' = transit /\ emitted' = emitted
        /\ rec' = handle_snapshot(rec, fetch.id)
        /\ fetch'.pc = "done" /\ fetch'.id = fetch.id
    BY <1>1, <1>3 DEF PutSnapshot, FetchStates
  <2>2. Arrived' = Arrived /\ Taken' = fetch.id
    BY <2>1 DEF Arrived, Taken
  <2>3. Live(handle_snapshot(rec, fetch.id), Arrived, fetch.id)
    BY <1>1, <1>2, HandleSnapshotLive
  <2> QED BY <2>1, <2>2, <2>3 DEF LiveInv
<1>4. CASE DiffArrives
  <2> DEFINE d == transit[1].event
  <2>1. /\ d \in Diffs /\ Head(transit).event = d
    BY <1>4, ArrivingDiff
  <2>2. Arrived' = d.last /\ d.first = Arrived + 1
    <3>1. Arrived = d.first - 1
      BY <1>4, ArrivedType DEF DiffArrives
    <3> QED BY <1>4, <2>1, <3>1, DiffFields, DiffArrived
  <2>3. rec' = handle_diff(rec, d) /\ fetch' = fetch
    BY <1>4, <2>1 DEF DiffArrives
  <2> HIDE DEF d
  <2>4. Taken' = Taken
    BY <2>3 DEF Taken
  <2>5. Live(handle_diff(rec, d), d.last, Taken)
    BY <1>1, <1>2, <2>1, <2>2, HandleDiffLive
  <2>6. \A e \in Logs' : e \in Logs \/ ~IsSnapshot(e)
    <3>1. ~IsSnapshot(Entry(d, transit[1].ts, conn))
      BY <2>1, DiffFields DEF Entry, IsSnapshot
    <3>2. Logs' \subseteq Logs \cup {Entry(d, transit[1].ts, conn)}
      BY <1>4, DiffArrivesStamps DEF d
    <3> QED BY <3>1, <3>2
  <2>7. conn' = conn
    BY <1>4 DEF DiffArrives
  <2> QED BY <2>2, <2>3, <2>4, <2>5, <2>6, <2>7 DEF LiveInv
<1>5. CASE Reconnect
  <2>1. rec' = [rec EXCEPT !.synced = FALSE, !.book = EmptyBook, !.lastId = NoId,
                           !.pending = <<>>]
    BY <1>5 DEF Reconnect, handle_connection_event, Clears
  <2>2. rec'.lastId = NoId /\ rec'.pending = <<>> /\ rec'.synced = FALSE
    BY <1>1, <2>1 DEF Reconcilers
  <2>3. \A e \in Logs' : e.conn # conn'
    <3> SUFFICES ASSUME NEW e \in Logs' PROVE e.conn # conn'
      OBVIOUS
    <3>1. e \in Entries /\ e.conn <= conn /\ conn' = conn + 1 /\ conn \in Nat
      BY <1>5, ReconnectStamps, StampsType, ReplayAssumption
         DEF Stamps, PastInv, PastEvent, Reconnect, TypeInv, TypeOK
    <3> QED BY <3>1, EntryKinds
  <2> QED BY <2>2, <2>3 DEF LiveInv, Live, LiveAt, Queued
<1>6. ASSUME rec' = rec, Arrived' = Arrived, Taken' = Taken, Logs' = Logs, conn' = conn,
             fetch.pc = "done" => fetch'.pc = "done"
      PROVE  LiveInv'
  BY <1>2, <1>6 DEF LiveInv
<1>7. CASE EmitDiff
  <2>1. rec' = rec /\ fetch' = fetch /\ conn' = conn /\ log' = log
    BY <1>7 DEF EmitDiff
  <2>2. Arrived' = Arrived /\ Taken' = Taken /\ Logs' = Logs
    BY <1>7, <2>1, EmitArrived DEF Taken, Logs
  <2> QED BY <1>6, <2>1, <2>2
<1>8. CASE Publish \/ Answer \/ SnapshotArrives \/ DropChunks \/ UNCHANGED vars
  <2>1. /\ rec' = rec /\ transit' = transit /\ emitted' = emitted
        /\ conn' = conn /\ log' = log
        /\ \/ fetch' = fetch
           \/ fetch.pc # "done" /\ fetch'.pc # "done"
    <3>1. CASE SnapshotArrives
      BY <1>1, <3>1 DEF SnapshotArrives, FetchStates
    <3>2. CASE Publish \/ Answer \/ DropChunks \/ UNCHANGED vars
      BY <3>2 DEF Publish, Answer, DropChunks, vars
    <3> QED BY <1>8, <3>1, <3>2
  <2>2. Arrived' = Arrived /\ Taken' = Taken /\ Logs' = Logs
    BY <2>1 DEF Arrived, Taken, Logs
  <2> QED BY <1>6, <2>1, <2>2
<1> QED BY <1>3, <1>4, <1>5, <1>7, <1>8 DEF Next

------------------------------------------------------------------------------
(* The inductive invariant. *)

LogInv == TypeInv /\ PastInv /\ StampInv /\ TransitInv /\ LinkInv /\ LiveInv

LEMMA LogInvariant == Spec => []LogInv
<1>1. Init => LogInv
  <2> SUFFICES ASSUME Init PROVE LogInv
    OBVIOUS
  <2>1. Logs = {} /\ InTransit = {} /\ Fetched = {}
    BY DEF Init, Logs, ToSet, InTransit, Fetched, Requested
  <2>2. StampInv
    BY <2>1 DEF StampInv, Stamps
  <2> QED BY <2>2, TypeInit, PastInit, TransitInit, LinkInit, LiveInit DEF LogInv
<1>2. LogInv /\ [Next]_vars => LogInv'
  BY TypeStep, PastStep, StampStep, TransitStep, LinkStep, LiveStep
     DEF LogInv
<1> QED BY <1>1, <1>2, PTL DEF Spec

------------------------------------------------------------------------------
(* The replay, moment by moment. *)

Replays == [book : Books, lastId : Ids \cup {NoId}]

LEMMA ApplyType ==
  ASSUME NEW r \in Replays, NEW e \in Entries
  PROVE  Apply(r, e) \in Replays /\ Apply(r, e).lastId = LastOf(e.event)
<1>1. CASE IsSnapshot(e)
  <2>1. e.event.id \in Ids /\ e.event.type = "snapshot" /\ LastOf(e.event) = e.event.id
    BY <1>1, EntryKinds DEF IsSnapshot
  <2>2. apply_snapshot(SnapshotLevels(e.event.id)) \in Books
    BY <2>1, SnapshotShows
  <2> QED BY <2>1, <2>2 DEF Apply, Replays
<1>2. CASE IsDiff(e)
  <2>1. /\ e.event.first \in Ids /\ e.event.last \in Ids
        /\ e.event.type # "snapshot" /\ LastOf(e.event) = e.event.last
    BY <1>2, EntryKinds, DiffFields DEF IsDiff
  <2>2. r.book \in Books
    BY DEF Replays
  <2>3. apply_levels(r.book, DiffLevels(e.event.first, e.event.last)) \in Books
    BY <2>1, <2>2, ApplyDiffType
  <2> QED BY <2>1, <2>3 DEF Apply, Replays
<1> QED BY <1>1, <1>2, EntryKinds

LEMMA EmptyReplayType == EmptyReplay \in Replays
  BY EmptyBookType DEF EmptyReplay, Replays

\* g[t] is the book that the rows stamped before t make.
RunOf(g, rows) ==
  /\ g[0] = EmptyReplay
  /\ \A t \in 0..clock : g[t] \in Replays
  /\ \A t \in 1..clock :
       \/ g[t] = g[t - 1] /\ \A e \in rows : e.ts # t - 1
       \/ \E e \in rows : e.ts = t - 1 /\ g[t] = Apply(g[t - 1], e)

\* The rows of one moment are of one event.
LEMMA ApplyGroupOne ==
  ASSUME LogInv, NEW rows \in SUBSET Logs, NEW r \in Replays, NEW t \in Nat
  PROVE  LET a == ApplyGroup(r, { e \in rows : e.ts = t })
         IN  /\ a \in Replays
             /\ \/ a = r /\ \A e \in rows : e.ts # t
                \/ \E e \in rows : e.ts = t /\ a = Apply(r, e)
<1> DEFINE group == { e \in rows : e.ts = t }
<1>1. CASE group = {}
  <2>1. ApplyGroup(r, group) = r
    BY <1>1 DEF ApplyGroup
  <2> QED BY <1>1, <2>1
<1>2. CASE group # {}
  <2> PICK e : e = CHOOSE x \in group : TRUE
    OBVIOUS
  <2>1. e \in group
    BY <1>2
  <2>2. ApplyGroup(r, group) = Apply(r, e)
    BY <1>2 DEF ApplyGroup
  <2>3. e \in rows /\ e.ts = t /\ e \in Entries
    BY <2>1, StampsType DEF LogInv, Stamps
  <2>4. Apply(r, e) \in Replays
    BY <2>3, ApplyType
  <2> QED BY <2>2, <2>3, <2>4
<1> QED BY <1>1, <1>2

LEMMA ReconstructRun ==
  ASSUME LogInv, NEW asOf
  PROVE  \E g : RunOf(g, Selected(asOf)) /\ reconstruct(asOf) = g[clock]
<1> DEFINE rows == Selected(asOf)
           after(r, t) == ApplyGroup(r, { e \in rows : e.ts = t - 1 })
           step == [x \in (0..clock) \X Replays |->
                      IF x[1] = 0 THEN x[2] ELSE after(x[2], x[1])]
           Equation(g) == g = [t \in 0..clock |->
             IF t = 0 THEN EmptyReplay
             ELSE ApplyGroup(g[t - 1], { e \in rows : e.ts = t - 1 })]
<1>1. clock \in Nat /\ rows \in SUBSET Logs
  BY DEF LogInv, TypeInv, TypeOK, Times, Selected, Logs
<1> HIDE DEF rows
<1>2. ASSUME NEW r \in Replays, NEW t \in 1..clock
      PROVE  /\ after(r, t) \in Replays
             /\ \/ after(r, t) = r /\ \A e \in rows : e.ts # t - 1
                \/ \E e \in rows : e.ts = t - 1 /\ after(r, t) = Apply(r, e)
  <2>1. t - 1 \in Nat
    BY <1>1
  <2> QED BY <1>1, <2>1, ApplyGroupOne
<1> HIDE DEF after
<1>3. step \in [(0..clock) \X Replays -> Replays]
  <2> SUFFICES ASSUME NEW x \in (0..clock) \X Replays
               PROVE  (IF x[1] = 0 THEN x[2] ELSE after(x[2], x[1])) \in Replays
    OBVIOUS
  <2>1. x[1] \in 0..clock /\ x[2] \in Replays
    OBVIOUS
  <2>2. x[1] # 0 => x[1] \in 1..clock
    BY <1>1, <2>1
  <2> QED BY <1>2, <2>1, <2>2
<1>4. PICK f : Computed(f, 0, clock, Replays, EmptyReplay, step)
  <2>1. 0 \in Nat /\ 0 <= clock
    BY <1>1
  <2> HIDE DEF step
  <2> QED BY <1>1, <1>3, <2>1, EmptyReplayType, RecursionExists
<1>5. \A t \in 1..clock : f[t] = after(f[t - 1], t)
  <2> SUFFICES ASSUME NEW t \in 1..clock PROVE f[t] = after(f[t - 1], t)
    OBVIOUS
  <2>1. t \in (0 + 1)..clock /\ t \in 0..clock /\ t - 1 \in 0..clock /\ t # 0
    BY <1>1
  <2>2. <<t, f[t - 1]>> \in (0..clock) \X Replays
    BY <1>4, <2>1 DEF Computed
  <2>3. f[t] = step[<<t, f[t - 1]>>]
    BY <1>4, <2>1 DEF Computed
  <2> QED BY <2>1, <2>2, <2>3
<1>6. Equation(f)
  <2>1. f \in [0..clock -> Replays] /\ f[0] = EmptyReplay
    BY <1>4 DEF Computed
  <2>2. f = [t \in 0..clock |-> f[t]]
    BY <2>1
  <2>3. \A t \in 0..clock : f[t] = IF t = 0 THEN EmptyReplay ELSE after(f[t - 1], t)
    BY <1>1, <1>5, <2>1
  <2> QED BY <2>2, <2>3 DEF after
<1>7. PICK g : Equation(g) /\ reconstruct(asOf) = g[clock]
  <2>1. Equation(CHOOSE g : Equation(g))
    BY <1>6
  <2>2. reconstruct(asOf) = (CHOOSE g : Equation(g))[clock]
    BY DEF reconstruct, rows
  <2> QED BY <2>1, <2>2
<1>8. /\ \A t \in 0..clock : t = 0 => g[t] = EmptyReplay
      /\ \A t \in 1..clock : g[t] = after(g[t - 1], t)
  <2>1. \A t \in 0..clock :
          g[t] = IF t = 0 THEN EmptyReplay
                 ELSE ApplyGroup(g[t - 1], { e \in rows : e.ts = t - 1 })
    BY <1>7, Zenon
  <2>2. \A t \in 1..clock : t \in 0..clock /\ t # 0
    BY <1>1
  <2> QED BY <2>1, <2>2 DEF after
<1>9. g[0] = EmptyReplay
  <2>1. 0 \in 0..clock
    BY <1>1
  <2> QED BY <1>8, <2>1
<1> DEFINE S == { t \in 0..clock : g[t] \in Replays }
<1>10. 0 \in S
  BY <1>1, <1>9, EmptyReplayType
<1>11. ASSUME NEW t \in (0 + 1)..clock, t - 1 \in S PROVE t \in S
  <2>1. t \in 1..clock /\ t \in 0..clock
    BY <1>1
  <2> QED BY <1>2, <1>8, <1>11, <2>1
<1>12. 0..clock \subseteq S
  <2> HIDE DEF S
  <2> QED BY <1>1, <1>10, <1>11, IntervalInduction
<1>13. ASSUME NEW t \in 1..clock
       PROVE  \/ g[t] = g[t - 1] /\ \A e \in rows : e.ts # t - 1
              \/ \E e \in rows : e.ts = t - 1 /\ g[t] = Apply(g[t - 1], e)
  <2>1. t - 1 \in 0..clock
    BY <1>1
  <2>2. g[t - 1] \in Replays /\ g[t] = after(g[t - 1], t)
    BY <1>8, <1>12, <2>1
  <2> QED BY <1>2, <2>2
<1> HIDE DEF Equation
<1>14. RunOf(g, rows)
  BY <1>9, <1>12, <1>13 DEF RunOf
<1> QED BY <1>7, <1>14 DEF rows

LEMMA ReconstructType ==
  ASSUME LogInv, NEW asOf
  PROVE  reconstruct(asOf) \in Replays /\ reconstruct(asOf).book \in Books
<1>1. PICK g : RunOf(g, Selected(asOf)) /\ reconstruct(asOf) = g[clock]
  BY ReconstructRun
<1>2. clock \in 0..clock
  BY DEF LogInv, TypeInv, TypeOK, Times
<1>3. g[clock] \in Replays
  BY <1>1, <1>2 DEF RunOf
<1> QED BY <1>1, <1>3 DEF Replays

\* The replay is at the update of a row that it has applied, if any.
LEMMA RunAtRow ==
  ASSUME LogInv, NEW rows \in SUBSET Logs, NEW g, RunOf(g, rows)
  PROVE  g[clock].lastId = NoId \/ \E x \in rows : g[clock].lastId = LastOf(x.event)
<1> DEFINE At(r) == r.lastId = NoId \/ \E x \in rows : r.lastId = LastOf(x.event)
           S == { t \in 0..clock : At(g[t]) }
<1>1. clock \in Nat /\ clock \in 0..clock /\ 0 \in 0..clock
  BY DEF LogInv, TypeInv, TypeOK, Times
<1>2. 0 \in S
  BY <1>1 DEF RunOf, EmptyReplay
<1>3. ASSUME NEW t \in (0 + 1)..clock, t - 1 \in S PROVE t \in S
  <2>1. t \in 1..clock /\ t \in 0..clock /\ t - 1 \in 0..clock /\ At(g[t - 1])
    BY <1>1, <1>3
  <2>2. CASE g[t] = g[t - 1]
    BY <2>1, <2>2
  <2>3. ASSUME NEW e \in rows, g[t] = Apply(g[t - 1], e) PROVE At(g[t])
    <3>1. e \in Entries /\ g[t - 1] \in Replays
      BY <2>1, StampsType DEF LogInv, Stamps, RunOf
    <3> QED BY <2>3, <3>1, ApplyType
  <2> QED BY <2>1, <2>2, <2>3 DEF RunOf
<1>4. 0..clock \subseteq S
  <2> HIDE DEF S
  <2> QED BY <1>1, <1>2, <1>3, IntervalInduction
<1> QED BY <1>1, <1>4

\* The replay at a moment has applied only events stamped by then, and an event
\* is stamped after the updates it covers: a backtest is shown nothing that had
\* not yet happened on the exchange.
THEOREM ReplayNeverLooksAhead == Spec => []ReplayHasNoLookahead
<1>1. LogInv => ReplayHasNoLookahead
  <2> SUFFICES ASSUME LogInv, NEW asOf \in 0..clock, NEW n \in 1..reconstruct(asOf).lastId
               PROVE  publishedAt[n] <= asOf
    BY DEF ReplayHasNoLookahead
  <2>1. PICK g : RunOf(g, Selected(asOf)) /\ reconstruct(asOf) = g[clock]
    BY ReconstructRun
  <2>2. Selected(asOf) \in SUBSET Logs
    BY DEF Selected, Logs
  <2>3. PICK x \in Selected(asOf) : reconstruct(asOf).lastId = LastOf(x.event)
    <3>1. 1..NoId = {}
      BY DEF NoId
    <3>2. reconstruct(asOf).lastId # NoId
      BY <3>1
    <3> QED BY <2>1, <2>2, <3>2, RunAtRow
  <2>4. x \in Stamps /\ x \in Entries /\ x.ts <= asOf
    BY <2>2, <2>3, StampsType DEF LogInv, Stamps, Selected
  <2>5. StampedAfter(x) /\ LastOf(x.event) <= Published /\ x.ts \in Nat
        /\ LastOf(x.event) \in Nat
    BY <2>4, EntryKinds DEF LogInv, PastInv, PastEvent
  <2>6. publishedAt[n] < x.ts
    BY <2>3, <2>5 DEF StampedAfter
  <2>7. publishedAt[n] \in Nat /\ asOf \in Nat
    <3>1. publishedAt \in Seq(Nat) /\ clock \in Nat
      BY DEF LogInv, TypeInv, TypeOK, Times
    <3>2. n \in 1..Len(publishedAt)
      BY <2>3, <2>5, <3>1 DEF Published
    <3> QED BY <3>1, <3>2
  <2> QED BY <2>4, <2>5, <2>6, <2>7
<1> QED BY <1>1, LogInvariant, PTL

------------------------------------------------------------------------------
(* Books that may miss levels. *)

\* The book holds nothing but the exchange's levels after update n, and all of
\* them when it should and no depth limit hides any.
Right(book, n, all) ==
  /\ DOMAIN book \subseteq DOMAIN BookAt[n]
  /\ \A l \in DOMAIN book : book[l] = BookAt[n][l]
  /\ all /\ FullDepth => DOMAIN book = DOMAIN BookAt[n]

LEMMA RightIsShows == \A book, n : Right(book, n, TRUE) <=> Shows(book, n)
  BY DEF Right, Shows

LEMMA SameFunction ==
  ASSUME NEW b \in Books, NEW c \in Books, DOMAIN b = DOMAIN c,
         \A l \in DOMAIN b : b[l] = c[l]
  PROVE  b = c
<1>1. b = [l \in DOMAIN b |-> b[l]] /\ c = [l \in DOMAIN c |-> c[l]]
  BY DEF Books
<1> QED BY <1>1

\* A book that may miss levels, in the terms of a single level.
LEMMA RightSizes ==
  ASSUME NEW book, NEW n \in Ids, NEW all \in BOOLEAN
  PROVE  Right(book, n, all) <=>
           /\ \A l \in DOMAIN book : SizeAt(n, l) # 0 /\ book[l] = SizeAt(n, l)
           /\ all /\ FullDepth => \A l \in Levels : SizeAt(n, l) # 0 => l \in DOMAIN book
<1>1. \A l : /\ SizeAt(n, l) # 0 <=> l \in DOMAIN BookAt[n]
             /\ l \in DOMAIN BookAt[n] => BookAt[n][l] = SizeAt(n, l) /\ l \in Levels
  BY SizeAtType
<1> QED BY <1>1 DEF Right

LEMMA SameBookRight ==
  ASSUME NEW book \in Books, NEW m \in Ids, NEW n \in Ids, NEW all \in BOOLEAN,
         SameBook(m, n), Right(book, m, all)
  PROVE  Right(book, n, all)
<1>1. DOMAIN book \subseteq Levels
  BY DEF Books
<1>2. \A l \in Levels : SizeAt(m, l) = SizeAt(n, l)
  BY DEF SameBook
<1> QED BY <1>1, <1>2, RightSizes

\* What apply_levels makes of a diff.
LEMMA DiffSizes ==
  ASSUME NEW book \in Books, NEW U \in Ids, NEW u \in Ids
  PROVE  LET new == apply_levels(book, DiffLevels(U, u))
         IN  /\ \A l \in DOMAIN new :
                  \/ l \in Touched(U, u) /\ SizeAt(u, l) # 0 /\ new[l] = SizeAt(u, l)
                  \/ l \in DOMAIN book \ Touched(U, u) /\ new[l] = book[l]
             /\ \A l \in Touched(U, u) : SizeAt(u, l) # 0 => l \in DOMAIN new
             /\ \A l \in DOMAIN book \ Touched(U, u) : l \in DOMAIN new
<1> DEFINE T == Touched(U, u)
           set == { l \in DOMAIN DiffLevels(U, u) : DiffLevels(U, u)[l] # 0 }
<1>1. DOMAIN DiffLevels(U, u) = T /\ \A l \in T : DiffLevels(U, u)[l] = SizeAt(u, l)
  BY DEF DiffLevels
<1>2. apply_levels(book, DiffLevels(U, u)) =
        [l \in (DOMAIN book \ T) \cup set |->
           IF l \in set THEN DiffLevels(U, u)[l] ELSE book[l]]
  BY <1>1 DEF apply_levels
<1>3. set = { l \in T : SizeAt(u, l) # 0 }
  BY <1>1
<1> HIDE DEF T, set
<1> QED BY <1>1, <1>2, <1>3 DEF T

\* A diff takes a book that holds levels of an update between to one that holds
\* levels of its last, and misses none that was not missed before.
LEMMA ApplyDiffRight ==
  ASSUME NEW book \in Books, NEW n \in Ids, NEW all \in BOOLEAN, Right(book, n, all),
         NEW U \in Ids, NEW u \in Ids, U >= 1, U - 1 <= n, n <= u
  PROVE  Right(apply_levels(book, DiffLevels(U, u)), u, all)
<1> DEFINE new == apply_levels(book, DiffLevels(U, u))
<1>1. ASSUME NEW l \in Levels, l \notin Touched(U, u) PROVE SizeAt(n, l) = SizeAt(u, l)
  <2>1. n \in (U - 1)..u
    BY DEF Ids
  <2> QED BY <1>1, <2>1 DEF Touched
<1>2. DOMAIN book \subseteq Levels
  BY DEF Books
<1>3. /\ \A l \in DOMAIN book : SizeAt(n, l) # 0 /\ book[l] = SizeAt(n, l)
      /\ all /\ FullDepth => \A l \in Levels : SizeAt(n, l) # 0 => l \in DOMAIN book
  BY RightSizes
<1>4. /\ \A l \in DOMAIN new :
           \/ l \in Touched(U, u) /\ SizeAt(u, l) # 0 /\ new[l] = SizeAt(u, l)
           \/ l \in DOMAIN book \ Touched(U, u) /\ new[l] = book[l]
      /\ \A l \in Touched(U, u) : SizeAt(u, l) # 0 => l \in DOMAIN new
      /\ \A l \in DOMAIN book \ Touched(U, u) : l \in DOMAIN new
  BY DiffSizes
<1> HIDE DEF new
<1>5. \A l \in DOMAIN new : SizeAt(u, l) # 0 /\ new[l] = SizeAt(u, l)
  BY <1>1, <1>2, <1>3, <1>4
<1>6. all /\ FullDepth => \A l \in Levels : SizeAt(u, l) # 0 => l \in DOMAIN new
  BY <1>1, <1>3, <1>4
<1> QED BY <1>5, <1>6, RightSizes DEF new

\* A diff on the empty book makes levels of its last update.
LEMMA EmptyDiffRight ==
  ASSUME NEW U \in Ids, NEW u \in Ids
  PROVE  Right(apply_levels(EmptyBook, DiffLevels(U, u)), u, FALSE)
<1> DEFINE new == apply_levels(EmptyBook, DiffLevels(U, u))
<1>1. DOMAIN EmptyBook = {}
  BY DEF EmptyBook
<1>2. \A l \in DOMAIN new : SizeAt(u, l) # 0 /\ new[l] = SizeAt(u, l)
  <2> PICK book \in Books : book = EmptyBook
    BY EmptyBookType
  <2>1. \A l \in DOMAIN apply_levels(book, DiffLevels(U, u)) :
          \/ l \in Touched(U, u) /\ SizeAt(u, l) # 0
             /\ apply_levels(book, DiffLevels(U, u))[l] = SizeAt(u, l)
          \/ l \in DOMAIN book \ Touched(U, u)
    BY DiffSizes
  <2>2. apply_levels(book, DiffLevels(U, u)) = new
    OBVIOUS
  <2> HIDE DEF new
  <2> QED BY <1>1, <2>1, <2>2
<1> HIDE DEF new
<1> QED BY <1>2, RightSizes DEF new

------------------------------------------------------------------------------
(* The loop, over rows of one connection. *)

\* Where the timestamps put a connection's snapshot before the diffs beyond it,
\* what is stamped later covers later updates.
LEMMA LaterCoversMore ==
  ASSUME LogInv, SnapshotFirst, NEW e \in Logs, NEW f \in Logs, e.conn = f.conn,
         e.ts < f.ts
  PROVE  LastOf(e.event) <= LastOf(f.event)
<1>1. e \in Stamps /\ f \in Stamps /\ e \in Entries /\ f \in Entries
  BY StampsType DEF LogInv, Stamps
<1>2. InOrder(e, f)
  BY <1>1 DEF LogInv, StampInv
<1>3. e.ts \in Nat /\ f.ts \in Nat /\ e # f
  BY <1>1, EntryKinds
<1>4. CASE IsDiff(f)
  <2>1. CASE IsDiff(e)
    <3>1. e.event.last < f.event.first
      BY <1>2, <1>4, <2>1 DEF InOrder
    <3> QED BY <1>1, <1>4, <2>1, <3>1, EntryKinds
  <2>2. CASE IsSnapshot(e)
    <3>1. e.event.id <= f.event.last
      BY <1>2, <1>4, <2>2 DEF InOrder
    <3> QED BY <1>1, <1>4, <2>2, <3>1, EntryKinds
  <2> QED BY <1>1, <2>1, <2>2, EntryKinds
<1>5. CASE IsSnapshot(f)
  <2>1. IsDiff(e)
    BY <1>1, <1>2, <1>3, <1>5, EntryKinds DEF InOrder
  <2>2. ~(e.event.last > f.event.id)
    <3>1. \E i, j \in DOMAIN log : log[i] = f /\ log[j] = e
      BY DEF Logs, ToSet
    <3>2. e.event.last > f.event.id => f.ts < e.ts
      BY <1>5, <2>1, <3>1 DEF SnapshotFirst, IsDiff, IsSnapshot
    <3> QED BY <1>3, <3>2
  <2> QED BY <1>1, <1>5, <2>1, <2>2, EntryKinds
<1> QED BY <1>1, <1>4, <1>5, EntryKinds

\* Rows of one connection, with every row of it that is stamped between two.
Window(W) ==
  /\ W \subseteq Logs
  /\ FromOneConnection(W)
  /\ \A x, y \in W : \A h \in Logs : x.ts <= h.ts /\ h.ts <= y.ts => h \in W

\* The book that the rows of the window stamped before t make, from nothing
\* unless it is to hold every level.
Follows(W, all, t, r) ==
  \/ ~all /\ r = EmptyReplay /\ \A y \in W : ~(y.ts < t)
  \/ \E x \in W :
       /\ x.ts < t /\ r.lastId = LastOf(x.event)
       /\ Right(r.book, r.lastId, all)
       /\ \A y \in W : y.ts < t => LastOf(y.event) <= r.lastId

\* No diff of the connection lies between the update the replay is at and the
\* next diff of the window: it would be in the window, and applied.
LEMMA NoneBetween ==
  ASSUME LogInv, SnapshotFirst, NEW W, Window(W),
         NEW x \in W, NEW e \in W, IsDiff(e), x.ts < e.ts,
         \A y \in W : y.ts < e.ts => LastOf(y.event) <= LastOf(x.event),
         NEW h \in Logs, IsDiff(h), h.conn = e.conn,
         LastOf(x.event) < h.event.last, h.event.last <= e.event.first - 1
  PROVE  FALSE
<1>1. /\ x \in Logs /\ e \in Logs /\ x.conn = e.conn
      /\ x \in Entries /\ e \in Entries /\ h \in Entries
      /\ e \in Stamps /\ h \in Stamps /\ x \in Stamps
  BY StampsType DEF LogInv, Stamps, Window, FromOneConnection
<1>2. /\ x.ts \in Nat /\ e.ts \in Nat /\ h.ts \in Nat /\ LastOf(x.event) \in Nat
      /\ LastOf(h.event) = h.event.last /\ h.event.last \in Nat /\ h.event.first \in Nat
      /\ h.event.first <= h.event.last
      /\ e.event.first \in Nat /\ e.event.last \in Nat /\ e.event.first <= e.event.last
  BY <1>1, EntryKinds
<1>3. h.ts < e.ts
  <2>1. h.ts # e.ts
    <3>1. h # e
      BY <1>2
    <3> QED BY <1>1, <3>1 DEF LogInv, StampInv, InOrder
  <2>2. ~(e.ts < h.ts)
    <3>1. e.ts < h.ts => e.event.last < h.event.first
      BY <1>1 DEF LogInv, StampInv, InOrder
    <3> QED BY <1>2, <3>1
  <2> QED BY <1>2, <2>1, <2>2
<1>4. ~(h.ts < x.ts)
  <2>1. h.ts < x.ts => LastOf(h.event) <= LastOf(x.event)
    BY <1>1, LaterCoversMore
  <2> QED BY <1>2, <2>1
<1>5. h \in W
  <2>1. x.ts <= h.ts /\ h.ts <= e.ts
    BY <1>2, <1>3, <1>4
  <2> QED BY <2>1 DEF Window
<1> QED BY <1>2, <1>3, <1>5

LEMMA FollowsRow ==
  ASSUME LogInv, SnapshotFirst, NEW W, Window(W), NEW all \in BOOLEAN,
         NEW t \in Nat, NEW r \in Replays, Follows(W, all, t, r),
         NEW e \in W, e.ts = t
  PROVE  Follows(W, all, t + 1, Apply(r, e))
<1> DEFINE new == Apply(r, e)
<1>1. /\ e \in Entries /\ e \in Logs /\ W \subseteq Logs /\ W \subseteq Entries
      /\ W \subseteq Stamps
  BY StampsType DEF LogInv, Stamps, Window
<1>2. new.lastId = LastOf(e.event) /\ LastOf(e.event) \in Ids
  BY <1>1, ApplyType, EntryKinds
<1>3. ASSUME NEW y \in W, y.ts < t + 1 PROVE LastOf(y.event) <= LastOf(e.event)
  <2>1. y \in Entries /\ y.ts \in Nat /\ LastOf(y.event) \in Nat
    BY <1>1, EntryKinds
  <2>2. CASE y.ts = t
    <3>1. y = e
      BY <1>1, <2>2 DEF LogInv, StampInv, InOrder
    <3> QED BY <2>1, <3>1
  <2>3. CASE y.ts < e.ts
    <3>1. y.conn = e.conn
      BY DEF Window, FromOneConnection
    <3> QED BY <1>1, <2>3, <3>1, LaterCoversMore
  <2> QED BY <1>3, <2>1, <2>2, <2>3
<1>4. Right(new.book, LastOf(e.event), all)
  <2>1. CASE IsSnapshot(e)
    <3>1. /\ e.event.type = "snapshot" /\ LastOf(e.event) = e.event.id /\ e.event.id \in Ids
      BY <1>1, <2>1, EntryKinds DEF IsSnapshot
    <3>2. new.book = apply_snapshot(SnapshotLevels(e.event.id))
      BY <3>1 DEF Apply
    <3>3. Shows(new.book, LastOf(e.event))
      BY <3>1, <3>2, SnapshotShows
    <3> QED BY <3>3 DEF Right, Shows
  <2>2. CASE IsDiff(e)
    <3> DEFINE U == e.event.first
               u == e.event.last
    <3>1. /\ e.event.type # "snapshot" /\ LastOf(e.event) = u /\ u \in Ids /\ U \in Ids
          /\ U \in Nat /\ u \in Nat /\ 1 <= U /\ U <= u /\ U - 1 \in Ids
          /\ e.conn \in 1..MaxConnections
      <4>1. e.event \in Diffs
        BY <1>1, <2>2, EntryKinds
      <4>2. U \in Ids /\ U \in Nat /\ u \in Nat /\ 1 <= U /\ U <= u
        BY <4>1, DiffFields
      <4>3. U - 1 \in Ids
        BY <4>2, MarketAssumption DEF Ids
      <4> QED BY <1>1, <2>2, <4>2, <4>3, EntryKinds DEF IsDiff
    <3>2. new.book = apply_levels(r.book, DiffLevels(U, u)) /\ r.book \in Books
      BY <3>1 DEF Apply, Replays
    <3> HIDE DEF new, U, u
    <3>3. CASE ~all /\ r = EmptyReplay
      <4>1. Right(apply_levels(EmptyBook, DiffLevels(U, u)), u, FALSE)
        BY <3>1, EmptyDiffRight
      <4>2. new.book = apply_levels(EmptyBook, DiffLevels(U, u)) /\ all = FALSE
        BY <3>2, <3>3 DEF EmptyReplay
      <4> QED BY <3>1, <4>1, <4>2
    <3>4. ASSUME NEW x \in W, x.ts < t, r.lastId = LastOf(x.event),
                 Right(r.book, r.lastId, all),
                 \A y \in W : y.ts < t => LastOf(y.event) <= r.lastId
          PROVE  Right(new.book, LastOf(e.event), all)
      <4> DEFINE n == LastOf(x.event)
      <4>1. n \in Ids /\ n \in Nat
        BY <1>1, EntryKinds
      <4>2. n <= u
        BY <1>1, <3>1, <3>4, LaterCoversMore DEF Window, FromOneConnection
      <4> HIDE DEF n
      <4>3. CASE U - 1 <= n
        BY <3>1, <3>2, <3>4, <4>1, <4>2, <4>3, ApplyDiffRight DEF n
      <4>4. CASE n < U - 1
        <5>1. Mark(n, e.conn)
          <6>1. x \in Logs /\ x.conn = e.conn
            BY <1>1 DEF Window, FromOneConnection
          <6> QED BY <6>1 DEF Mark, n
        <5>2. GoesOn(U - 1, e.conn)
          BY <1>1, <2>2 DEF GoesOn, U
        <5>3. n <= U - 1
          BY <3>1, <4>1, <4>4
        <5>4. Links(n, e.conn, U - 1)
          BY <3>1, <4>1, <5>1, <5>2, <5>3 DEF LogInv, LinkInv
        <5>5. SameBook(n, U - 1)
          BY <1>1, <2>2, <3>4, <5>4, NoneBetween DEF Links, n, U
        <5>6. Right(r.book, U - 1, all)
          BY <3>1, <3>2, <3>4, <4>1, <5>5, SameBookRight DEF n
        <5>7. U - 1 <= U - 1 /\ U - 1 <= u
          BY <3>1
        <5>8. Right(apply_levels(r.book, DiffLevels(U, u)), u, all)
          BY <3>1, <3>2, <5>6, <5>7, ApplyDiffRight
        <5> QED BY <3>1, <3>2, <5>8
      <4> QED BY <3>1, <4>1, <4>3, <4>4
    <3> QED BY <3>3, <3>4 DEF Follows
  <2> QED BY <1>1, <2>1, <2>2, EntryKinds
<1> HIDE DEF new
<1>5. e.ts < t + 1
  OBVIOUS
<1> QED BY <1>2, <1>3, <1>4, <1>5 DEF Follows, new

LEMMA FollowsNone ==
  ASSUME LogInv, NEW W, Window(W), NEW all \in BOOLEAN, NEW t \in Nat, NEW r,
         Follows(W, all, t, r), \A e \in W : e.ts # t
  PROVE  Follows(W, all, t + 1, r)
<1>1. W \subseteq Entries
  BY StampsType DEF LogInv, Stamps, Window
<1>2. \A y \in W : y.ts < t + 1 <=> y.ts < t
  BY <1>1, EntryKinds
<1> QED BY <1>2 DEF Follows

\* From a moment at which the replay follows the window, it follows it to the
\* end, if all later rows are of the window.
LEMMA RunFollows ==
  ASSUME LogInv, SnapshotFirst, NEW W, Window(W), NEW all \in BOOLEAN,
         NEW rows \in SUBSET Logs, NEW g, RunOf(g, rows), W \subseteq rows,
         NEW t0 \in 0..clock, \A e \in rows : e.ts >= t0 => e \in W,
         Follows(W, all, t0, g[t0])
  PROVE  Follows(W, all, clock, g[clock])
<1> DEFINE S == { t \in t0..clock : Follows(W, all, t, g[t]) }
<1>1. clock \in Nat /\ t0 \in Nat /\ clock \in t0..clock
  BY DEF LogInv, TypeInv, TypeOK, Times
<1>2. t0 \in S
  BY <1>1
<1>3. ASSUME NEW t \in (t0 + 1)..clock, t - 1 \in S PROVE t \in S
  <2>1. /\ t \in t0..clock /\ t \in 1..clock /\ t - 1 \in Nat /\ t - 1 >= t0
        /\ t - 1 \in 0..clock /\ (t - 1) + 1 = t
    BY <1>1
  <2>2. g[t - 1] \in Replays /\ Follows(W, all, t - 1, g[t - 1])
    BY <1>3, <2>1 DEF RunOf
  <2>3. CASE g[t] = g[t - 1] /\ \A e \in rows : e.ts # t - 1
    <3>1. Follows(W, all, (t - 1) + 1, g[t - 1])
      BY <2>1, <2>2, <2>3, FollowsNone
    <3> QED BY <2>1, <2>3, <3>1
  <2>4. ASSUME NEW e \in rows, e.ts = t - 1, g[t] = Apply(g[t - 1], e) PROVE t \in S
    <3>1. e \in W
      BY <2>1, <2>4
    <3>2. Follows(W, all, (t - 1) + 1, Apply(g[t - 1], e))
      BY <2>1, <2>2, <2>4, <3>1, FollowsRow
    <3> QED BY <2>1, <2>4, <3>2
  <2> QED BY <2>1, <2>3, <2>4 DEF RunOf
<1>4. t0..clock \subseteq S
  <2> HIDE DEF S
  <2> QED BY <1>1, <1>2, <1>3, IntervalInduction
<1> QED BY <1>1, <1>4

------------------------------------------------------------------------------
(* What the replay makes of a log in order. *)

\* After a logged snapshot the replay follows the connection's rows.
LEMMA OrderedFollows ==
  ASSUME LogInv, SnapshotFirst,
         NEW e \in Selected(clock), NEW asOf \in e.ts..clock,
         e.event.type = "snapshot", FromOneConnection(Since(e, asOf))
  PROVE  Follows(Since(e, asOf), TRUE, clock, reconstruct(asOf))
<1> DEFINE rows == Selected(asOf)
           W == Since(e, asOf)
           t0 == e.ts + 1
<1>1. PICK g : RunOf(g, rows) /\ reconstruct(asOf) = g[clock]
  BY ReconstructRun
<1>2. rows \in SUBSET Logs /\ W \subseteq rows
  BY DEF Selected, Logs, Since
<1>3. /\ e \in Logs /\ e \in Entries /\ e \in Stamps /\ oldest <= e.ts
      /\ Logs \subseteq Entries /\ Logs \subseteq Stamps
  BY StampsType DEF LogInv, Stamps, Selected, Logs
<1>4. e.ts \in Nat /\ e.ts < clock /\ clock \in Nat /\ oldest \in Nat /\ asOf \in Nat
      /\ e.ts <= asOf
  BY <1>3, EntryKinds DEF LogInv, TypeInv, TypeOK, Times, PastInv, PastEvent
<1>5. W = { f \in Logs : oldest <= f.ts /\ f.ts <= asOf /\ f.ts >= e.ts }
  BY DEF Since, Selected, Logs
<1>6. e \in W
  BY <1>3, <1>4, <1>5
<1>7. Window(W)
  <2>1. ASSUME NEW x \in W, NEW y \in W, NEW h \in Logs, x.ts <= h.ts, h.ts <= y.ts
        PROVE  h \in W
    <3>1. x.ts \in Nat /\ y.ts \in Nat /\ h.ts \in Nat
      BY <1>3, <1>5, EntryKinds
    <3> QED BY <1>4, <1>5, <2>1, <3>1
  <2> QED BY <1>5, <2>1 DEF Window
<1>8. t0 \in 0..clock /\ t0 \in 1..clock /\ t0 - 1 = e.ts /\ t0 - 1 \in 0..clock
  BY <1>4
<1>9. \A f \in rows : f.ts >= t0 => f \in W
  BY <1>2, <1>3, <1>4, EntryKinds DEF Since
<1> HIDE DEF rows, W, t0
<1>10. g[t0] = Apply(g[t0 - 1], e) /\ g[t0 - 1] \in Replays
  <2>1. e \in rows /\ e.ts = t0 - 1
    BY <1>2, <1>6, <1>8
  <2>2. \A f \in rows : f.ts = t0 - 1 => f = e
    BY <1>2, <1>3, <1>8 DEF LogInv, StampInv, InOrder
  <2> QED BY <1>1, <1>8, <2>1, <2>2 DEF RunOf
<1>11. Follows(W, TRUE, t0, g[t0])
  <2>1. e.event.id \in Ids /\ LastOf(e.event) = e.event.id
    BY <1>3, EntryKinds DEF IsDiff
  <2>2. /\ g[t0].book = apply_snapshot(SnapshotLevels(e.event.id))
        /\ g[t0].lastId = LastOf(e.event)
    BY <1>10, <2>1 DEF Apply
  <2>3. Right(g[t0].book, g[t0].lastId, TRUE)
    BY <2>1, <2>2, SnapshotShows, RightIsShows
  <2>4. \A y \in W : y.ts < t0 => y = e
    <3> SUFFICES ASSUME NEW y \in W, y.ts < t0 PROVE y = e
      OBVIOUS
    <3>1. y \in Logs /\ y.ts \in Nat /\ y.ts >= e.ts
      BY <1>3, <1>5, EntryKinds
    <3>2. y.ts = e.ts
      BY <1>4, <3>1 DEF t0
    <3> QED BY <1>3, <3>1, <3>2 DEF LogInv, StampInv, InOrder
  <2>5. LastOf(e.event) <= g[t0].lastId /\ e.ts < t0
    BY <1>4, <2>1, <2>2 DEF Ids, t0
  <2> QED BY <1>6, <2>2, <2>3, <2>4, <2>5 DEF Follows
<1>12. Follows(W, TRUE, clock, g[clock])
  BY <1>1, <1>2, <1>7, <1>8, <1>9, <1>11, RunFollows
<1> QED BY <1>1, <1>12 DEF W

\* Of a log in which each connection's snapshot is stamped before every diff
\* beyond it, the replay at any moment until the next connection's rows is the
\* exchange's book after the last update it has applied: the diffs older than the
\* snapshot, the rows of lost connections and the updates that left no row do no
\* harm.
THEOREM OrderedLogsReplay == Spec => []OrderedLogReplaysExactly
<1>1. LogInv => OrderedLogReplaysExactly
  <2> SUFFICES ASSUME LogInv, SnapshotFirst,
                      NEW e \in Selected(clock), NEW asOf \in e.ts..clock,
                      e.event.type = "snapshot", FromOneConnection(Since(e, asOf))
               PROVE  Shows(reconstruct(asOf).book, reconstruct(asOf).lastId)
    BY DEF OrderedLogReplaysExactly
  <2>1. Follows(Since(e, asOf), TRUE, clock, reconstruct(asOf))
    BY OrderedFollows
  <2>2. Right(reconstruct(asOf).book, reconstruct(asOf).lastId, TRUE)
    BY <2>1 DEF Follows
  <2> QED BY <2>2, RightIsShows
<1> QED BY <1>1, LogInvariant, PTL

\* Whatever the retention policy has dropped of one connection's rows, the levels
\* that the replay shows are the exchange's, in the sizes they had after the last
\* update it has applied.
THEOREM RetentionHidesLevels == Spec => []RetentionOnlyHidesLevels
<1>1. LogInv => RetentionOnlyHidesLevels
  <2> SUFFICES ASSUME LogInv, SnapshotFirst, NEW asOf \in 0..clock,
                      FromOneConnection(Selected(asOf)),
                      NEW l \in DOMAIN reconstruct(asOf).book
               PROVE  /\ l \in DOMAIN BookAt[reconstruct(asOf).lastId]
                      /\ reconstruct(asOf).book[l] = BookAt[reconstruct(asOf).lastId][l]
    BY DEF RetentionOnlyHidesLevels
  <2> DEFINE W == Selected(asOf)
  <2>1. PICK g : RunOf(g, W) /\ reconstruct(asOf) = g[clock]
    BY ReconstructRun
  <2>2. W = { f \in Logs : oldest <= f.ts /\ f.ts <= asOf } /\ Logs \subseteq Entries
    BY StampsType DEF LogInv, Stamps, Selected, Logs
  <2>3. oldest \in Nat /\ asOf \in Nat /\ clock \in Nat /\ 0 \in 0..clock
    BY DEF LogInv, TypeInv, TypeOK, Times
  <2>4. Window(W)
    <3>1. ASSUME NEW x \in W, NEW y \in W, NEW h \in Logs, x.ts <= h.ts, h.ts <= y.ts
          PROVE  h \in W
      <4>1. x.ts \in Nat /\ y.ts \in Nat /\ h.ts \in Nat
        BY <2>2, EntryKinds
      <4> QED BY <2>2, <2>3, <3>1, <4>1
    <3> QED BY <2>2, <3>1 DEF Window
  <2>5. W \in SUBSET Logs
    BY <2>2
  <2>6. \A y \in W : ~(y.ts < 0)
    BY <2>2, EntryKinds
  <2> HIDE DEF W
  <2>7. Follows(W, FALSE, 0, g[0])
    BY <2>1, <2>6 DEF Follows, RunOf
  <2>8. Follows(W, FALSE, clock, g[clock])
    BY <2>1, <2>3, <2>4, <2>5, <2>7, RunFollows
  <2>9. CASE g[clock] = EmptyReplay
    BY <2>1, <2>9 DEF EmptyReplay, EmptyBook
  <2>10. CASE Right(g[clock].book, g[clock].lastId, FALSE)
    BY <2>1, <2>10 DEF Right
  <2> QED BY <2>8, <2>9, <2>10 DEF Follows
<1> QED BY <1>1, LogInvariant, PTL

\* What a log in order replays to is the live book, as soon as that is synced and
\* the connection's snapshot is among the rows: the live book has applied every
\* diff that arrived, and those after the last logged one have changed nothing.
THEOREM OrderedReplaysAreLive == Spec => []OrderedReplayIsLiveBook
<1>1. LogInv => OrderedReplayIsLiveBook
  <2> SUFFICES ASSUME LogInv, SnapshotFirst, FullDepth, rec.synced,
                      NEW e \in Selected(clock), e.event.type = "snapshot", e.conn = conn
               PROVE  reconstruct(clock).book = rec.book
    BY DEF OrderedReplayIsLiveBook
  <2> DEFINE W == Since(e, clock)
             r == reconstruct(clock)
  <2>1. /\ e \in Logs /\ e \in Entries /\ e \in Stamps /\ oldest <= e.ts /\ e.ts <= clock
        /\ Logs \subseteq Entries /\ Logs \subseteq Stamps
    BY StampsType DEF LogInv, Stamps, Selected, Logs
  <2>2. e.ts \in Nat /\ oldest \in Nat /\ clock \in Nat /\ conn \in Nat
    BY <2>1, EntryKinds, ReplayAssumption DEF LogInv, TypeInv, TypeOK, Times
  <2>3. W = { f \in Logs : oldest <= f.ts /\ f.ts <= clock /\ f.ts >= e.ts }
    BY DEF Since, Selected, Logs
  <2> HIDE DEF W
  <2>4. \A f \in W : f.conn = conn
    <3> SUFFICES ASSUME NEW f \in W PROVE f.conn = conn
      OBVIOUS
    <3>1. f \in Logs /\ f.ts >= e.ts /\ f.ts \in Nat /\ f.conn \in Nat /\ f.conn <= conn
      BY <2>1, <2>3, EntryKinds DEF LogInv, PastInv, PastEvent
    <3>2. ~(f.conn < e.conn)
      <4>1. f.conn < e.conn => f.ts < e.ts
        BY <2>1, <3>1 DEF LogInv, StampInv, InOrder
      <4> QED BY <2>2, <3>1, <4>1
    <3> QED BY <2>2, <3>1, <3>2
  <2>5. PICK x \in W : /\ r.lastId = LastOf(x.event) /\ Right(r.book, r.lastId, TRUE)
                       /\ \A y \in W : LastOf(y.event) <= r.lastId
    <3>1. FromOneConnection(Since(e, clock))
      BY <2>4 DEF FromOneConnection, W
    <3>2. clock \in e.ts..clock
      BY <2>1, <2>2
    <3>3. Follows(W, TRUE, clock, r)
      BY <3>1, <3>2, OrderedFollows DEF W
    <3>4. \A y \in W : y.ts < clock
      BY <2>1, <2>3 DEF LogInv, PastInv, PastEvent
    <3> QED BY <3>3, <3>4 DEF Follows
  <2> DEFINE m == LastOf(x.event)
  <2>6. /\ x \in Logs /\ x \in Entries /\ x.conn = conn /\ m \in Ids /\ m \in Nat
    BY <2>1, <2>3, <2>4, EntryKinds
  <2>7. /\ Shows(rec.book, Arrived) /\ Arrived \in Ids /\ Arrived \in Nat /\ Taken <= Arrived
        /\ rec.book \in Books
    BY ArrivedType DEF LogInv, LiveInv, Live, LiveAt, TypeInv, TypeOK, Reconcilers
  <2>8. m <= Arrived
    <3>1. CASE IsDiff(x)
      BY <2>6, <3>1, EntryKinds DEF LogInv, TransitInv
    <3>2. CASE IsSnapshot(x)
      <4>1. fetch.pc = "done"
        BY <2>6, <3>2 DEF LogInv, LiveInv
      <4>2. m = fetch.id
        BY <2>1, <2>6, <3>2, EntryKinds DEF LogInv, PastInv, PastEvent
      <4> QED BY <2>7, <4>1, <4>2 DEF Taken
    <3> QED BY <2>6, <3>1, <3>2, EntryKinds
  <2>9. Links(m, conn, Arrived)
    <3>1. Mark(m, conn) /\ GoesOn(Arrived, conn)
      BY <2>6 DEF Mark, GoesOn
    <3>2. conn \in 1..MaxConnections
      BY DEF LogInv, TypeInv, TypeOK
    <3> QED BY <2>6, <2>7, <2>8, <3>1, <3>2 DEF LogInv, LinkInv
  <2> HIDE DEF m
  <2>10. ASSUME NEW g \in Logs, IsDiff(g), g.conn = conn, m < g.event.last PROVE FALSE
    <3>1. /\ g \in Entries /\ g.ts \in Nat /\ LastOf(g.event) = g.event.last
          /\ g.event.last \in Nat /\ g.ts < clock
      BY <2>1, <2>10, EntryKinds DEF LogInv, PastInv, PastEvent
    <3>2. ~(g.ts < e.ts)
      <4>1. g.ts < e.ts => LastOf(g.event) <= LastOf(e.event)
        BY <2>1, <2>10, LaterCoversMore
      <4>2. e \in W
        BY <2>1, <2>2, <2>3
      <4>3. LastOf(e.event) <= m /\ LastOf(e.event) \in Nat
        BY <2>1, <2>5, <4>2, EntryKinds DEF m
      <4> QED BY <2>6, <2>10, <3>1, <4>1, <4>3
    <3>3. g \in W
      BY <2>1, <2>2, <2>3, <3>1, <3>2
    <3>4. g.event.last <= m
      BY <2>5, <3>1, <3>3 DEF m
    <3> QED BY <2>6, <2>10, <3>1, <3>4
  <2>11. SameBook(m, Arrived)
    BY <2>9, <2>10 DEF Links
  <2>12. r.book \in Books
    BY ReconstructType
  <2> HIDE DEF r
  <2>13. Shows(r.book, Arrived)
    <3>1. Right(r.book, m, TRUE)
      BY <2>5 DEF m
    <3>2. Right(r.book, Arrived, TRUE)
      BY <2>6, <2>7, <2>11, <2>12, <3>1, SameBookRight
    <3> QED BY <3>2, RightIsShows
  <2>14. r.book = rec.book
    <3>1. DOMAIN r.book = DOMAIN rec.book /\ \A l \in DOMAIN r.book : r.book[l] = rec.book[l]
      BY <2>7, <2>13 DEF Shows
    <3> QED BY <2>7, <2>12, <3>1, SameFunction
  <2> QED BY <2>14 DEF r
<1> QED BY <1>1, LogInvariant, PTL
===============================================================================
