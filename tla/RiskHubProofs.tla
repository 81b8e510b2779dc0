---------------------------- MODULE RiskHubProofs ----------------------------
(***************************************************************************)
(* Proofs about RiskHub: one content per version, and committed is handled, *)
(* for any number of servers, requests and snapshots, any number of faults, *)
(* crashes and attempts and any size of the servers' memories.              *)
(***************************************************************************)
EXTENDS RiskHub, TLAPS

\* Where a task has a server and a snapshot in hand, and where that snapshot is stored.
HasSnap == InUpsert \cup {"publish", "schedule", "handler", "mark", "dlq"}
HasRow == {"stored", "latest", "publish", "schedule", "handler", "mark"}

TaskInv(p) ==
    /\ tasks[p].pc \in HasSnap => tasks[p].at \in Server /\ tasks[p].snap \in Snapshots
    /\ tasks[p].pc \in HasRow => tasks[p].snap \in db

TasksInv == tasks \in [Tasks -> TaskState] /\ \A p \in Tasks : TaskInv(p)

\* The table has one row per version, and all that is remembered or announced is in it.
StoreInv ==
    /\ db \subseteq Snapshots
    /\ \A s, t \in db : s.version = t.version => s = t
    /\ mem \in [Server -> SUBSET db]
    /\ owed \in [Server -> SUBSET Version]
    /\ latest \in db \cup {None}
    /\ log \in Seq(db)

\* The offsets and the sets the consumer writes.
BusInv ==
    /\ pos \in 0..Len(log) /\ committed \in 0..pos
    /\ marked \cup recent \subseteq handled
    /\ handled \cup dead \cup unsent \subseteq db
    /\ spent \in [{"faults", "crashes", "stops"} -> Nat]

\* The consumer has a message in hand and has not dealt with it.
Busy == tasks[Consumer].pc \notin {"idle", "commit"}

\* What has been dealt with: handled, or given up with or without its dead letter.
Done == handled \cup dead \cup unsent

\* What is at or before the consumer's position has been dealt with, except the message
\* in hand, which is not committed.
ConsumerInv ==
    /\ tasks[Consumer].pc \in InUpsert \cup {"idle", "handler", "mark", "dlq", "commit"}
    /\ Busy => committed < pos /\ tasks[Consumer].snap = log[pos]
    /\ At(Consumer, "mark") => tasks[Consumer].snap \in handled
    /\ At(Consumer, "commit") => committed < pos /\ log[pos] \in Done
    /\ spent.stops = 0 =>
         \A n \in 1..pos : log[n] \in Done \/ (n = pos /\ Busy)

RiskInv == TasksInv /\ StoreInv /\ BusInv /\ ConsumerInv

-----------------------------------------------------------------------------
(* Facts about the operators *)

\* The consumer is a task.
LEMMA ConsumerTask == Consumer \in Tasks
BY DEF Tasks

\* A sequence over a set is one over a larger set.
LEMMA SeqOver ==
    ASSUME NEW S, NEW T, S \subseteq T, NEW q \in Seq(S)
    PROVE  q \in Seq(T)
OBVIOUS

\* The memory of a server with a stored snapshot put into it (_cache_snapshot).
LEMMA MemoryKept ==
    ASSUME NEW i \in Server, NEW s, mem[i] \subseteq db, s \in db
    PROVE  MemoryWith(i, s) \subseteq db
BY DEF MemoryWith, Trimmed

\* _prune_pending_dispatches only takes marks away.
LEMMA OwedKept ==
    ASSUME NEW i \in Server, NEW s
    PROVE  OwedWith(i, s) \subseteq owed[i]
BY DEF OwedWith, StillOwed

\* A fault is counted and no stop() is.
LEMMA FaultCounted ==
    ASSUME spent \in [{"faults", "crashes", "stops"} -> Nat], NoFault \/ Fault
    PROVE  /\ spent' \in [{"faults", "crashes", "stops"} -> Nat]
           /\ spent'.stops = spent.stops
BY DEF NoFault, Fault, Count

\* One task goes on to another step and the others stay where they are.
LEMMA TurnsTo ==
    ASSUME tasks \in [Tasks -> TaskState], NEW p \in Tasks, NEW pc, Turn(p, pc),
           pc \in InUpsert \cup {"publish", "schedule", "handler", "mark", "dlq", "commit", "ok"}
    PROVE  /\ tasks' \in [Tasks -> TaskState]
           /\ tasks'[p].pc = pc /\ tasks'[p].at = tasks[p].at /\ tasks'[p].snap = tasks[p].snap
           /\ \A q \in Tasks \ {p} : tasks'[q] = tasks[q]
<1>1. tasks[p] \in TaskState
  OBVIOUS
<1>2. [tasks[p] EXCEPT !.pc = pc] \in TaskState
  BY <1>1 DEF TaskState, InUpsert
<1>3. tasks' = [tasks EXCEPT ![p] = [tasks[p] EXCEPT !.pc = pc]]
  BY DEF Turn
<1>4. tasks'[p] = [tasks[p] EXCEPT !.pc = pc]
  BY <1>3
<1>5. /\ tasks'[p].pc = pc /\ tasks'[p].at = tasks[p].at /\ tasks'[p].snap = tasks[p].snap
  BY <1>1, <1>4 DEF TaskState
<1>6. tasks' \in [Tasks -> TaskState] /\ \A q \in Tasks \ {p} : tasks'[q] = tasks[q]
  BY <1>2, <1>3
<1> QED
  BY <1>5, <1>6

\* The state of a task that has nothing to do.
LEMMA NoTaskType == NoTask \in TaskState /\ NoTask.pc = "idle"
<1>1. 0 \in 0..RiskAttempts
  BY RiskBounds
<1> QED
  BY <1>1 DEF NoTask, TaskState

\* A task ends.
LEMMA EndsWith ==
    ASSUME tasks \in [Tasks -> TaskState], NEW p \in Tasks, NEW pc,
           tasks' = [tasks EXCEPT ![p] = [NoTask EXCEPT !.pc = pc]],
           pc \in {"idle", "commit", "conflict", "error", "gone"}
    PROVE  /\ tasks' \in [Tasks -> TaskState] /\ tasks'[p].pc = pc
           /\ \A q \in Tasks \ {p} : tasks'[q] = tasks[q]
<1>0. 0 \in 0..RiskAttempts
  BY RiskBounds
<1>1. [NoTask EXCEPT !.pc = pc] \in TaskState
  BY <1>0 DEF NoTask, TaskState
<1>2. [NoTask EXCEPT !.pc = pc].pc = pc
  BY DEF NoTask
<1> QED
  BY <1>1, <1>2

-----------------------------------------------------------------------------
(* The parts of the invariant under a step of one task *)

\* The tasks, when only p moved and no row was lost.
LEMMA TasksKept ==
    ASSUME TasksInv, NEW p \in Tasks, tasks' \in [Tasks -> TaskState],
           \A q \in Tasks \ {p} : tasks'[q] = tasks[q], db \subseteq db', TaskInv(p)'
    PROVE  TasksInv'
<1>1. ASSUME NEW q \in Tasks PROVE TaskInv(q)'
  BY <1>1 DEF TasksInv, TaskInv
<1> QED
  BY <1>1 DEF TasksInv

\* The consumer, when another task moved: the log may have grown.
LEMMA ConsumerAside ==
    ASSUME BusInv, ConsumerInv, tasks'[Consumer] = tasks[Consumer], UNCHANGED <<pos, committed>>,
           handled \subseteq handled', Done \subseteq Done', spent'.stops = spent.stops,
           \A n \in 1..Len(log) : log'[n] = log[n]
    PROVE  ConsumerInv'
<1>1. \A n \in 1..pos : log'[n] = log[n]
  BY DEF BusInv
<1>2. committed < pos => pos \in 1..pos
  BY DEF BusInv
<1> QED
  BY <1>1, <1>2 DEF ConsumerInv, Busy, At

\* The consumer, when it goes on with the message in hand or has dealt with it.
LEMMA ConsumerGoesOn ==
    ASSUME BusInv, ConsumerInv, Busy, UNCHANGED <<pos, committed, log>>,
           handled \subseteq handled', Done \subseteq Done', spent'.stops = spent.stops,
           tasks'[Consumer].pc \in InUpsert \cup {"handler", "mark", "dlq", "commit"},
           tasks'[Consumer].snap = tasks[Consumer].snap,
           tasks'[Consumer].pc = "mark" => tasks[Consumer].snap \in handled',
           tasks'[Consumer].pc = "commit" => tasks[Consumer].snap \in Done'
    PROVE  ConsumerInv'
<1>1. committed < pos /\ tasks[Consumer].snap = log[pos]
  BY DEF ConsumerInv
<1>2. tasks'[Consumer].pc = "commit" => log[pos] \in Done'
  BY <1>1
<1>3. tasks'[Consumer].pc # "commit" => Busy'
  BY DEF Busy, InUpsert
<1>4. spent.stops = 0 =>
         \A n \in 1..pos : log[n] \in Done' \/ (n = pos /\ Busy')
  BY <1>2, <1>3 DEF ConsumerInv
<1> QED
  BY <1>1, <1>2, <1>4 DEF ConsumerInv, At, Busy

\* The message in hand is stored.
LEMMA InHandIsStored == RiskInv /\ Busy => tasks[Consumer].snap \in db
<1> SUFFICES ASSUME RiskInv, Busy PROVE tasks[Consumer].snap \in db
  OBVIOUS
<1>1. pos \in 1..Len(log) /\ tasks[Consumer].snap = log[pos]
  BY DEF RiskInv, ConsumerInv, BusInv
<1> QED
  BY <1>1 DEF RiskInv, StoreInv

\* What a step of upsert_snapshot may do to its task.
Moves(p) ==
    /\ tasks' \in [Tasks -> TaskState]
    /\ \A q \in Tasks \ {p} : tasks'[q] = tasks[q]
    /\ TaskInv(p)'
    /\ p = Consumer =>
         /\ tasks'[p].pc \in InUpsert \cup {"handler", "dlq"}
         /\ tasks'[p].snap = tasks[p].snap

\* Such a step keeps the invariant if the store is kept.
LEMMA UpsertStepInv ==
    ASSUME RiskInv, NEW p \in Tasks, tasks[p].pc \in InUpsert \cup {"handler"}, Moves(p),
           StoreInv', db \subseteq db', NoFault \/ Fault,
           UNCHANGED <<log, committed, pos, marked, recent, handled, dead, unsent>>
    PROVE  RiskInv'
<1>0. UNCHANGED Done
  BY DEF Done
<1>1. TasksInv'
  BY TasksKept DEF Moves, RiskInv
<1>2. BusInv' /\ spent'.stops = spent.stops
  BY FaultCounted DEF BusInv, RiskInv, Moves
<1>3. CASE p = Consumer
  <2>1. Busy
    BY <1>3 DEF Busy, InUpsert
  <2>2. tasks'[Consumer].pc \notin {"mark", "commit"}
    BY <1>3 DEF Moves, InUpsert
  <2> QED
    BY <1>0, <1>1, <1>2, <1>3, <2>1, <2>2, ConsumerGoesOn DEF RiskInv, Moves
<1>4. CASE p # Consumer
  <2>1. tasks'[Consumer] = tasks[Consumer]
    BY <1>4, ConsumerTask DEF Moves
  <2> QED
    BY <1>0, <1>1, <1>2, <2>1, ConsumerAside DEF RiskInv, Moves
<1> QED
  BY <1>3, <1>4

\* An exception leaves upsert_snapshot.
LEMMA RaiseMoves ==
    ASSUME RiskInv, NEW p \in Tasks, tasks[p].pc \in InUpsert \cup {"handler"},
           NEW how \in {"conflict", "error"}, Raise(p, how)
    PROVE  Moves(p)
<1>0. tasks \in [Tasks -> TaskState] /\ tasks[p] \in TaskState /\ TaskInv(p)
  BY DEF RiskInv, TasksInv
<1>1. CASE p # Consumer
  <2>1. tasks' = [tasks EXCEPT ![p] = [NoTask EXCEPT !.pc = how]]
    BY <1>1 DEF Raise, Ended
  <2>2. /\ tasks' \in [Tasks -> TaskState] /\ tasks'[p].pc = how
        /\ \A q \in Tasks \ {p} : tasks'[q] = tasks[q]
    BY <1>0, <2>1, EndsWith
  <2> QED
    BY <1>1, <2>1, <2>2 DEF Moves, TaskInv, HasSnap, HasRow, InUpsert, RiskInv, BusInv
<1>2. CASE p = Consumer /\ tasks[p].tries < RiskAttempts
  <2> DEFINE t == [tasks[p] EXCEPT !.pc = "get", !.tries = @ + 1, !.dup = FALSE]
  <2>1. tasks' = [tasks EXCEPT ![p] = t]
    BY <1>0, <1>2 DEF Raise
  <2>a. tasks[p].tries \in 0..RiskAttempts
    BY <1>0 DEF TaskState
  <2>b. tasks[p].tries + 1 \in 0..RiskAttempts
    BY <1>2, <2>a, RiskBounds
  <2>2. t \in TaskState
    BY <1>0, <2>b DEF TaskState, InUpsert
  <2>3. t.pc = "get" /\ t.at = tasks[p].at /\ t.snap = tasks[p].snap
    BY <1>0 DEF TaskState
  <2> HIDE DEF t
  <2>4. tasks'[p] = t /\ tasks' \in [Tasks -> TaskState] /\ \A q \in Tasks \ {p} : tasks'[q] = tasks[q]
    BY <1>0, <2>1, <2>2
  <2> QED
    BY <1>0, <2>1, <2>3, <2>4 DEF Moves, TaskInv, HasSnap, HasRow, InUpsert, RiskInv, BusInv
<1>3. CASE p = Consumer /\ ~(tasks[p].tries < RiskAttempts)
  <2>1. Turn(p, "dlq")
    BY <1>3 DEF Raise
  <2>2. /\ tasks' \in [Tasks -> TaskState] /\ tasks'[p].pc = "dlq"
        /\ tasks'[p].at = tasks[p].at /\ tasks'[p].snap = tasks[p].snap
        /\ \A q \in Tasks \ {p} : tasks'[q] = tasks[q]
    BY <1>0, <2>1, TurnsTo
  <2> QED
    BY <1>0, <2>1, <2>2 DEF Moves, TaskInv, HasSnap, HasRow, InUpsert, RiskInv, BusInv
<1> QED
  BY <1>1, <1>2, <1>3

\* A task of upsert_snapshot goes on to another of its steps.
LEMMA TurnMoves ==
    ASSUME RiskInv, NEW p \in Tasks, tasks[p].pc \in InUpsert, NEW pc, Turn(p, pc),
           pc \in InUpsert \cup {"handler"} \/ (p # Consumer /\ pc \in {"ok", "publish"}),
           pc \in HasRow => tasks[p].snap \in db'
    PROVE  Moves(p)
<1>0. tasks \in [Tasks -> TaskState] /\ TaskInv(p)
  BY DEF RiskInv, TasksInv
<1>1. /\ tasks' \in [Tasks -> TaskState]
      /\ tasks'[p].pc = pc /\ tasks'[p].at = tasks[p].at /\ tasks'[p].snap = tasks[p].snap
      /\ \A q \in Tasks \ {p} : tasks'[q] = tasks[q]
  BY <1>0, TurnsTo
<1>2. TaskInv(p)'
  BY <1>0, <1>1 DEF TaskInv, HasSnap
<1> QED
  BY <1>1, <1>2 DEF Moves, InUpsert, RiskInv, BusInv

\* _cache_snapshot with a stored snapshot, and what upsert_snapshot does next.
LEMMA KeepInMemoryMoves ==
    ASSUME RiskInv, NEW p \in Tasks, tasks[p].pc \in InUpsert, NEW dup \in BOOLEAN,
           tasks[p].snap \in db, KeepInMemory(p, dup), UNCHANGED <<db, latest, log>>
    PROVE  Moves(p) /\ StoreInv'
<1> DEFINE t == tasks[p]
           known == OfVersion(mem[t.at], t.snap.version)
           deduped == dup \/ t.dup \/ known # {}
<1>0. /\ tasks \in [Tasks -> TaskState] /\ t \in TaskState
      /\ TaskInv(p) /\ t.at \in Server /\ t.snap \in Snapshots
  BY DEF RiskInv, TasksInv, TaskInv, HasSnap
<1>1. CASE ~ known \subseteq {t.snap}
  <2>1. Raise(p, "conflict") /\ UNCHANGED <<mem, owed>>
    BY <1>1 DEF KeepInMemory
  <2> QED
    BY <2>1, RaiseMoves DEF RiskInv, StoreInv
<1>2. CASE known \subseteq {t.snap}
  <2>1. /\ mem' = [mem EXCEPT ![t.at] = MemoryWith(t.at, t.snap)]
        /\ owed' = [owed EXCEPT ![t.at] = OwedWith(t.at, t.snap)
                        \cup (IF deduped THEN {} ELSE {t.snap.version})]
        /\ tasks' = [tasks EXCEPT ![p].pc = "latest", ![p].dup = deduped]
    BY <1>2 DEF KeepInMemory
  <2>2. MemoryWith(t.at, t.snap) \subseteq db
    BY <1>0, MemoryKept DEF RiskInv, StoreInv
  <2>3. OwedWith(t.at, t.snap) \cup (IF deduped THEN {} ELSE {t.snap.version}) \subseteq Version
    BY <1>0, OwedKept DEF RiskInv, StoreInv, Version
  <2>4. StoreInv'
    BY <1>0, <2>1, <2>2, <2>3 DEF RiskInv, StoreInv
  <2>5. deduped \in BOOLEAN
    OBVIOUS
  <2> HIDE DEF deduped
  <2> DEFINE u == [t EXCEPT !.pc = "latest", !.dup = deduped]
  <2>6. u \in TaskState /\ u.pc = "latest" /\ u.at = t.at /\ u.snap = t.snap
    BY <1>0, <2>5 DEF TaskState, InUpsert
  <2>7. tasks' = [tasks EXCEPT ![p] = u]
    BY <1>0, <2>1
  <2> HIDE DEF u
  <2>8. tasks'[p] = u /\ tasks' \in [Tasks -> TaskState] /\ \A q \in Tasks \ {p} : tasks'[q] = tasks[q]
    BY <1>0, <2>6, <2>7
  <2> QED
    BY <1>0, <2>1, <2>4, <2>6, <2>8 DEF Moves, TaskInv, HasSnap, HasRow, InUpsert, RiskInv, BusInv
<1> QED
  BY <1>1, <1>2

-----------------------------------------------------------------------------
(* The steps of upsert_snapshot *)

\* The first look at the store.
LEMMA GetRowInv == ASSUME RiskInv, NEW p \in Tasks, GetRow(p) PROVE RiskInv'
<1>0. /\ tasks[p].pc = "get" /\ tasks[p].pc \in InUpsert
      /\ UNCHANGED <<db, latest, log, committed, pos, marked, recent, handled, dead, unsent>>
  BY DEF GetRow, At, InUpsert, busVars
<1>1. CASE (NoFault \/ Fault) /\ Turn(p, "insert") /\ UNCHANGED <<mem, owed>>
  <2>1. Moves(p)
    BY <1>0, <1>1, TurnMoves DEF InUpsert, HasRow
  <2>2. StoreInv'
    BY <1>0, <1>1 DEF RiskInv, StoreInv
  <2> QED
    BY <1>0, <1>1, <2>1, <2>2, UpsertStepInv
<1>2. CASE tasks[p].snap \in db /\ NoFault /\ KeepInMemory(p, TRUE)
  BY <1>0, <1>2, KeepInMemoryMoves, UpsertStepInv
<1>3. CASE NoFault /\ Raise(p, "conflict") /\ UNCHANGED <<mem, owed>>
  <2>1. Moves(p)
    BY <1>0, <1>3, RaiseMoves
  <2>2. StoreInv'
    BY <1>0, <1>3 DEF RiskInv, StoreInv
  <2> QED
    BY <1>0, <1>3, <2>1, <2>2, UpsertStepInv
<1> QED
  BY <1>1, <1>2, <1>3 DEF GetRow, SameRow

\* The unique key: the table keeps one row per version, whichever insert comes first.
LEMMA InsertKeepsOne ==
    ASSUME RiskInv, NEW s \in Snapshots, ~ OtherRow(s)
    PROVE  /\ db \cup {s} \subseteq Snapshots
           /\ \A x, y \in db \cup {s} : x.version = y.version => x = y
BY DEF RiskInv, StoreInv, OtherRow, OfVersion

\* RiskSnapshotRepository.upsert.
LEMMA InsertRowInv == ASSUME RiskInv, NEW p \in Tasks, InsertRow(p) PROVE RiskInv'
<1> DEFINE s == tasks[p].snap
<1>0. /\ tasks[p].pc = "insert" /\ tasks[p].pc \in InUpsert /\ s \in Snapshots
      /\ UNCHANGED <<mem, owed, latest, log, committed, pos, marked, recent, handled, dead, unsent>>
  BY DEF InsertRow, At, InUpsert, RiskInv, TasksInv, TaskInv, HasSnap, hubVars, busVars
<1>1. /\ db' = db \/ (db' = db \cup {s} /\ ~ OtherRow(s))
      /\ NoFault \/ Fault
      /\ (Turn(p, "stored") /\ s \in db') \/ Turn(p, "recheck")
  BY DEF InsertRow, NoRow, OtherRow
<1>2. /\ db' \subseteq Snapshots /\ db \subseteq db'
      /\ \A x, y \in db' : x.version = y.version => x = y
  BY <1>0, <1>1, InsertKeepsOne DEF RiskInv, StoreInv
<1>3. log' \in Seq(db')
  BY <1>0, <1>2, SeqOver DEF RiskInv, StoreInv
<1>4. StoreInv'
  BY <1>0, <1>2, <1>3 DEF RiskInv, StoreInv
<1>5. Moves(p)
  BY <1>0, <1>1, TurnMoves DEF InUpsert, HasRow
<1> QED
  BY <1>0, <1>1, <1>2, <1>4, <1>5, UpsertStepInv

\* After a successful insert.
LEMMA AfterInsertInv == ASSUME RiskInv, NEW p \in Tasks, AfterInsert(p) PROVE RiskInv'
<1>1. /\ tasks[p].pc = "stored" /\ KeepInMemory(p, FALSE) /\ tasks[p].pc \in InUpsert /\ NoFault
      /\ UNCHANGED <<db, latest, log, committed, pos, marked, recent, handled, dead, unsent>>
  BY DEF AfterInsert, At, InUpsert, NoFault, busVars
<1>2. tasks[p].snap \in db
  BY <1>1 DEF RiskInv, TasksInv, TaskInv, HasRow
<1> QED
  BY <1>1, <1>2, KeepInMemoryMoves, UpsertStepInv

\* The second look at the store.
LEMMA RecheckRowInv == ASSUME RiskInv, NEW p \in Tasks, RecheckRow(p) PROVE RiskInv'
<1>0. /\ tasks[p].pc = "recheck" /\ tasks[p].pc \in InUpsert
      /\ UNCHANGED <<db, latest, log, committed, pos, marked, recent, handled, dead, unsent>>
  BY DEF RecheckRow, At, InUpsert, busVars
<1>2. CASE tasks[p].snap \in db /\ NoFault /\ KeepInMemory(p, TRUE)
  BY <1>0, <1>2, KeepInMemoryMoves, UpsertStepInv
<1>3. ASSUME NEW how \in {"conflict", "error"}, Raise(p, how), NoFault \/ Fault,
             UNCHANGED <<mem, owed>>
      PROVE  RiskInv'
  <2>1. Moves(p)
    BY <1>0, <1>3, RaiseMoves
  <2>2. StoreInv'
    BY <1>0, <1>3 DEF RiskInv, StoreInv
  <2> QED
    BY <1>0, <1>3, <2>1, <2>2, UpsertStepInv
<1> QED
  BY <1>2, <1>3 DEF RecheckRow, SameRow

\* _cache_latest.
LEMMA CacheLatestInv == ASSUME RiskInv, NEW p \in Tasks, CacheLatest(p) PROVE RiskInv'
<1>0. /\ tasks[p].pc = "latest" /\ tasks[p].pc \in InUpsert /\ tasks[p].snap \in db
      /\ tasks[p].at \in Server
      /\ UNCHANGED <<db, mem, log, committed, pos, marked, recent, handled, dead, unsent>>
      /\ latest' \in {latest, tasks[p].snap} /\ (NoFault \/ Fault)
  BY DEF CacheLatest, At, InUpsert, RiskInv, TasksInv, TaskInv, HasRow, HasSnap, busVars
<1>1. owed' = owed \/ owed' = [owed EXCEPT ![tasks[p].at] = StillOwed(mem[tasks[p].at], @)]
  BY DEF CacheLatest
<1>2. owed' \in [Server -> SUBSET Version]
  BY <1>0, <1>1 DEF RiskInv, StoreInv, StillOwed
<1>3. StoreInv'
  BY <1>0, <1>2 DEF RiskInv, StoreInv
<1>4. \/ p = Consumer /\ Turn(p, "handler")
      \/ p # Consumer /\ Turn(p, "ok")
      \/ p # Consumer /\ Turn(p, "publish")
  BY DEF CacheLatest
<1>5. Moves(p)
  BY <1>0, <1>4, TurnMoves
<1> QED
  BY <1>0, <1>3, <1>5, UpsertStepInv

-----------------------------------------------------------------------------
(* The POST handler *)

\* A step of a task that is not the consumer's, outside upsert_snapshot.
LEMMA PosterStepInv ==
    ASSUME RiskInv, NEW p \in Tasks, p # Consumer, tasks' \in [Tasks -> TaskState],
           \A q \in Tasks \ {p} : tasks'[q] = tasks[q], TaskInv(p)', StoreInv', UNCHANGED db,
           NoFault \/ Fault, UNCHANGED <<committed, pos, marked, recent, handled, dead, unsent>>,
           Len(log) <= Len(log'), \A n \in 1..Len(log) : log'[n] = log[n]
    PROVE  RiskInv'
<1>1. TasksInv'
  BY TasksKept DEF RiskInv
<1>2. spent' \in [{"faults", "crashes", "stops"} -> Nat] /\ spent'.stops = spent.stops
  BY FaultCounted DEF RiskInv, BusInv
<1>3. Len(log) \in Nat /\ Len(log') \in Nat
  BY DEF RiskInv, StoreInv
<1>4. BusInv'
  BY <1>2, <1>3 DEF BusInv, RiskInv
<1>5. tasks'[Consumer] = tasks[Consumer]
  BY ConsumerTask
<1> QED
  BY <1>1, <1>2, <1>4, <1>5, ConsumerAside DEF RiskInv, Done

\* upsert_snapshot begins, or finds another content in memory.
LEMMA BeginUpsertMoves ==
    ASSUME RiskInv, NEW p \in Tasks, NEW i \in Server, NEW s \in Snapshots,
           NEW n \in 0..RiskAttempts, BeginUpsert(p, i, s, n)
    PROVE  /\ tasks' \in [Tasks -> TaskState]
           /\ \A q \in Tasks \ {p} : tasks'[q] = tasks[q]
           /\ TaskInv(p)'
           /\ \/ tasks'[p].pc = "get" /\ tasks'[p].snap = s
              \/ tasks'[p].pc = "conflict" /\ ~ OfVersion(mem[i], s.version) \subseteq {s}
<1> DEFINE known == OfVersion(mem[i], s.version)
<1>0. tasks \in [Tasks -> TaskState]
  BY DEF RiskInv, TasksInv
<1>1. CASE known \subseteq {s}
  <2> DEFINE u == [NoTask EXCEPT !.pc = "get", !.at = i, !.snap = s, !.tries = n, !.dup = s \in known]
  <2>1. tasks' = [tasks EXCEPT ![p] = u]
    BY <1>1 DEF BeginUpsert
  <2>2. u \in TaskState
    <3>1. (s \in known) \in BOOLEAN
      OBVIOUS
    <3>2. [NoTask EXCEPT !.pc = "get", !.at = i, !.snap = s, !.tries = n] \in TaskState
      BY DEF NoTask, TaskState, InUpsert
    <3> QED
      BY <3>1, <3>2 DEF NoTask, TaskState
  <2>3. u.pc = "get" /\ u.at = i /\ u.snap = s
    BY DEF NoTask
  <2> HIDE DEF u
  <2>4. tasks'[p] = u
    BY <1>0, <2>1
  <2> QED
    BY <1>0, <2>1, <2>2, <2>3, <2>4 DEF TaskInv, HasSnap, HasRow
<1>2. CASE ~ known \subseteq {s}
  <2>1. tasks' = [tasks EXCEPT ![p] = [NoTask EXCEPT !.pc = "conflict"]]
    BY <1>2 DEF BeginUpsert, Ended
  <2>2. /\ tasks' \in [Tasks -> TaskState] /\ tasks'[p].pc = "conflict"
        /\ \A q \in Tasks \ {p} : tasks'[q] = tasks[q]
    BY <1>0, <2>1, EndsWith
  <2> QED
    BY <1>2, <2>2 DEF TaskInv, HasSnap, HasRow, InUpsert
<1> QED
  BY <1>1, <1>2

\* A POST begins an upsert that has seen no row and owes nothing yet.
LEMMA PostInv == ASSUME RiskInv, NEW p \in Poster, Post(p) PROVE RiskInv'
<1>1. p # Consumer /\ p \in Tasks /\ 0 \in 0..RiskAttempts
  BY RiskBounds DEF Post, Tasks
<1>2. PICK i \in Server, s \in Snapshots : BeginUpsert(p, i, s, 0)
  BY DEF Post
<1>3. /\ tasks' \in [Tasks -> TaskState] /\ TaskInv(p)'
      /\ \A q \in Tasks \ {p} : tasks'[q] = tasks[q]
  BY <1>1, <1>2, BeginUpsertMoves
<1>4. UNCHANGED <<db, mem, owed, latest, log, committed, pos, marked, recent, handled, dead, unsent, spent>>
  BY DEF Post, hubVars, busVars
<1>5. StoreInv' /\ Len(log) <= Len(log)
  BY <1>4 DEF RiskInv, StoreInv
<1> QED
  BY <1>1, <1>3, <1>4, <1>5, PosterStepInv DEF NoFault

\* What upsert_snapshot publishes is in the table.
LEMMA PublishUpdateInv == ASSUME RiskInv, NEW p \in Tasks, PublishUpdate(p) PROVE RiskInv'
<1> DEFINE s == tasks[p].snap
<1>0. /\ tasks[p].pc = "publish" /\ s \in db /\ tasks[p] \in TaskState
      /\ tasks[p].at \in Server /\ s \in Snapshots /\ tasks \in [Tasks -> TaskState]
      /\ UNCHANGED <<db, mem, owed, latest, committed, pos, marked, recent, handled, dead, unsent>>
  BY DEF PublishUpdate, At, RiskInv, TasksInv, TaskInv, HasRow, HasSnap, hubVars
<1>1. p # Consumer
  BY <1>0 DEF RiskInv, ConsumerInv, InUpsert
<1>2. /\ log' = log \/ log' = Append(log, s)
      /\ NoFault \/ Fault
      /\ \/ tasks' = [tasks EXCEPT ![p].pc = "schedule", ![p].told = TRUE]
         \/ Turn(p, "schedule")
  BY DEF PublishUpdate
<1>3. log \in Seq(db)
  BY DEF RiskInv, StoreInv
<1>4. /\ log' \in Seq(db) /\ Len(log) <= Len(log')
      /\ \A n \in 1..Len(log) : log'[n] = log[n]
  BY <1>0, <1>2, <1>3
<1>5. StoreInv'
  BY <1>0, <1>4 DEF RiskInv, StoreInv
<1>6. /\ tasks' \in [Tasks -> TaskState] /\ \A q \in Tasks \ {p} : tasks'[q] = tasks[q]
      /\ tasks'[p].pc = "schedule" /\ tasks'[p].at = tasks[p].at /\ tasks'[p].snap = s
  <2>1. CASE Turn(p, "schedule")
    BY <1>0, <2>1, TurnsTo
  <2>2. CASE tasks' = [tasks EXCEPT ![p].pc = "schedule", ![p].told = TRUE]
    <3> DEFINE u == [tasks[p] EXCEPT !.pc = "schedule", !.told = TRUE]
    <3>1. u \in TaskState /\ u.pc = "schedule" /\ u.at = tasks[p].at /\ u.snap = s
      BY <1>0 DEF TaskState
    <3>2. tasks' = [tasks EXCEPT ![p] = u]
      BY <1>0, <2>2
    <3> HIDE DEF u
    <3> QED
      BY <1>0, <3>1, <3>2
  <2> QED
    BY <1>2, <2>1, <2>2
<1>7. TaskInv(p)'
  BY <1>0, <1>6 DEF TaskInv
<1> QED
  BY <1>0, <1>1, <1>2, <1>4, <1>5, <1>6, <1>7, PosterStepInv

\* The mark of a pending dispatch is taken back in the memory of the one server.
LEMMA ScheduleInv == ASSUME RiskInv, NEW p \in Tasks, Schedule(p) PROVE RiskInv'
<1>0. /\ tasks[p].pc = "schedule" /\ Turn(p, "ok") /\ (NoFault \/ Fault)
      /\ tasks[p].at \in Server /\ tasks \in [Tasks -> TaskState]
      /\ UNCHANGED <<db, mem, latest, log, committed, pos, marked, recent, handled, dead, unsent>>
  BY DEF Schedule, At, RiskInv, TasksInv, TaskInv, HasSnap, busVars
<1>1. p # Consumer
  BY <1>0 DEF RiskInv, ConsumerInv, InUpsert
<1>2. owed' = owed \/ owed' = [owed EXCEPT ![tasks[p].at] = @ \ {tasks[p].snap.version}]
  BY DEF Schedule, RiskInv, StoreInv
<1>3. owed' \in [Server -> SUBSET Version]
  BY <1>0, <1>2 DEF RiskInv, StoreInv
<1>4. StoreInv' /\ Len(log) <= Len(log)
  BY <1>0, <1>3 DEF RiskInv, StoreInv
<1>5. /\ tasks' \in [Tasks -> TaskState] /\ \A q \in Tasks \ {p} : tasks'[q] = tasks[q]
      /\ tasks'[p].pc = "ok"
  BY <1>0, TurnsTo
<1>6. TaskInv(p)'
  BY <1>5 DEF TaskInv, HasSnap, HasRow, InUpsert
<1> QED
  BY <1>0, <1>1, <1>4, <1>5, <1>6, PosterStepInv

-----------------------------------------------------------------------------
(* The consumer *)

\* A message that is taken is stored, so no server remembers another content of its
\* version, and the consumer never ends in a conflict before the store has been asked.
LEMMA TakeMessageInv == RiskInv /\ TakeMessage => RiskInv'
<1> SUFFICES ASSUME RiskInv, TakeMessage PROVE RiskInv'
  OBVIOUS
<1> DEFINE s == log[pos + 1]
<1>0. /\ tasks[Consumer].pc = "idle" /\ pos < Len(log) /\ pos' = pos + 1
      /\ UNCHANGED <<db, mem, owed, latest, log, committed, marked, handled, dead, unsent>>
  BY DEF TakeMessage, At, hubVars
<1>1. pos \in Nat /\ committed \in 0..pos /\ Len(log) \in Nat /\ log \in Seq(db)
  BY DEF RiskInv, BusInv, StoreInv
<1>2. s \in db /\ s \in Snapshots
  <2>1. pos + 1 \in 1..Len(log)
    BY <1>0, <1>1
  <2> QED
    BY <1>1, <2>1 DEF RiskInv, StoreInv
<1> HIDE DEF s
<1>3. StoreInv'
  BY <1>0 DEF RiskInv, StoreInv
<1>4. spent.stops = 0 => \A n \in 1..pos : log[n] \in Done
  BY <1>0 DEF RiskInv, ConsumerInv, Busy
<1>5. tasks \in [Tasks -> TaskState] /\ Consumer \in Tasks
  BY ConsumerTask DEF RiskInv, TasksInv
<1>6. CASE /\ s \in recent \cup marked /\ NoFault /\ recent' = recent \cup {s}
           /\ tasks' = [tasks EXCEPT ![Consumer] = [NoTask EXCEPT !.pc = "commit"]]
  <2>1. /\ tasks' \in [Tasks -> TaskState] /\ tasks'[Consumer].pc = "commit"
        /\ \A q \in Tasks \ {Consumer} : tasks'[q] = tasks[q]
    BY <1>5, <1>6, EndsWith
  <2>2. TaskInv(Consumer)'
    BY <2>1 DEF TaskInv, HasSnap, HasRow, InUpsert
  <2>3. TasksInv'
    BY <1>0, <1>5, <2>1, <2>2, TasksKept DEF RiskInv
  <2>4. s \in handled
    BY <1>6 DEF RiskInv, BusInv
  <2>5. BusInv' /\ spent'.stops = spent.stops
    BY <1>0, <1>1, <1>6, <2>4 DEF RiskInv, BusInv, NoFault
  <2>6. log'[pos'] \in handled' /\ log'[pos'] \in Done' /\ committed' < pos'
    BY <1>0, <1>1, <2>4 DEF s, Done
  <2>d. UNCHANGED Done
    BY <1>0 DEF Done
  <2>7. spent'.stops = 0 => \A n \in 1..pos' : log'[n] \in Done'
    BY <1>0, <1>1, <1>4, <2>5, <2>6, <2>d
  <2>8. ConsumerInv'
    BY <2>1, <2>6, <2>7 DEF ConsumerInv, At, Busy
  <2> QED
    BY <1>3, <2>3, <2>5, <2>8 DEF RiskInv
<1>7. ASSUME NoFault \/ Fault, UNCHANGED recent, NEW i \in Server, BeginUpsert(Consumer, i, s, 1)
      PROVE  RiskInv'
  <2>1. 1 \in 0..RiskAttempts
    BY RiskBounds
  <2>2. /\ tasks' \in [Tasks -> TaskState] /\ TaskInv(Consumer)'
        /\ \A q \in Tasks \ {Consumer} : tasks'[q] = tasks[q]
        /\ \/ tasks'[Consumer].pc = "get" /\ tasks'[Consumer].snap = s
           \/ ~ OfVersion(mem[i], s.version) \subseteq {s}
    BY <1>2, <1>5, <1>7, <2>1, BeginUpsertMoves
  <2>3. OfVersion(mem[i], s.version) \subseteq {s}
    BY <1>2 DEF OfVersion, RiskInv, StoreInv
  <2>4. TasksInv'
    BY <1>0, <1>5, <2>2, TasksKept DEF RiskInv
  <2>5. spent' \in [{"faults", "crashes", "stops"} -> Nat] /\ spent'.stops = spent.stops
    BY <1>7, FaultCounted DEF RiskInv, BusInv
  <2>6. BusInv'
    BY <1>0, <1>1, <1>7, <2>5 DEF RiskInv, BusInv
  <2>7. log'[pos'] = s /\ committed' < pos'
    BY <1>0, <1>1 DEF s
  <2>8. tasks'[Consumer].pc = "get" /\ tasks'[Consumer].snap = s /\ Busy'
    BY <2>2, <2>3 DEF Busy
  <2>d. UNCHANGED Done
    BY <1>0 DEF Done
  <2>9. spent'.stops = 0 => \A n \in 1..pos' : log'[n] \in Done' \/ (n = pos' /\ Busy')
    BY <1>0, <1>1, <1>4, <2>5, <2>8, <2>d
  <2>10. ConsumerInv'
    BY <2>7, <2>8, <2>9 DEF ConsumerInv, At, InUpsert
  <2> QED
    BY <1>3, <2>4, <2>6, <2>10 DEF RiskInv
<1> QED
  BY <1>6, <1>7 DEF TakeMessage, s

\* on_snapshot returns or raises.
LEMMA OnSnapshotInv == RiskInv /\ OnSnapshot => RiskInv'
<1> SUFFICES ASSUME RiskInv, OnSnapshot PROVE RiskInv'
  OBVIOUS
<1> DEFINE p == Consumer
<1>0. /\ tasks[p].pc = "handler" /\ p \in Tasks /\ tasks \in [Tasks -> TaskState]
      /\ UNCHANGED <<db, mem, owed, latest, log, committed, pos, marked, recent, dead, unsent>>
  BY ConsumerTask DEF OnSnapshot, At, hubVars, RiskInv, TasksInv
<1>1. StoreInv' /\ Busy
  BY <1>0 DEF RiskInv, StoreInv, Busy
<1>2. CASE NoFault /\ Turn(p, "mark") /\ handled' = handled \cup {tasks[p].snap}
  <2>1. /\ tasks' \in [Tasks -> TaskState] /\ tasks'[p].pc = "mark"
        /\ tasks'[p].at = tasks[p].at /\ tasks'[p].snap = tasks[p].snap
        /\ \A q \in Tasks \ {p} : tasks'[q] = tasks[q]
    BY <1>0, <1>2, TurnsTo
  <2>2. TaskInv(p)'
    BY <1>0, <2>1 DEF RiskInv, TasksInv, TaskInv, HasSnap, HasRow
  <2>3. TasksInv'
    BY <1>0, <2>1, <2>2, TasksKept DEF RiskInv
  <2>4. tasks[p].snap \in db
    BY <1>1, InHandIsStored
  <2>5. BusInv'
    BY <1>0, <1>2, <2>4 DEF RiskInv, BusInv, NoFault
  <2>6. ConsumerInv'
    BY <1>0, <1>1, <1>2, <2>1, ConsumerGoesOn DEF RiskInv, NoFault, Done
  <2> QED
    BY <1>1, <2>3, <2>5, <2>6 DEF RiskInv
<1>3. CASE Fault /\ Raise(p, "error") /\ UNCHANGED handled
  <2>1. Moves(p)
    BY <1>0, <1>3, RaiseMoves
  <2> QED
    BY <1>0, <1>1, <1>3, <2>1, UpsertStepInv
<1> QED
  BY <1>2, <1>3 DEF OnSnapshot

\* A message given up goes to the dead-letter topic, or its dead letter was not confirmed.
LEMMA PublishDlqInv == RiskInv /\ PublishDlq => RiskInv'
<1> SUFFICES ASSUME RiskInv, PublishDlq PROVE RiskInv'
  OBVIOUS
<1> DEFINE p == Consumer
<1>0. /\ tasks[p].pc = "dlq" /\ p \in Tasks /\ tasks \in [Tasks -> TaskState]
      /\ Turn(p, "commit")
      /\ dead' \in {dead, dead \cup {tasks[p].snap}}
      /\ unsent' \in {unsent, unsent \cup {tasks[p].snap}}
      /\ tasks[p].snap \in dead' \cup unsent'
      /\ UNCHANGED <<db, mem, owed, latest, log, committed, pos, marked, recent, handled, spent>>
  BY ConsumerTask DEF PublishDlq, At, hubVars, RiskInv, TasksInv
<1>1. StoreInv' /\ Busy
  BY <1>0 DEF RiskInv, StoreInv, Busy
<1>2. /\ tasks' \in [Tasks -> TaskState] /\ tasks'[p].pc = "commit"
      /\ tasks'[p].at = tasks[p].at /\ tasks'[p].snap = tasks[p].snap
      /\ \A q \in Tasks \ {p} : tasks'[q] = tasks[q]
  BY <1>0, TurnsTo
<1>3. TaskInv(p)'
  BY <1>2 DEF TaskInv, HasSnap, HasRow, InUpsert
<1>4. TasksInv'
  BY <1>0, <1>2, <1>3, TasksKept DEF RiskInv
<1>5. tasks[p].snap \in db
  BY <1>1, InHandIsStored
<1>6. BusInv'
  BY <1>0, <1>5 DEF RiskInv, BusInv
<1>7. Done \subseteq Done' /\ tasks[p].snap \in Done'
  BY <1>0 DEF Done
<1>8. ConsumerInv'
  BY <1>0, <1>1, <1>2, <1>7, ConsumerGoesOn DEF RiskInv
<1> QED
  BY <1>1, <1>4, <1>6, <1>8 DEF RiskInv

\* The dedupe key is set once the handler has returned.
LEMMA MarkDedupeInv == RiskInv /\ MarkDedupe => RiskInv'
<1> SUFFICES ASSUME RiskInv, MarkDedupe PROVE RiskInv'
  OBVIOUS
<1> DEFINE p == Consumer
<1>0. /\ tasks[p].pc = "mark" /\ p \in Tasks /\ tasks \in [Tasks -> TaskState]
      /\ Turn(p, "commit") /\ (NoFault \/ Fault)
      /\ marked' \subseteq marked \cup {tasks[p].snap} /\ recent' = recent \cup {tasks[p].snap}
      /\ UNCHANGED <<db, mem, owed, latest, log, committed, pos, handled, dead, unsent>>
  BY ConsumerTask DEF MarkDedupe, At, hubVars, RiskInv, TasksInv
<1>1. StoreInv' /\ Busy /\ tasks[p].snap \in handled
  BY <1>0 DEF RiskInv, StoreInv, Busy, ConsumerInv, At
<1>2. /\ tasks' \in [Tasks -> TaskState] /\ tasks'[p].pc = "commit"
      /\ tasks'[p].at = tasks[p].at /\ tasks'[p].snap = tasks[p].snap
      /\ \A q \in Tasks \ {p} : tasks'[q] = tasks[q]
  BY <1>0, TurnsTo
<1>3. TaskInv(p)'
  BY <1>2 DEF TaskInv, HasSnap, HasRow, InUpsert
<1>4. TasksInv'
  BY <1>0, <1>2, <1>3, TasksKept DEF RiskInv
<1>5. spent' \in [{"faults", "crashes", "stops"} -> Nat] /\ spent'.stops = spent.stops
  BY <1>0, FaultCounted DEF RiskInv, BusInv
<1>6. BusInv'
  BY <1>0, <1>1, <1>5 DEF RiskInv, BusInv
<1>7. ConsumerInv'
  BY <1>0, <1>1, <1>2, <1>5, ConsumerGoesOn DEF RiskInv, Done
<1> QED
  BY <1>1, <1>4, <1>6, <1>7 DEF RiskInv

\* The consumer lets go of its message; the offset is where it stood, or at its position
\* when what is there has been dealt with or the consumer was stopped.
LEMMA ReleasedInv ==
    ASSUME RiskInv, UNCHANGED <<db, log, marked, handled, dead, unsent>>,
           recent' \subseteq recent, tasks'[Consumer].pc = "idle",
           TasksInv', StoreInv', pos' \in 0..pos, committed' \in 0..pos',
           spent' \in [{"faults", "crashes", "stops"} -> Nat],
           spent'.stops = 0 => /\ spent.stops = 0
                               /\ pos' = pos => ~Busy
                               /\ pos' # pos => pos' = committed
    PROVE  RiskInv'
<1>1. pos \in 0..Len(log) /\ committed \in 0..pos /\ Len(log) \in Nat
  BY DEF RiskInv, BusInv, StoreInv
<1>2. BusInv'
  BY <1>1 DEF RiskInv, BusInv
<1>3. ASSUME spent'.stops = 0, NEW n \in 1..pos' PROVE log[n] \in Done
  <2>1. n \in 1..pos /\ spent.stops = 0
    BY <1>1, <1>3
  <2>2. ~(n = pos /\ Busy)
    BY <1>1, <1>3 DEF RiskInv, ConsumerInv
  <2> QED
    BY <2>1, <2>2 DEF RiskInv, ConsumerInv
<1>4. ConsumerInv'
  BY <1>3 DEF ConsumerInv, At, Busy, Done
<1> QED
  BY <1>2, <1>4 DEF RiskInv

\* _commit, which may fail silently.
LEMMA CommitInv == RiskInv /\ Commit => RiskInv'
<1> SUFFICES ASSUME RiskInv, Commit PROVE RiskInv'
  OBVIOUS
<1> DEFINE p == Consumer
<1>0. /\ tasks[p].pc = "commit" /\ p \in Tasks /\ tasks \in [Tasks -> TaskState]
      /\ tasks' = [tasks EXCEPT ![p] = NoTask] /\ (NoFault \/ Fault)
      /\ committed' \in {committed, pos}
      /\ UNCHANGED <<db, mem, owed, latest, log, pos, marked, recent, handled, dead, unsent>>
  BY ConsumerTask DEF Commit, At, hubVars, RiskInv, TasksInv
<1>2. /\ tasks' \in [Tasks -> TaskState] /\ tasks'[p].pc = "idle"
      /\ \A q \in Tasks \ {p} : tasks'[q] = tasks[q]
  BY <1>0, NoTaskType
<1>3. TaskInv(p)'
  BY <1>2 DEF TaskInv, HasSnap, HasRow, InUpsert
<1>4. TasksInv'
  BY <1>0, <1>2, <1>3, TasksKept DEF RiskInv
<1>5. spent' \in [{"faults", "crashes", "stops"} -> Nat] /\ spent'.stops = spent.stops
  BY <1>0, FaultCounted DEF RiskInv, BusInv
<1>6. StoreInv' /\ ~Busy /\ pos \in Nat /\ committed' \in 0..pos
  BY <1>0 DEF RiskInv, StoreInv, Busy, BusInv
<1> QED
  BY <1>0, <1>2, <1>4, <1>5, <1>6, ReleasedInv

\* stop() commits the message it interrupts: from then on nothing is claimed.
LEMMA StopConsumerInv == RiskInv /\ StopConsumer => RiskInv'
<1> SUFFICES ASSUME RiskInv, StopConsumer PROVE RiskInv'
  OBVIOUS
<1> DEFINE p == Consumer
<1>0. /\ p \in Tasks /\ tasks \in [Tasks -> TaskState]
      /\ tasks' = [tasks EXCEPT ![p] = NoTask]
      /\ pos' \in {committed, pos} /\ committed' = pos' /\ recent' = {}
      /\ spent' = [spent EXCEPT !["stops"] = @ + 1]
      /\ UNCHANGED <<db, mem, owed, latest, log, marked, handled, dead, unsent>>
  BY ConsumerTask DEF StopConsumer, Restarted, Outage, Count, hubVars, RiskInv, TasksInv
<1>2. /\ tasks' \in [Tasks -> TaskState] /\ tasks'[p].pc = "idle"
      /\ \A q \in Tasks \ {p} : tasks'[q] = tasks[q]
  BY <1>0, NoTaskType
<1>3. TaskInv(p)'
  BY <1>2 DEF TaskInv, HasSnap, HasRow, InUpsert
<1>4. TasksInv'
  BY <1>0, <1>2, <1>3, TasksKept DEF RiskInv
<1>5. spent' \in [{"faults", "crashes", "stops"} -> Nat] /\ spent'.stops # 0
  BY <1>0 DEF RiskInv, BusInv
<1>6. StoreInv' /\ pos' \in 0..pos /\ committed' \in 0..pos'
  BY <1>0 DEF RiskInv, StoreInv, BusInv
<1> QED
  BY <1>0, <1>2, <1>4, <1>5, <1>6, ReleasedInv

\* A server dies and another member of the group begins at the committed offset.
LEMMA CrashServerInv == ASSUME RiskInv, NEW i \in Server, CrashServer(i) PROVE RiskInv'
<1>0. /\ mem' = [mem EXCEPT ![i] = {}] /\ owed' = [owed EXCEPT ![i] = {}]
      /\ pos' = committed /\ committed' = committed /\ recent' = {}
      /\ spent' = [spent EXCEPT !["crashes"] = @ + 1]
      /\ UNCHANGED <<db, latest, log, marked, handled, dead, unsent>>
  BY DEF CrashServer, Restarted, Outage, Count
<1>1. /\ NoTask \in TaskState /\ NoTask.pc = "idle"
      /\ [NoTask EXCEPT !.pc = "gone"] \in TaskState /\ [NoTask EXCEPT !.pc = "gone"].pc = "gone"
  <2>1. 0 \in 0..RiskAttempts
    BY RiskBounds
  <2> QED
    BY <2>1 DEF NoTask, TaskState
<1> DEFINE lost == [NoTask EXCEPT !.pc = "gone"]
<1>2. tasks' = [p \in Tasks |-> IF p = Consumer THEN NoTask
                                ELSE IF tasks[p].at = i /\ ~ At(p, "ok") THEN lost ELSE tasks[p]]
  BY DEF CrashServer
<1> HIDE DEF lost
<1>3. ASSUME NEW p \in Tasks
      PROVE  tasks'[p] \in {NoTask, lost, tasks[p]} /\ tasks'[p] \in TaskState
  BY <1>1, <1>2 DEF RiskInv, TasksInv, lost
<1>4. tasks' \in [Tasks -> TaskState] /\ tasks'[Consumer].pc = "idle"
  BY <1>1, <1>2, <1>3, ConsumerTask
<1>5. ASSUME NEW p \in Tasks PROVE TaskInv(p)'
  <2>1. CASE tasks'[p] = tasks[p]
    BY <1>0, <2>1 DEF RiskInv, TasksInv, TaskInv
  <2>2. CASE tasks'[p] \in {NoTask, lost}
    BY <1>1, <2>2 DEF TaskInv, HasSnap, HasRow, InUpsert, lost
  <2> QED
    BY <1>3, <2>1, <2>2
<1>6. TasksInv'
  BY <1>4, <1>5 DEF TasksInv
<1>7. StoreInv'
  BY <1>0 DEF RiskInv, StoreInv
<1>8. /\ spent' \in [{"faults", "crashes", "stops"} -> Nat] /\ spent'.stops = spent.stops
      /\ pos' \in 0..pos /\ committed' \in 0..pos'
  BY <1>0 DEF RiskInv, BusInv
<1>9. pos' = pos => ~Busy
  BY <1>0 DEF RiskInv, ConsumerInv, BusInv
<1> QED
  BY <1>0, <1>4, <1>6, <1>7, <1>8, <1>9, ReleasedInv

\* A read puts a row into the memory of the server that answers.
LEMMA ReadStoreInv == ASSUME RiskInv, NEW i \in Server, ReadStore(i) PROVE RiskInv'
<1>1. PICK s \in db : /\ mem' = [mem EXCEPT ![i] = MemoryWith(i, s)]
                      /\ owed' = [owed EXCEPT ![i] = OwedWith(i, s)]
                      /\ UNCHANGED <<db, latest, tasks, spent, busVars>>
  BY DEF ReadStore
<1>2. MemoryWith(i, s) \subseteq db /\ OwedWith(i, s) \subseteq Version
  BY MemoryKept, OwedKept DEF RiskInv, StoreInv
<1>3. StoreInv'
  BY <1>1, <1>2 DEF RiskInv, StoreInv, busVars
<1>4. TasksInv' /\ BusInv' /\ ConsumerInv'
  BY <1>1 DEF RiskInv, TasksInv, TaskInv, BusInv, ConsumerInv, Done, Busy, At, busVars
<1> QED
  BY <1>3, <1>4 DEF RiskInv

-----------------------------------------------------------------------------
(* The theorems *)

\* At the start nothing is stored, published or handled.
LEMMA RiskInitInv == RiskInit => RiskInv
<1> SUFFICES ASSUME RiskInit PROVE RiskInv
  OBVIOUS
<1>2. NoTask \in TaskState /\ NoTask.pc = "idle"
  BY NoTaskType
<1>3. TasksInv
  BY <1>2 DEF RiskInit, TasksInv, TaskInv, HasSnap, HasRow, InUpsert
<1>4. StoreInv
  BY DEF RiskInit, StoreInv
<1>5. BusInv
  BY DEF RiskInit, BusInv
<1>6. ConsumerInv
  BY <1>2, ConsumerTask DEF RiskInit, ConsumerInv, Busy, At
<1> QED
  BY <1>3, <1>4, <1>5, <1>6 DEF RiskInv

\* Every step keeps the invariant.
LEMMA RiskStepInv == RiskInv /\ [RiskNext]_riskVars => RiskInv'
<1> SUFFICES ASSUME RiskInv, [RiskNext]_riskVars PROVE RiskInv'
  OBVIOUS
<1>1. ASSUME NEW p \in Poster, Post(p) PROVE RiskInv'
  BY <1>1, PostInv
<1>2. ASSUME NEW p \in Tasks, TaskStep(p) PROVE RiskInv'
  BY <1>2, GetRowInv, InsertRowInv, AfterInsertInv, RecheckRowInv, CacheLatestInv,
     PublishUpdateInv, ScheduleInv DEF TaskStep
<1>3. CASE ConsumerStep
  BY <1>3, TakeMessageInv, OnSnapshotInv, PublishDlqInv, MarkDedupeInv, CommitInv DEF ConsumerStep
<1>4. CASE StopConsumer
  BY <1>4, StopConsumerInv
<1>5. ASSUME NEW i \in Server, ReadStore(i) \/ CrashServer(i) PROVE RiskInv'
  BY <1>5, ReadStoreInv, CrashServerInv
<1>6. CASE UNCHANGED riskVars
  BY <1>6 DEF RiskInv, TasksInv, TaskInv, StoreInv, BusInv, ConsumerInv, Done, Busy, At, riskVars
<1> QED
  BY <1>1, <1>2, <1>3, <1>4, <1>5, <1>6 DEF RiskNext

\* The invariant holds in every state of the risk hub.
LEMMA RiskInvariant == RiskSpec => []RiskInv
<1>1. RiskInit => RiskInv
  BY RiskInitInv
<1>2. RiskInv /\ [RiskNext]_riskVars => RiskInv'
  BY RiskStepInv
<1> QED
  BY <1>1, <1>2, PTL DEF RiskSpec

\* The risk hub keeps one content per version: whatever two POSTs of the same version on
\* two servers, failing calls and crashes do, what any server remembers, what Redis calls
\* the latest and what was announced is the row of that version.
THEOREM OneContentAlways == RiskSpec => []OneContentPerVersion
<1>1. RiskInv => OneContentPerVersion
  <2> SUFFICES ASSUME RiskInv PROVE OneContentPerVersion
    OBVIOUS
  <2>1. RiskTypeOK
    <3>1. log \in Seq(Snapshots)
      BY SeqOver DEF RiskInv, StoreInv
    <3> QED
      BY <3>1 DEF RiskTypeOK, RiskInv, StoreInv, BusInv, TasksInv
  <2>2. \A i \in Server : mem[i] \subseteq db
    BY DEF RiskInv, StoreInv
  <2>3. Logged \subseteq db
    BY DEF RiskInv, StoreInv, Logged
  <2> DEFINE memories == UNION {mem[i] : i \in Server}
             redis == {latest} \ {None}
  <2>4. memories \subseteq db
    BY <2>2
  <2>5. redis \subseteq db
    BY DEF RiskInv, StoreInv
  <2>6. \A s, t \in db : s.version = t.version => s = t
    BY DEF RiskInv, StoreInv
  <2> HIDE DEF memories, redis
  <2>7. memories \cup Logged \cup redis \subseteq db
    BY <2>3, <2>4, <2>5
  <2> QED
    BY <2>1, <2>6, <2>7 DEF OneContentPerVersion, memories, redis
<1> QED
  BY <1>1, RiskInvariant, PTL

\* The consumer of risk_snapshot_updated commits no announcement that was neither handled
\* nor given up after its last attempt, unless stop() has interrupted one.  What is given up
\* is on the dead-letter topic, or its dead letter had no producer or a failing send.
THEOREM CommittedAlwaysHandled == RiskSpec => []CommittedIsHandled
<1>1. RiskInv => CommittedIsHandled
  <2> SUFFICES ASSUME RiskInv, spent.stops = 0, NEW n \in 1..committed
               PROVE  log[n] \in Done
    BY DEF CommittedIsHandled, Done
  <2>1. n \in 1..pos /\ ~(n = pos /\ Busy)
    BY DEF RiskInv, BusInv, ConsumerInv
  <2> QED
    BY <2>1 DEF RiskInv, ConsumerInv
<1> QED
  BY <1>1, RiskInvariant, PTL
=============================================================================
