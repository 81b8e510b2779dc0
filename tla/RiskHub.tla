------------------------------ MODULE RiskHub ------------------------------
(***************************************************************************)
(* WorldService's risk signal hub: portfolio snapshots posted to any       *)
(* server, stored once per version, remembered in each server's memory,    *)
(* announced on the ControlBus, and applied again by the consumer group.   *)
(*                                                                         *)
(* A task is one coroutine: the handler of a POST, or the bus consumer's   *)
(* handler of one message.  Both call upsert_snapshot; an action runs from *)
(* one await to the next.  A row of risk_snapshots is never changed, so a  *)
(* read and the resumption after it are one action; an insert is visible   *)
(* to the others before its caller resumes, so those are two.              *)
(*                                                                         *)
(* A snapshot is its version, the digest of its content and its as_of.     *)
(* TTLs, blob offloading and covariance references are left out.           *)
(***************************************************************************)
EXTENDS Naturals, Sequences, FiniteSets, Optional

CONSTANTS Server,       \* WorldService processes
          Poster,       \* POST requests
          Snapshots,    \* what may be posted: [version, hash, asOf]
          MaxCached,    \* RiskSignalHub(max_cached)
          RiskAttempts, \* RiskHubControlBusConsumer(max_attempts)
          MaxFaults,    \* failing calls of the database, Redis, bus or handler, and outages
          MaxOutages    \* server crashes and RiskHubControlBusConsumer.stop() calls

ASSUME RiskBounds == /\ MaxCached \in Nat \ {0}
                     /\ RiskAttempts \in Nat \ {0}
                     /\ MaxFaults \in Nat /\ MaxOutages \in Nat

VARIABLES db,        \* rows of risk_snapshots, unique per version
          mem,       \* _snapshots of each server
          owed,      \* _pending_dispatches of each server
          latest,    \* the Redis key risk-hub:<world>:latest
          log,       \* risk_snapshot_updated events on the topic
          committed, \* the group's committed offset
          pos,       \* the consumer's position
          marked,    \* dedupe keys in Redis
          recent,    \* _dedupe_keys of the running consumer
          handled,   \* snapshots whose on_snapshot returned
          dead,      \* snapshots on the dead-letter topic
          unsent,    \* snapshots given up whose dead letter was not confirmed
          tasks, spent

riskVars == <<db, mem, owed, latest, log, committed, pos, marked, recent,
              handled, dead, unsent, tasks, spent>>

Consumer == "consumer"
Tasks == Poster \cup {Consumer}

Version == {s.version : s \in Snapshots}

NoTask == [pc |-> "idle", at |-> None, snap |-> None, dup |-> FALSE,
           told |-> FALSE, tries |-> 0]

InUpsert == {"get", "insert", "stored", "recheck", "latest"}

TaskState ==
  [pc : {"idle", "publish", "schedule", "handler", "mark", "dlq", "commit", "ok",
         "conflict", "error", "gone"} \cup InUpsert,
   at : Server \cup {None}, snap : Snapshots \cup {None}, dup : BOOLEAN, told : BOOLEAN,
   tries : 0..RiskAttempts]

RiskTypeOK ==
  /\ db \subseteq Snapshots
  /\ mem \in [Server -> SUBSET Snapshots]
  /\ owed \in [Server -> SUBSET Version]
  /\ latest \in Snapshots \cup {None}
  /\ log \in Seq(Snapshots)
  /\ committed \in 0..pos /\ pos \in 0..Len(log)
  /\ marked \subseteq Snapshots /\ recent \subseteq Snapshots
  /\ handled \subseteq Snapshots /\ dead \subseteq Snapshots /\ unsent \subseteq Snapshots
  /\ tasks \in [Tasks -> TaskState]
  /\ spent \in [{"faults", "crashes", "stops"} -> Nat]

RiskInit ==
  /\ db = {} /\ latest = None /\ log = <<>>
  /\ committed = 0 /\ pos = 0
  /\ mem = [i \in Server |-> {}] /\ owed = [i \in Server |-> {}]
  /\ marked = {} /\ recent = {} /\ handled = {} /\ dead = {} /\ unsent = {}
  /\ tasks = [p \in Tasks |-> NoTask]
  /\ spent = [b \in {"faults", "crashes", "stops"} |-> 0]

Count(b) == spent' = [spent EXCEPT ![b] = @ + 1]
Spent == spent.faults + spent.crashes + spent.stops
Fault == Spent < MaxFaults /\ Count("faults")
Outage(b) == spent.crashes + spent.stops < MaxOutages /\ Spent < MaxFaults /\ Count(b)
NoFault == UNCHANGED spent

At(p, pc) == tasks[p].pc = pc
Turn(p, pc) == tasks' = [tasks EXCEPT ![p].pc = pc]
OfVersion(S, v) == {s \in S : s.version = v}

busVars == <<log, committed, pos, marked, recent, handled, dead, unsent>>
hubVars == <<mem, owed, latest>>

-----------------------------------------------------------------------------
(* RiskSignalHub *)

Ended(p, how) == tasks' = [tasks EXCEPT ![p] = [NoTask EXCEPT !.pc = how]]

\* An exception leaves upsert_snapshot: a POST answers 409 or 500, the
\* consumer tries again or gives the message up.
Raise(p, how) ==
  LET t == tasks[p] IN
  IF p # Consumer THEN Ended(p, how)
  ELSE IF t.tries < RiskAttempts
  THEN tasks' = [tasks EXCEPT ![p].pc = "get", ![p].tries = @ + 1, ![p].dup = FALSE]
  ELSE Turn(p, "dlq")

\* _cached_version_deduped, before the first await.  Only a POST can find another content
\* here: what is announced is what is stored.
BeginUpsert(p, i, s, n) ==
  LET known == OfVersion(mem[i], s.version) IN
  IF known \subseteq {s}
  THEN tasks' = [tasks EXCEPT ![p] = [NoTask EXCEPT !.pc = "get", !.at = i, !.snap = s,
                                                   !.tries = n, !.dup = s \in known]]
  ELSE Ended(p, "conflict")

Newer(a, b) == \/ a.asOf > b.asOf
               \/ a.asOf = b.asOf /\ a.version > b.version

\* The list is kept sorted by (as_of, version) and cut to its last max_cached.
Trimmed(S) == {s \in S : Cardinality({t \in S : Newer(t, s)}) < MaxCached}

\* _prune_pending_dispatches for memory S.
StillOwed(S, vs) == IF S = {} THEN vs ELSE {v \in vs : OfVersion(S, v) # {}}

\* _cache_snapshot: what memory and marks of server i become.
MemoryWith(i, s) == IF OfVersion(mem[i], s.version) # {} THEN mem[i]
                    ELSE Trimmed(mem[i] \cup {s})
OwedWith(i, s) == IF OfVersion(mem[i], s.version) # {} THEN owed[i]
                  ELSE StillOwed(MemoryWith(i, s), owed[i])

\* _cache_snapshot and _mark_snapshot_dispatch_pending, from the store's
\* answer to the Redis call; dup tells whether the store had the row.
KeepInMemory(p, dup) ==
  LET t == tasks[p]
      known == OfVersion(mem[t.at], t.snap.version)
      deduped == dup \/ t.dup \/ known # {}
  IN IF ~ known \subseteq {t.snap} THEN Raise(p, "conflict") /\ UNCHANGED <<mem, owed>>
     ELSE /\ mem' = [mem EXCEPT ![t.at] = MemoryWith(t.at, t.snap)]
          /\ owed' = [owed EXCEPT ![t.at] = OwedWith(t.at, t.snap)
                        \cup (IF deduped THEN {} ELSE {t.snap.version})]
          /\ tasks' = [tasks EXCEPT ![p].pc = "latest", ![p].dup = deduped]

\* _enforce_version_idempotency: a row of the same hash, none, or another.
SameRow(s) == s \in db
OtherRow(s) == OfVersion(db, s.version) \ {s} # {}
NoRow(s) == OfVersion(db, s.version) = {}

\* The first look at the store; a failing read counts as no row.
GetRow(p) ==
  LET s == tasks[p].snap IN
  /\ At(p, "get")
  /\ \/ NoRow(s) /\ NoFault /\ Turn(p, "insert") /\ UNCHANGED <<mem, owed>>
     \/ Fault /\ Turn(p, "insert") /\ UNCHANGED <<mem, owed>>
     \/ SameRow(s) /\ NoFault /\ KeepInMemory(p, TRUE)
     \/ OtherRow(s) /\ NoFault /\ Raise(p, "conflict") /\ UNCHANGED <<mem, owed>>
  /\ UNCHANGED <<db, latest, busVars>>

\* Variant: a conflict is a success whatever the hashes.
InsertRowUnchecked(p) ==
  /\ At(p, "insert") /\ NoFault /\ Turn(p, "stored")
  /\ db' = db \cup (IF NoRow(tasks[p].snap) THEN {tasks[p].snap} ELSE {})
  /\ UNCHANGED <<hubVars, busVars>>

\* RiskSnapshotRepository.upsert: the unique key decides; a conflict with the
\* same hash is a success.  A failing call may have written the row.
InsertRow(p) ==
  LET s == tasks[p].snap IN
  /\ At(p, "insert")
  /\ \/ /\ ~ OtherRow(s) /\ NoFault
        /\ db' = db \cup {s} /\ Turn(p, "stored")
     \/ /\ OtherRow(s) /\ NoFault
        /\ UNCHANGED db /\ Turn(p, "recheck")
     \/ /\ Fault
        /\ db' \in {db} \cup (IF NoRow(s) THEN {db \cup {s}} ELSE {})
        /\ Turn(p, "recheck")
  /\ UNCHANGED <<hubVars, busVars>>

\* upsert_snapshot goes on after a successful insert.
AfterInsert(p) ==
  /\ At(p, "stored") /\ KeepInMemory(p, FALSE)
  /\ UNCHANGED <<db, latest, spent, busVars>>

\* The second look, after a failed insert; without the row the error is raised.
RecheckRow(p) ==
  LET s == tasks[p].snap IN
  /\ At(p, "recheck")
  /\ \/ SameRow(s) /\ NoFault /\ KeepInMemory(p, TRUE)
     \/ OtherRow(s) /\ NoFault /\ Raise(p, "conflict") /\ UNCHANGED <<mem, owed>>
     \/ NoRow(s) /\ NoFault /\ Raise(p, "error") /\ UNCHANGED <<mem, owed>>
     \/ Fault /\ Raise(p, "error") /\ UNCHANGED <<mem, owed>>
  /\ UNCHANGED <<db, latest, busVars>>

\* _cache_latest overwrites the key whatever it held; then the POST decides
\* whether to dispatch, and the consumer calls its handler.
CacheLatest(p) ==
  LET t == tasks[p]
      due == StillOwed(mem[t.at], owed[t.at])
  IN /\ At(p, "latest")
     /\ \/ NoFault /\ latest' = t.snap
        \/ Fault /\ UNCHANGED latest
     /\ IF p = Consumer THEN Turn(p, "handler") /\ UNCHANGED owed
        ELSE /\ owed' = IF t.dup THEN [owed EXCEPT ![t.at] = due] ELSE owed
             /\ Turn(p, IF t.dup /\ t.snap.version \notin due THEN "ok" ELSE "publish")
     /\ UNCHANGED <<db, mem, busVars>>

\* latest_snapshot, get_snapshot, list_snapshots and snapshot_for_as_of put
\* the rows they read into the memory of the server that answers.
ReadStore(i) ==
  \E s \in db :
    /\ OfVersion(mem[i], s.version) = {}
    /\ mem' = [mem EXCEPT ![i] = MemoryWith(i, s)]
    /\ owed' = [owed EXCEPT ![i] = OwedWith(i, s)]
    /\ UNCHANGED <<db, latest, tasks, spent, busVars>>

-----------------------------------------------------------------------------
(* The POST handler and its dispatch *)

Post(p) ==
  /\ At(p, "idle") /\ p # Consumer
  /\ \E i \in Server, s \in Snapshots : BeginUpsert(p, i, s, 0)
  /\ UNCHANGED <<db, hubVars, busVars, spent>>

\* CoreLoopHub.handle_risk_snapshot_update: publish, then schedule.
PublishUpdate(p) ==
  /\ At(p, "publish")
  /\ \/ /\ NoFault /\ log' = Append(log, tasks[p].snap)
        /\ tasks' = [tasks EXCEPT ![p].pc = "schedule", ![p].told = TRUE]
     \/ /\ Fault /\ UNCHANGED log
        /\ Turn(p, "schedule")
  /\ UNCHANGED <<db, hubVars, committed, pos, marked, recent, handled, dead, unsent>>

\* The mark is taken back only when both halves succeeded.
Schedule(p) ==
  LET t == tasks[p] IN
  /\ At(p, "schedule") /\ Turn(p, "ok")
  /\ \/ /\ NoFault
        /\ owed' = [owed EXCEPT ![t.at] = IF t.told THEN @ \ {t.snap.version} ELSE @]
     \/ Fault /\ UNCHANGED owed
  /\ UNCHANGED <<db, mem, latest, busVars>>

-----------------------------------------------------------------------------
(* RiskHubControlBusConsumer: one member of the group has the partition *)

\* Variant: the dedupe key is set when the message is taken.
TakeMessageMarked ==
  /\ At(Consumer, "idle") /\ pos < Len(log) /\ pos' = pos + 1 /\ NoFault
  /\ marked' = marked \cup {log[pos']}
  /\ IF log[pos'] \in marked
     THEN tasks' = [tasks EXCEPT ![Consumer] = [NoTask EXCEPT !.pc = "commit"]]
     ELSE \E i \in Server : BeginUpsert(Consumer, i, log[pos'], 1)
  /\ UNCHANGED <<db, hubVars, log, committed, recent, handled, dead, unsent>>

\* _handle_message up to the first await of upsert_snapshot.  A failing read
\* of the Redis key counts as not seen.
TakeMessage ==
  /\ At(Consumer, "idle") /\ pos < Len(log)
  /\ pos' = pos + 1
  /\ LET s == log[pos + 1]
         seen == s \in recent \cup marked
     IN \/ /\ seen /\ NoFault
           /\ recent' = recent \cup {s}
           /\ tasks' = [tasks EXCEPT ![Consumer] = [NoTask EXCEPT !.pc = "commit"]]
        \/ /\ IF seen THEN s \notin recent /\ Fault ELSE NoFault
           /\ \E i \in Server : BeginUpsert(Consumer, i, s, 1)
           /\ UNCHANGED recent
  /\ UNCHANGED <<db, hubVars, log, committed, marked, handled, dead, unsent>>

OnSnapshot ==
  /\ At(Consumer, "handler")
  /\ \/ NoFault /\ Turn(Consumer, "mark")
        /\ handled' = handled \cup {tasks[Consumer].snap}
     \/ Fault /\ Raise(Consumer, "error") /\ UNCHANGED handled
  /\ UNCHANGED <<db, hubVars, log, committed, pos, marked, recent, dead, unsent>>

\* _publish_dlq, after the last attempt.  Without a producer nothing is sent, and a failing
\* send, which may have reached the topic, is only logged; the message is committed all the
\* same.
PublishDlq ==
  LET s == tasks[Consumer].snap IN
  /\ At(Consumer, "dlq") /\ Turn(Consumer, "commit")
  /\ \/ dead' = dead \cup {s} /\ UNCHANGED unsent
     \/ dead' \in {dead, dead \cup {s}} /\ unsent' = unsent \cup {s}
  /\ UNCHANGED <<db, hubVars, log, committed, pos, marked, recent, handled, spent>>

MarkDedupe ==
  /\ At(Consumer, "mark") /\ Turn(Consumer, "commit")
  /\ recent' = recent \cup {tasks[Consumer].snap}
  /\ \/ NoFault /\ marked' = marked \cup {tasks[Consumer].snap}
     \/ Fault /\ UNCHANGED marked
  /\ UNCHANGED <<db, hubVars, log, committed, pos, handled, dead, unsent>>

\* _commit runs in a finally and hides its own failure.
Commit ==
  /\ At(Consumer, "commit")
  /\ tasks' = [tasks EXCEPT ![Consumer] = NoTask]
  /\ \/ NoFault /\ committed' = pos
     \/ Fault /\ UNCHANGED committed
  /\ UNCHANGED <<db, hubVars, log, pos, marked, recent, handled, dead, unsent>>

\* A restarted consumer begins at the committed offset with nothing recent.
Restarted(n) ==
  /\ pos' = n /\ committed' = n /\ recent' = {}
  /\ UNCHANGED <<log, marked, handled, dead, unsent>>

\* stop() cancels the task; its finally still commits what it was handling.
StopConsumer ==
  /\ Outage("stops")
  /\ tasks' = [tasks EXCEPT ![Consumer] = NoTask]
  /\ Restarted(IF At(Consumer, "idle") THEN committed ELSE pos)
  /\ UNCHANGED <<db, hubVars>>

\* A server dies: its memory and its marks are gone and its POSTs fail.
\* When it held the partition another member continues.
CrashServer(i) ==
  /\ Outage("crashes")
  /\ mem' = [mem EXCEPT ![i] = {}] /\ owed' = [owed EXCEPT ![i] = {}]
  /\ tasks' = [p \in Tasks |->
                 IF p = Consumer THEN NoTask
                 ELSE IF tasks[p].at = i /\ ~ At(p, "ok")
                 THEN [NoTask EXCEPT !.pc = "gone"] ELSE tasks[p]]
  /\ Restarted(committed)
  /\ UNCHANGED <<db, latest>>

-----------------------------------------------------------------------------
TaskStep(p) == \/ GetRow(p) \/ InsertRow(p) \/ AfterInsert(p) \/ RecheckRow(p)
               \/ CacheLatest(p) \/ PublishUpdate(p) \/ Schedule(p)

ConsumerStep == TakeMessage \/ OnSnapshot \/ PublishDlq \/ MarkDedupe \/ Commit

RiskNext == \/ \E p \in Poster : Post(p)
            \/ \E p \in Tasks : TaskStep(p)
            \/ ConsumerStep \/ StopConsumer
            \/ \E i \in Server : ReadStore(i) \/ CrashServer(i)

RiskSpec == RiskInit /\ [][RiskNext]_riskVars

-----------------------------------------------------------------------------
Logged == {log[n] : n \in 1..Len(log)}

\* What any server remembers of a version, what Redis calls the latest and
\* what was announced is the one row stored for that version, whatever two
\* POSTs of the same version on two servers, failed calls and crashes did
\* (upsert_snapshot, RiskSnapshotRepository.upsert; 409 instead of overwrite).
OneContentPerVersion ==
  /\ RiskTypeOK
  /\ \A s, t \in db : s.version = t.version => s = t
  /\ (UNION {mem[i] : i \in Server}) \cup Logged \cup ({latest} \ {None}) \subseteq db

\* A committed announcement was handled or, after the last attempt, given to the
\* dead-letter topic, also when the consumer crashed between the handler, the dedupe mark
\* and the commit and the message was delivered again (_handle_message, _run).  Two
\* exceptions, which the code commits like the rest: a message given up whose dead letter
\* has no producer or whose send failed (_publish_dlq), and the message stop() interrupts.
\* Messages that are malformed, invalid or expired are outside of the model.
CommittedIsHandled ==
  spent.stops = 0 => \A n \in 1..committed : log[n] \in handled \cup dead \cup unsent

\* Once nothing is under way, every snapshot a POST was told is stored has
\* been announced, or a retry of the POST will announce it.
StoredIsAnnounced ==
  (\A p \in Poster : tasks[p].pc \notin InUpsert \cup {"publish", "schedule"}) =>
    \A p \in Poster : At(p, "ok") =>
      \/ tasks[p].snap \in Logged
      \/ tasks[p].snap.version \in owed[tasks[p].at]

=============================================================================
