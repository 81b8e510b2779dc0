--------------------------- MODULE StrategyIntake ----------------------------
(***************************************************************************)
(* POST /strategies in front of the strategy queue: StrategyManager.submit,   *)
(* StrategyStorage (deduplication by DAG hash), StrategyQueue.enqueue, and the *)
(* DegradationManager whose local queue takes over while the DAG Manager is     *)
(* away.  The workers of StrategyQueue run at the same time on the same Redis   *)
(* keys.  Every submission draws a strategy id of its own, so a strategy id     *)
(* stands for the submission too.                                             *)
(***************************************************************************)
EXTENDS StrategyQueue

CONSTANTS
    DagOf,          \* the DAG hash that a submission carries
    MaxLogFails     \* failing publications to the commit log

Dag == {DagOf[x] : x \in Strategy}

ASSUME IntakeConstants ==
    /\ DOMAIN DagOf = Strategy
    /\ MaxLogFails \in Nat
    /\ None \notin Dag

VARIABLES
    dagHash,    \* dag_hash:{hash} -> strategy id
    sub,        \* the call each submission makes next
    reply,      \* what the client has been told
    local,      \* DegradationManager.local_queue
    health,     \* dag_ok and redis_ok as checked last, and level
    monitor,    \* where DegradationManager.update is, and the level it computed
    logFails

ivars == <<dagHash, sub, reply, local, health, monitor, logFails>>
vars  == <<qvars, ivars>>

SubPc == {"new", "eval", "fbGet", "fbSet", "fbAgain", "fbHset", "log", "enqueue",
          "state", "insert", "undoHash", "undoDag", "done"}
ReplyKind == {"accepted", "duplicate", "unavailable", "failed"}
Level == 0..2       \* NORMAL, PARTIAL, and MINIMAL or STATIC: neither takes submissions

IntakeInit ==
    /\ queue = <<>>
    /\ lock = [s \in Strategy |-> None]
    /\ dag = {}
    /\ state = [s \in Strategy |-> None]
    /\ status = [s \in Strategy |-> None]
    /\ wk = [w \in Worker |-> Idle]
    /\ poll = [item |-> None, seen |-> None]
    /\ spent = [b \in DOMAIN Bounds |-> 0]
    /\ dagHash = [d \in Dag |-> None]
    /\ sub = [x \in Strategy |-> "new"]
    /\ reply = [x \in Strategy |-> None]
    /\ local = <<>>
    /\ health = [dagOk |-> TRUE, redisOk |-> TRUE, level |-> 0]
    /\ monitor = [pc |-> "sleep", level |-> 0]
    /\ logFails = 0

SubAt(x, pc) == sub[x] = pc
Moves(x, pc) == sub' = [sub EXCEPT ![x] = pc]
Answers(x, kind, id) ==
    /\ Moves(x, "done")
    /\ reply' = [reply EXCEPT ![x] = [kind |-> kind, id |-> id]]
Quiet == UNCHANGED reply

-----------------------------------------------------------------------------
(* StrategyManager.submit *)

\* The middleware turns submissions away at level MINIMAL and STATIC.
Arrive(x) ==
    /\ SubAt(x, "new")
    /\ health.level < 2
    /\ Moves(x, "eval")
    /\ UNCHANGED <<qvars, dagHash, reply, local, health, monitor, logFails>>

\* The DAG of x is taken.
Claimed(x) == dagHash[DagOf[x]] # None

\* The Lua script: SETNX of the hash and HSET of the dag in one go.
Claims(x) ==
    /\ dagHash' = [dagHash EXCEPT ![DagOf[x]] = x]
    /\ dag' = dag \cup {x}

\* Defect variant of SaveUnique: the hash is read, not claimed, before the dag is written.
SaveUniqueUnclaimed(x) ==
    /\ SubAt(x, "eval")
    /\ \/ Claimed(x) /\ Answers(x, "duplicate", dagHash[DagOf[x]]) /\ UNCHANGED <<dagHash, dag>> /\ Free
       \/ ~Claimed(x) /\ Moves(x, "fbHset") /\ Quiet /\ UNCHANGED <<dagHash, dag>> /\ Free
    /\ UNCHANGED <<queue, lock, state, status, wk, poll, local, health, monitor, logFails>>

\* save_unique.  When EVAL fails - executed or not - the fallback runs.
SaveUnique(x) ==
    /\ SubAt(x, "eval")
    /\ \/ Claimed(x) /\ Answers(x, "duplicate", dagHash[DagOf[x]]) /\ UNCHANGED <<dagHash, dag>> /\ Free
       \/ ~Claimed(x) /\ Claims(x) /\ Moves(x, "log") /\ Quiet /\ Free
       \/ /\ Spend("redis")
          /\ (~Claimed(x) /\ Claims(x)) \/ UNCHANGED <<dagHash, dag>>
          /\ Moves(x, "fbGet") /\ Quiet
    /\ UNCHANGED <<queue, lock, state, status, wk, poll, local, health, monitor, logFails>>

\* _fallback_dedupe: GET ...
FallbackGet(x) ==
    /\ SubAt(x, "fbGet")
    /\ \/ Claimed(x) /\ Answers(x, "duplicate", dagHash[DagOf[x]]) /\ Free
       \/ ~Claimed(x) /\ Moves(x, "fbSet") /\ Quiet /\ Free
       \/ Answers(x, "failed", None) /\ Spend("redis")
    /\ UNCHANGED <<queue, lock, dag, state, status, wk, poll, dagHash, local, health, monitor, logFails>>

\* ... SET NX ...
FallbackSet(x) ==
    /\ SubAt(x, "fbSet")
    /\ \/ Claimed(x) /\ Moves(x, "fbAgain") /\ Quiet /\ UNCHANGED dagHash /\ Free
       \/ /\ ~Claimed(x) /\ Free
          /\ dagHash' = [dagHash EXCEPT ![DagOf[x]] = x] /\ Moves(x, "fbHset") /\ Quiet
       \/ /\ Spend("redis")
          /\ dagHash' \in {dagHash, [dagHash EXCEPT ![DagOf[x]] = IF @ = None THEN x ELSE @]}
          /\ Answers(x, "failed", None)
    /\ UNCHANGED <<queue, lock, dag, state, status, wk, poll, local, health, monitor, logFails>>

\* ... GET once more when somebody was faster (and may be gone again) ...
FallbackAgain(x) ==
    /\ SubAt(x, "fbAgain")
    /\ \/ Answers(x, "duplicate", dagHash[DagOf[x]]) /\ Free
       \/ Answers(x, "failed", None) /\ Spend("redis")
    /\ UNCHANGED <<queue, lock, dag, state, status, wk, poll, dagHash, local, health, monitor, logFails>>

\* ... and HSET.  An error in the fallback is answered with a 500; nothing is undone.
FallbackHset(x) ==
    /\ SubAt(x, "fbHset")
    /\ \/ dag' = dag \cup {x} /\ Moves(x, "log") /\ Quiet /\ Free
       \/ dag' \in {dag, dag \cup {x}} /\ Answers(x, "failed", None) /\ Spend("redis")
    /\ UNCHANGED <<queue, lock, state, status, wk, poll, dagHash, local, health, monitor, logFails>>

\* _publish_submission: a failing commit log undoes the registration.
PublishSubmission(x) ==
    /\ SubAt(x, "log")
    /\ \/ Moves(x, "enqueue") /\ UNCHANGED logFails
       \/ logFails < MaxLogFails /\ logFails' = logFails + 1 /\ Moves(x, "undoHash")
    /\ UNCHANGED <<qvars, dagHash, reply, local, health, monitor>>

\* StrategyQueue.enqueue: the local queue at level PARTIAL without DAG Manager, Redis
\* otherwise.  A failing RPUSH undoes the registration, whether it was executed or not.
Enqueue(x) ==
    /\ SubAt(x, "enqueue")
    /\ LET keep == health.level = 1 /\ ~health.dagOk IN
         \/ keep /\ local' = Append(local, x) /\ Moves(x, "state") /\ UNCHANGED queue /\ Free
         \/ ~keep /\ queue' = Append(queue, x) /\ Moves(x, "state") /\ UNCHANGED local /\ Free
         \/ /\ ~keep /\ Spend("redis")
            /\ queue' \in {queue, Append(queue, x)}
            /\ Moves(x, "undoHash") /\ UNCHANGED local
    /\ UNCHANGED <<lock, dag, state, status, wk, poll, dagHash, reply, health, monitor, logFails>>

\* StrategyStorage.rollback: DEL of the hash (an error ends the clean-up) ...
UndoHash(x) ==
    /\ SubAt(x, "undoHash")
    /\ LET freed == [dagHash EXCEPT ![DagOf[x]] = None] IN
         \/ dagHash' = freed /\ Moves(x, "undoDag") /\ Quiet /\ Free
         \/ dagHash' \in {dagHash, freed} /\ Answers(x, "unavailable", None) /\ Spend("redis")
    /\ UNCHANGED <<queue, lock, dag, state, status, wk, poll, local, health, monitor, logFails>>

\* ... and of the strategy's hash with everything in it.
UndoDag(x) ==
    /\ SubAt(x, "undoDag")
    /\ \/ dag' = dag \ {x} /\ state' = [state EXCEPT ![x] = None] /\ Free
       \/ UNCHANGED <<dag, state>> /\ Spend("redis")
    /\ Answers(x, "unavailable", None)
    /\ UNCHANGED <<queue, lock, status, wk, poll, dagHash, local, health, monitor, logFails>>

\* _persist_context and the HSET of StrategyFSM.create; nothing is undone.
CreateState(x) ==
    /\ SubAt(x, "state")
    /\ \/ state' = [state EXCEPT ![x] = "queued"] /\ Moves(x, "insert") /\ Quiet /\ Free
       \/ /\ state' \in {state, [state EXCEPT ![x] = "queued"]}
          /\ Answers(x, "failed", None) /\ Spend("redis")
    /\ UNCHANGED <<queue, lock, dag, status, wk, poll, dagHash, local, health, monitor, logFails>>

\* insert_strategy and the INIT event.
InsertStatus(x) ==
    /\ SubAt(x, "insert")
    /\ \/ status' = [status EXCEPT ![x] = "queued"] /\ Answers(x, "accepted", x) /\ Free
       \/ /\ status' \in {status, [status EXCEPT ![x] = "queued"]}
          /\ Answers(x, "failed", None) /\ Spend("db")
    /\ UNCHANGED <<queue, lock, dag, state, wk, poll, dagHash, local, health, monitor, logFails>>

Submit(x) ==
    \/ Arrive(x) \/ SaveUnique(x) \/ FallbackGet(x) \/ FallbackSet(x)
    \/ FallbackAgain(x) \/ FallbackHset(x)
    \/ PublishSubmission(x) \/ Enqueue(x) \/ UndoHash(x) \/ UndoDag(x)
    \/ CreateState(x) \/ InsertStatus(x)

-----------------------------------------------------------------------------
(* DegradationManager.update *)

\* _check_dependencies and evaluate: a level for the failures among Redis and DAG
\* Manager, raised by the database, the WorldService and the CPU load.
Check(dagOk, redisOk) ==
    /\ monitor.pc = "sleep"
    /\ health' = [health EXCEPT !.dagOk = dagOk, !.redisOk = redisOk]
    /\ \E n \in Level :
         /\ n >= Cardinality({i \in {1, 2} : ~<<dagOk, redisOk>>[i]})
         /\ monitor' = [pc |-> "flush", level |-> n]
    /\ UNCHANGED <<qvars, dagHash, sub, reply, local, logFails>>

\* Defect variant of FlushPush: the local queue is flushed as soon as Redis is there.
FlushPushEarly ==
    /\ monitor.pc = "flush"
    /\ local # <<>> /\ health.redisOk
    /\ queue' = queue \o local /\ monitor' = [monitor EXCEPT !.pc = "clear"] /\ Free
    /\ UNCHANGED <<lock, dag, state, status, wk, poll, dagHash, sub, reply, local, health, logFails>>

\* _flush_local_queue: one RPUSH of everything; after an error the local queue is
\* kept and flushed again by the next update.
FlushPush ==
    /\ monitor.pc = "flush"
    /\ local # <<>> /\ health.dagOk /\ health.redisOk
    /\ \/ queue' = queue \o local /\ monitor' = [monitor EXCEPT !.pc = "clear"] /\ Free
       \/ /\ Spend("redis")
          /\ queue' \in {queue, queue \o local}
          /\ monitor' = [monitor EXCEPT !.pc = "level"]
    /\ UNCHANGED <<lock, dag, state, status, wk, poll, dagHash, sub, reply, local, health, logFails>>

FlushSkip ==
    /\ monitor.pc = "flush"
    /\ local = <<>> \/ ~health.dagOk \/ ~health.redisOk
    /\ monitor' = [monitor EXCEPT !.pc = "level"]
    /\ UNCHANGED <<qvars, dagHash, sub, reply, local, health, logFails>>

\* local_queue.clear() after the answer to the RPUSH.
FlushClear ==
    /\ monitor.pc = "clear"
    /\ local' = <<>>
    /\ monitor' = [monitor EXCEPT !.pc = "level"]
    /\ UNCHANGED <<qvars, dagHash, sub, reply, health, logFails>>

\* The computed level is published.
SetLevel ==
    /\ monitor.pc = "level"
    /\ health' = [health EXCEPT !.level = monitor.level]
    /\ monitor' = [pc |-> "sleep", level |-> 0]
    /\ UNCHANGED <<qvars, dagHash, sub, reply, local, logFails>>

Update == FlushPush \/ FlushSkip \/ FlushClear \/ SetLevel

Next ==
    \/ \E x \in Strategy : Submit(x)
    \/ \E dagOk, redisOk \in BOOLEAN : Check(dagOk, redisOk)
    \/ Update
    \/ QueueNext /\ UNCHANGED ivars

Spec == IntakeInit /\ [][Next]_vars

\* Requests and workers go on, the monitor's loop runs, and the DAG Manager is back
\* again and again.
FairSpec ==
    /\ Spec
    /\ \A x \in Strategy : WF_vars(~SubAt(x, "new") /\ Submit(x))
    /\ \A w \in Worker : WF_vars(WorkerStep(w) /\ UNCHANGED ivars)
    /\ WF_vars(Update)
    /\ SF_vars(Check(TRUE, TRUE))

-----------------------------------------------------------------------------
(***************************************************************************)
(* Properties.                                                              *)
(***************************************************************************)

\* Every variable has its type; a submission is answered exactly when it is done.
IntakeTypeOK ==
    /\ TypeOK
    /\ dagHash \in [Dag -> Strategy \cup {None}]
    /\ sub \in [Strategy -> SubPc]
    /\ \A x \in Strategy : IF SubAt(x, "done")
         THEN reply[x] \in [kind : ReplyKind, id : Strategy \cup {None}]
         ELSE reply[x] = None
    /\ local \in Seq(Strategy)
    /\ health \in [dagOk : BOOLEAN, redisOk : BOOLEAN, level : Level]
    /\ monitor \in [pc : {"sleep", "flush", "clear", "level"}, level : Level]

Accepted(x) == SubAt(x, "done") /\ reply[x].kind = "accepted"

\* Unless a call of Redis or the database fails, an accepted strategy is somewhere
\* until it is completed, through the local queue, its flush and the hands of a
\* worker that met it before it was created.
AcceptedIsKept ==
    Undisturbed => \A x \in Strategy : Accepted(x) =>
        \/ state[x] = "completed"
        \/ \E k \in DOMAIN queue : queue[k] = x
        \/ \E k \in DOMAIN local : local[k] = x
        \/ \E w \in Worker : Holds(w, x)

\* A DAG is accepted once, whichever of two concurrent submissions falls back to the
\* calls without a script or is rolled back.
AcceptedOncePerDag ==
    /\ IntakeTypeOK
    /\ \A x, y \in Strategy : Accepted(x) /\ Accepted(y) /\ DagOf[x] = DagOf[y] => x = y

\* An accepted strategy is not kept waiting for ever: a worker completes it, or its
\* handler has failed, unless a call of Redis or the database fails.
AcceptedSettles ==
    \A x \in Strategy : Accepted(x) ~> state[x] \in {"completed", "failed"} \/ ~Undisturbed
=============================================================================
