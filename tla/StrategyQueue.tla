---------------------------- MODULE StrategyQueue ----------------------------
(***************************************************************************)
(* The Gateway's strategy queue and its workers: RedisTaskQueue (a Redis list *)
(* with one lock key per strategy), StrategyFSM (the strategy's state in Redis *)
(* with a copy in the database) and StrategyWorker.run_once.                  *)
(*                                                                         *)
(* A step of a worker is one round trip to Redis, the database or the DAG     *)
(* Manager; steps of several workers interleave.  A Redis call that fails may  *)
(* have been executed: only its answer is lost.                               *)
(***************************************************************************)
EXTENDS Naturals, Sequences, FiniteSets, Optional

CONSTANTS
    Worker, Strategy,
    InitialQueues,      \* contents the Redis list may start with
    MaxExpiries,        \* lock keys that reach their TTL
    MaxDenials,         \* refusals of the ownership manager
    MaxWorkFails,       \* failing diffs or handlers
    MaxRedisFails, MaxDbFails, MaxCrashes,
    Mixes               \* which of these may happen in one behaviour

FsmState == {"queued", "processing", "completed", "failed"}
Event    == {"PROCESS", "COMPLETE", "FAIL", "RETRY"}

\* The Machine of StrategyFSM: current state, event, next state.
Machine ==
    { <<"queued", "PROCESS", "processing">>,
      <<"processing", "COMPLETE", "completed">>,
      <<"processing", "FAIL", "failed">>,
      <<"failed", "RETRY", "processing">> }

ASSUME QueueConstants ==
    /\ InitialQueues \subseteq Seq(Strategy)
    /\ MaxExpiries \in Nat /\ MaxDenials \in Nat /\ MaxWorkFails \in Nat
    /\ MaxRedisFails \in Nat /\ MaxDbFails \in Nat /\ MaxCrashes \in Nat
    /\ Mixes \subseteq SUBSET {"expiries", "denials", "work", "redis", "db", "crashes"}
    /\ None \notin Worker \cup Strategy \cup FsmState \cup Event

VARIABLES
    queue,      \* the Redis list strategy_queue
    lock,       \* lock:{id} -> owner
    dag,        \* strategies whose hash holds a dag
    state,      \* the state field of the hash strategy:{id}
    status,     \* strategies.status in the database
    wk,         \* the workers
    poll,       \* a GET /strategies/{id}/status in progress
    spent       \* how much of each bound has been used

qvars == <<queue, lock, dag, state, status, wk, poll, spent>>

\* pc: the call the worker makes next.  item: the strategy it works on.  ev: the
\* FSM event it sends, seen: the state it has read.  back: push the item back
\* after the release.
WorkerState ==
    [pc   : {"idle", "lock", "pop", "acquire", "get", "getDb", "cache", "write",
             "record", "work", "relGet", "relDel", "push"},
     item : Strategy \cup {None},
     ev   : Event \cup {None},
     seen : FsmState \cup {None},
     back : BOOLEAN]

Idle == [pc |-> "idle", item |-> None, ev |-> None, seen |-> None, back |-> FALSE]

Bounds == [expiries |-> MaxExpiries, denials |-> MaxDenials, work |-> MaxWorkFails,
           redis |-> MaxRedisFails, db |-> MaxDbFails, crashes |-> MaxCrashes]

\* One more of bound b is spent, in a mix with those spent before.
Spend(b) == /\ spent[b] < Bounds[b]
            /\ \E m \in Mixes : {b} \cup {c \in DOMAIN Bounds : spent[c] > 0} \subseteq m
            /\ spent' = [spent EXCEPT ![b] = @ + 1]
Free == UNCHANGED spent

-----------------------------------------------------------------------------
QueueInit ==
    /\ queue \in InitialQueues
    /\ lock = [s \in Strategy |-> None]
    /\ dag = Strategy
    /\ state = [s \in Strategy |-> "queued"]
    /\ status = [s \in Strategy |-> "queued"]
    /\ wk = [w \in Worker |-> Idle]
    /\ poll = [item |-> None, seen |-> None]
    /\ spent = [b \in DOMAIN Bounds |-> 0]

At(w, pc) == wk[w].pc = pc
Item(w) == wk[w].item

\* Worker w goes on at pc.
GoOn(w, pc) == wk' = [wk EXCEPT ![w].pc = pc]

\* Defect variant of Released: the item is not forgotten.
ReleasedKeeping(w) == GoOn(w, IF wk[w].back THEN "push" ELSE "idle")

\* What the release is followed by.
Released(w) ==
    wk' = [wk EXCEPT ![w] = IF wk[w].back THEN [wk[w] EXCEPT !.pc = "push"] ELSE Idle]

\* Worker w ends the processing and gives the lock back.
Leave(w, back) == wk' = [wk EXCEPT ![w] = [@ EXCEPT !.pc = "relGet", !.back = back]]

\* Worker w begins to send an event to the FSM.
Send(w, ev) == wk' = [wk EXCEPT ![w] = [@ EXCEPT !.pc = "get", !.ev = ev, !.seen = None]]

\* An exception in _process: FAIL is sent once; when that raises too, the
\* exception passes through the finally block of run_once.
Raise(w) == IF wk[w].ev = "FAIL" THEN Leave(w, TRUE) ELSE Send(w, "FAIL")

-----------------------------------------------------------------------------
(* RedisTaskQueue.pop *)

\* LINDEX.
Look(w) ==
    /\ At(w, "idle")
    /\ queue # <<>>
    /\ wk' = [wk EXCEPT ![w] = [Idle EXCEPT !.pc = "lock", !.item = Head(queue)]]
    /\ Free
    /\ UNCHANGED <<queue, lock, dag, state, status, poll>>

\* Defect variant of SetLock: the key is set without NX.
SetLockAlways(w) ==
    /\ At(w, "lock")
    /\ lock' = [lock EXCEPT ![Item(w)] = w]
    /\ GoOn(w, "pop") /\ Free
    /\ UNCHANGED <<queue, dag, state, status, poll>>

\* SET NX PX: an existing lock, or an error, ends the pop.
SetLock(w) ==
    /\ At(w, "lock")
    /\ \/ /\ lock[Item(w)] = None
          /\ lock' = [lock EXCEPT ![Item(w)] = w]
          /\ GoOn(w, "pop") /\ Free
       \/ /\ lock[Item(w)] # None
          /\ wk' = [wk EXCEPT ![w] = Idle]
          /\ UNCHANGED lock /\ Free
       \/ /\ lock[Item(w)] = None /\ Spend("redis")
          /\ lock' \in {lock, [lock EXCEPT ![Item(w)] = w]}
          /\ wk' = [wk EXCEPT ![w] = Idle]
    /\ UNCHANGED <<queue, dag, state, status, poll>>

\* LPOP: an element other than the one that was looked at is dropped.
Pop(w) ==
    /\ At(w, "pop")
    /\ \/ /\ queue # <<>> /\ Head(queue) = Item(w)
          /\ queue' = Tail(queue)
          /\ GoOn(w, "acquire") /\ Free
       \/ /\ queue # <<>> /\ Head(queue) # Item(w)
          /\ queue' = Tail(queue)
          /\ Leave(w, FALSE) /\ Free
       \/ /\ queue = <<>>
          /\ UNCHANGED queue
          /\ Leave(w, FALSE) /\ Free
       \/ /\ queue # <<>> /\ Spend("redis")
          /\ queue' \in {queue, Tail(queue)}
          /\ Leave(w, FALSE)
    /\ UNCHANGED <<lock, dag, state, status, poll>>

(* RedisTaskQueue.release and push *)

\* GET: who owns the lock?
ReleaseGet(w) ==
    /\ At(w, "relGet")
    /\ \/ lock[Item(w)] = w /\ GoOn(w, "relDel") /\ Free
       \/ lock[Item(w)] # w /\ Released(w) /\ Free
       \/ Released(w) /\ Spend("redis")
    /\ UNCHANGED <<queue, lock, dag, state, status, poll>>

\* DELETE, whoever owns the lock by now.
ReleaseDel(w) ==
    /\ At(w, "relDel")
    /\ \/ lock' = [lock EXCEPT ![Item(w)] = None] /\ Free
       \/ UNCHANGED lock /\ Spend("redis")
    /\ Released(w)
    /\ UNCHANGED <<queue, dag, state, status, poll>>

\* RPUSH: the answer of push is not looked at.
Push(w) ==
    /\ At(w, "push")
    /\ \/ queue' = Append(queue, Item(w)) /\ Free
       \/ UNCHANGED queue /\ Spend("redis")
    /\ wk' = [wk EXCEPT ![w] = Idle]
    /\ UNCHANGED <<lock, dag, state, status, poll>>

-----------------------------------------------------------------------------
(* StrategyWorker._process *)

\* Defect variant of Acquire: a refused strategy is not put back.
AcquireOrDrop(w) ==
    /\ At(w, "acquire")
    /\ \/ Send(w, "PROCESS") /\ Free
       \/ Leave(w, FALSE) /\ Spend("denials")
    /\ UNCHANGED <<queue, lock, dag, state, status, poll>>

\* The ownership manager (a Kafka assignment or a database lock) may refuse.
Acquire(w) ==
    /\ At(w, "acquire")
    /\ \/ Send(w, "PROCESS") /\ Free
       \/ Leave(w, TRUE) /\ Spend("denials")
    /\ UNCHANGED <<queue, lock, dag, state, status, poll>>

\* The event is sent from a state that was read: on with the write, or an error.
Decided(w, seen) ==
    IF \E m \in Machine : m[1] = seen /\ m[2] = wk[w].ev
    THEN wk' = [wk EXCEPT ![w] = [@ EXCEPT !.pc = "write", !.seen = seen]]
    ELSE Raise(w)

\* StrategyFSM.get: HGET.  Without an answer the database is asked.
Get(w) ==
    /\ At(w, "get")
    /\ \/ state[Item(w)] # None /\ Decided(w, state[Item(w)]) /\ Free
       \/ state[Item(w)] = None /\ GoOn(w, "getDb") /\ Free
       \/ state[Item(w)] # None /\ GoOn(w, "getDb") /\ Spend("redis")
    /\ UNCHANGED <<queue, lock, dag, state, status, poll>>

\* get_status.
GetDb(w) ==
    /\ At(w, "getDb")
    /\ \/ /\ status[Item(w)] # None /\ Free
          /\ wk' = [wk EXCEPT ![w] = [@ EXCEPT !.pc = "cache", !.seen = status[Item(w)]]]
       \/ status[Item(w)] = None /\ Raise(w) /\ Free
       \/ Raise(w) /\ Spend("db")
    /\ UNCHANGED <<queue, lock, dag, state, status, poll>>

\* The state that the database has is written to Redis; an error is ignored.
Cache(w) ==
    /\ At(w, "cache")
    /\ \/ state' = [state EXCEPT ![Item(w)] = wk[w].seen] /\ Free
       \/ UNCHANGED state /\ Spend("redis")
    /\ Decided(w, wk[w].seen)
    /\ UNCHANGED <<queue, lock, dag, status, poll>>

NextState(w) == (CHOOSE m \in Machine : m[1] = wk[w].seen /\ m[2] = wk[w].ev)[3]

\* StrategyFSM.transition: HSET of the new state.
Write(w) ==
    /\ At(w, "write")
    /\ \/ /\ state' = [state EXCEPT ![Item(w)] = NextState(w)]
          /\ GoOn(w, "record") /\ Free
       \/ /\ state' \in {state, [state EXCEPT ![Item(w)] = NextState(w)]}
          /\ Raise(w) /\ Spend("redis")
    /\ UNCHANGED <<queue, lock, dag, status, poll>>

\* Where a finished transition leads.
Sent(w) ==
    CASE wk[w].ev = "PROCESS"  -> GoOn(w, "work")
      [] wk[w].ev = "COMPLETE" -> Leave(w, FALSE)
      [] wk[w].ev = "FAIL"     -> Leave(w, TRUE)

\* Defect variant of RecordStatus: only Redis is updated.
RecordNothing(w) ==
    /\ At(w, "record")
    /\ Sent(w) /\ Free
    /\ UNCHANGED <<queue, lock, dag, state, status, poll>>

\* set_status (an UPDATE: no row, no effect) and append_event.
RecordStatus(w) ==
    /\ At(w, "record")
    /\ \/ /\ status' = [status EXCEPT ![Item(w)] = IF @ = None THEN None ELSE NextState(w)]
          /\ Sent(w) /\ Free
       \/ /\ status' \in {status, [status EXCEPT ![Item(w)] = IF @ = None THEN None ELSE NextState(w)]}
          /\ Raise(w) /\ Spend("db")
    /\ UNCHANGED <<queue, lock, dag, state, poll>>

\* The context is loaded, the diff is asked for, the queue map is broadcast and
\* the handler runs.  What raises on the way, a missing dag included, is a failure.
Work(w) ==
    /\ At(w, "work")
    /\ \/ Item(w) \in dag /\ Send(w, "COMPLETE") /\ Free
       \/ Send(w, "FAIL") /\ IF Item(w) \in dag THEN Spend("work") ELSE Free
    /\ UNCHANGED <<queue, lock, dag, state, status, poll>>

-----------------------------------------------------------------------------
(* The environment *)

\* A lock key reaches its TTL.
Expire(s) ==
    /\ lock[s] # None
    /\ lock' = [lock EXCEPT ![s] = None]
    /\ Spend("expiries")
    /\ UNCHANGED <<queue, dag, state, status, wk, poll>>

\* The process of a worker ends.
Crash(w) ==
    /\ ~At(w, "idle")
    /\ wk' = [wk EXCEPT ![w] = Idle]
    /\ Spend("crashes")
    /\ UNCHANGED <<queue, lock, dag, state, status, poll>>

\* StrategyManager.status is StrategyFSM.get: when Redis does not answer, the
\* state in the database is read ...
StatusRead(s) ==
    /\ poll.item = None
    /\ status[s] # None
    /\ poll' = [item |-> s, seen |-> status[s]]
    /\ Spend("redis")
    /\ UNCHANGED <<queue, lock, dag, state, status, wk>>

\* ... and written to Redis, unless that fails too.
StatusCache ==
    /\ poll.item # None
    /\ \/ state' = [state EXCEPT ![poll.item] = poll.seen] /\ Free
       \/ UNCHANGED state /\ Spend("redis")
    /\ poll' = [item |-> None, seen |-> None]
    /\ UNCHANGED <<queue, lock, dag, status, wk>>

WorkerStep(w) ==
    \/ Look(w) \/ SetLock(w) \/ Pop(w) \/ Acquire(w)
    \/ Get(w) \/ GetDb(w) \/ Cache(w) \/ Write(w) \/ RecordStatus(w) \/ Work(w)
    \/ ReleaseGet(w) \/ ReleaseDel(w) \/ Push(w)

QueueNext ==
    \/ \E w \in Worker : WorkerStep(w)
    \/ \E s \in Strategy : Expire(s)
    \/ \E w \in Worker : Crash(w)
    \/ \E s \in Strategy : StatusRead(s)
    \/ StatusCache

QueueSpec == QueueInit /\ [][QueueNext]_qvars

-----------------------------------------------------------------------------
(***************************************************************************)
(* Properties.                                                              *)
(***************************************************************************)

\* Every variable has its type, and a worker has an item unless it is idle.
TypeOK ==
    /\ queue \in Seq(Strategy)
    /\ lock \in [Strategy -> Worker \cup {None}]
    /\ dag \subseteq Strategy
    /\ state \in [Strategy -> FsmState \cup {None}]
    /\ status \in [Strategy -> FsmState \cup {None}]
    /\ wk \in [Worker -> WorkerState]
    /\ \A w \in Worker : Item(w) = None <=> At(w, "idle")
    /\ poll \in [item : Strategy \cup {None}, seen : FsmState \cup {None}]
    /\ spent \in [DOMAIN Bounds -> Nat]

Processing == {"acquire", "get", "getDb", "cache", "write", "record", "work"}

\* No lock has been lost to its TTL so far: the owner of a lock that expires is not
\* told and goes on.
Unexpired == spent["expiries"] = 0

\* Redis and the database have answered every call and no worker has crashed.
Undisturbed == spent["redis"] + spent["db"] + spent["crashes"] = 0

\* R-3.1: until a lock expires, a strategy is in the hands of one worker at a time,
\* even when the queue holds it twice and calls to Redis fail with an unknown outcome.
OneHolder ==
    Unexpired =>
        \A v, w \in Worker : v # w /\ wk[v].pc \in Processing /\ wk[w].pc \in Processing
            => Item(v) # Item(w)

\* Until a lock expires or a call fails, the state in Redis moves along the edges of
\* the machine although it is read and written in two calls.
FsmSteps ==
    [][\A s \in Strategy : Unexpired /\ Undisturbed' /\ state'[s] # state[s] =>
          \E m \in Machine : m[1] = state[s] /\ m[3] = state'[s]]_qvars

\* Unless a transition is between its two writes, a call has failed or a lock has
\* expired, the database has the state that Redis has: falling back to it answers the same.
StatusAgrees ==
    Unexpired /\ Undisturbed => \A s \in Strategy :
        status[s] = state[s] \/ \E w \in Worker : At(w, "record") /\ Item(w) = s

\* Worker w has taken s from the queue and is not through with it.
Holds(w, s) ==
    Item(w) = s /\ (wk[w].pc \in Processing \/ wk[w].back)

\* Loss-free queuing (G-01): a strategy that is not completed is in the queue or in
\* the hands of a worker.
NothingLost ==
    \A s \in Strategy :
        \/ state[s] = "completed"
        \/ \E k \in DOMAIN queue : queue[k] = s
        \/ \E w \in Worker : Holds(w, s)

\* "Release the Redis lock for item if held by owner": until a lock expires,
\* GET and DELETE being two calls do no harm: a key is deleted by its owner only.
ReleasesOwnLock ==
    [][\A w \in Worker : Unexpired /\ At(w, "relDel") /\ wk'[w].pc # "relDel" /\ lock' # lock
          => lock[Item(w)] = w]_qvars

=============================================================================
