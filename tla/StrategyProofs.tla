--------------------------- MODULE StrategyProofs ---------------------------
(***************************************************************************)
(* Proofs about StrategyQueue for any number of workers, strategies,           *)
(* duplicates in the queue, failing calls and crashes: type correctness; R-3.1 *)
(* (one holder per strategy) and that a release deletes its own lock only, as  *)
(* long as no lock key reaches its TTL; and that Redis, whose state is read    *)
(* and written in two calls, moves along the edges of the machine with the     *)
(* database behind it, as long as both answer.                                 *)
(*                                                                         *)
(* And about StrategyIntake, on top of it: a DAG is accepted once, for any     *)
(* number of submissions, workers and failing calls of Redis, the database and *)
(* the commit log, with the queue's workers and the degradation monitor        *)
(* running; and one worker loses no accepted strategy as long as Redis and the *)
(* database answer.                                                           *)
(***************************************************************************)
EXTENDS StrategyIntake, TLAPS

-----------------------------------------------------------------------------
(* StrategyQueue *)

\* The bounds are only counted.
LEMMA SpendType ==
    ASSUME spent \in [DOMAIN Bounds -> Nat], NEW b \in DOMAIN Bounds, Spend(b)
    PROVE  spent' \in [DOMAIN Bounds -> Nat]
BY DEF Spend

\* A well-formed worker: it has an item unless it is idle, it never sends RETRY,
\* and while it writes it has chosen an edge of the machine.
Good(r) ==
    /\ r \in WorkerState
    /\ r.item = None <=> r.pc = "idle"
    /\ r.ev # "RETRY"
    /\ r.pc = "cache" => r.seen # None
    /\ r.pc \in {"write", "record"} =>
          \E m \in Machine : m[1] = r.seen /\ m[2] = r.ev

GoodWorkers == wk \in [Worker -> WorkerState] /\ \A v \in Worker : Good(wk[v])

TypeInv == TypeOK /\ GoodWorkers

\* One worker's record is replaced by a well-formed one.
LEMMA Replaced ==
    ASSUME GoodWorkers, NEW w \in Worker, NEW r, Good(r), wk' = [wk EXCEPT ![w] = r]
    PROVE  GoodWorkers'
<1>1. r \in WorkerState
  BY DEF Good
<1>2. wk' \in [Worker -> WorkerState]
  BY <1>1 DEF GoodWorkers
<1>3. ASSUME NEW v \in Worker PROVE Good(wk'[v])
  <2>1. CASE v = w
    BY <2>1 DEF GoodWorkers
  <2>2. CASE v # w
    BY <2>2 DEF GoodWorkers
  <2>3. QED
    BY <2>1, <2>2
<1>4. QED
  BY <1>2, <1>3 DEF GoodWorkers

\* The idle record is well-formed.
LEMMA GoodIdle == Good(Idle)
BY QueueConstants DEF Good, Idle, WorkerState, Event

\* A worker that becomes idle is well-formed.
LEMMA ToIdle ==
    ASSUME GoodWorkers, NEW w \in Worker, wk' = [wk EXCEPT ![w] = Idle]
    PROVE  GoodWorkers'
BY Replaced, GoodIdle

\* GoOn keeps the workers well-formed; only a chosen edge leads to the record step.
LEMMA GoOnGood ==
    ASSUME GoodWorkers, NEW w \in Worker, Item(w) # None,
           NEW pc \in {"pop", "acquire", "getDb", "record", "work", "relDel"}, GoOn(w, pc),
           pc = "record" => At(w, "write")
    PROVE  GoodWorkers'
<1> DEFINE r == [wk[w] EXCEPT !.pc = pc]
<1>1. Good(wk[w]) /\ wk[w] \in WorkerState
  BY DEF GoodWorkers
<1>2. r \in WorkerState
  BY <1>1 DEF WorkerState
<1>3. r.item = wk[w].item /\ r.ev = wk[w].ev /\ r.seen = wk[w].seen /\ r.pc = pc
  BY <1>1 DEF WorkerState
<1>4. Good(r)
  BY <1>1, <1>2, <1>3 DEF Good, Item, At
<1>5. wk' = [wk EXCEPT ![w] = r]
  BY DEF GoOn
<1>6. QED
  BY <1>4, <1>5, Replaced

\* Leave keeps the workers well-formed.
LEMMA LeaveGood ==
    ASSUME GoodWorkers, NEW w \in Worker, Item(w) # None, NEW back \in BOOLEAN, Leave(w, back)
    PROVE  GoodWorkers'
<1> DEFINE r == [wk[w] EXCEPT !.pc = "relGet", !.back = back]
<1>1. Good(wk[w]) /\ wk[w] \in WorkerState
  BY DEF GoodWorkers
<1>2. r \in WorkerState
  BY <1>1 DEF WorkerState
<1>3. r.item = wk[w].item /\ r.ev = wk[w].ev /\ r.pc = "relGet"
  BY <1>1 DEF WorkerState
<1>4. Good(r)
  BY <1>1, <1>2, <1>3 DEF Good, Item
<1>5. wk' = [wk EXCEPT ![w] = r]
  BY DEF Leave
<1>6. QED
  BY <1>4, <1>5, Replaced

\* Send keeps the workers well-formed.
LEMMA SendGood ==
    ASSUME GoodWorkers, NEW w \in Worker, Item(w) # None,
           NEW ev \in {"PROCESS", "COMPLETE", "FAIL"}, Send(w, ev)
    PROVE  GoodWorkers'
<1> DEFINE r == [wk[w] EXCEPT !.pc = "get", !.ev = ev, !.seen = None]
<1>1. Good(wk[w]) /\ wk[w] \in WorkerState
  BY DEF GoodWorkers
<1>2. r \in WorkerState
  BY <1>1 DEF WorkerState, Event
<1>3. r.item = wk[w].item /\ r.ev = ev /\ r.pc = "get"
  BY <1>1 DEF WorkerState
<1>4. Good(r)
  BY <1>1, <1>2, <1>3 DEF Good, Item
<1>5. wk' = [wk EXCEPT ![w] = r]
  BY DEF Send
<1>6. QED
  BY <1>4, <1>5, Replaced

\* Raise keeps the workers well-formed.
LEMMA RaiseGood ==
    ASSUME GoodWorkers, NEW w \in Worker, Item(w) # None, Raise(w)
    PROVE  GoodWorkers'
BY LeaveGood, SendGood DEF Raise

\* Released keeps the workers well-formed.
LEMMA ReleasedGood ==
    ASSUME GoodWorkers, NEW w \in Worker, Item(w) # None, Released(w)
    PROVE  GoodWorkers'
<1> DEFINE r == [wk[w] EXCEPT !.pc = "push"]
<1>1. Good(wk[w]) /\ wk[w] \in WorkerState
  BY DEF GoodWorkers
<1>2. r \in WorkerState
  BY <1>1 DEF WorkerState
<1>3. r.item = wk[w].item /\ r.ev = wk[w].ev /\ r.pc = "push"
  BY <1>1 DEF WorkerState
<1>4. Good(r)
  BY <1>1, <1>2, <1>3 DEF Good, Item
<1>5. wk' = [wk EXCEPT ![w] = r] \/ wk' = [wk EXCEPT ![w] = Idle]
  BY DEF Released
<1>6. QED
  BY <1>4, <1>5, Replaced, ToIdle

\* Decided chooses an edge or raises.
LEMMA DecidedGood ==
    ASSUME GoodWorkers, NEW w \in Worker, Item(w) # None, NEW seen \in FsmState, Decided(w, seen)
    PROVE  GoodWorkers'
<1>1. CASE \E m \in Machine : m[1] = seen /\ m[2] = wk[w].ev
  <2> DEFINE r == [wk[w] EXCEPT !.pc = "write", !.seen = seen]
  <2>1. Good(wk[w]) /\ wk[w] \in WorkerState
    BY DEF GoodWorkers
  <2>2. r \in WorkerState
    BY <2>1 DEF WorkerState
  <2>3. r.item = wk[w].item /\ r.ev = wk[w].ev /\ r.pc = "write" /\ r.seen = seen
    BY <2>1 DEF WorkerState
  <2>4. Good(r)
    BY <1>1, <2>1, <2>2, <2>3 DEF Good, Item
  <2>5. wk' = [wk EXCEPT ![w] = r]
    BY <1>1 DEF Decided
  <2>6. QED
    BY <2>4, <2>5, Replaced
<1>2. CASE ~ \E m \in Machine : m[1] = seen /\ m[2] = wk[w].ev
  BY <1>2, RaiseGood DEF Decided
<1>3. QED
  BY <1>1, <1>2

\* The end of a transition keeps the workers well-formed.
LEMMA SentGood ==
    ASSUME GoodWorkers, NEW w \in Worker, Item(w) # None, At(w, "record"), Sent(w)
    PROVE  GoodWorkers'
<1>1. wk[w].ev \in {"PROCESS", "COMPLETE", "FAIL"}
  BY DEF GoodWorkers, Good, At, Machine
<1>2. GoOn(w, "work") \/ Leave(w, TRUE) \/ Leave(w, FALSE)
  BY <1>1 DEF Sent
<1>3. QED
  BY <1>2, GoOnGood, LeaveGood

\* The state that a chosen edge of the machine leads to.
LEMMA NextStateType ==
    ASSUME GoodWorkers, NEW w \in Worker, wk[w].pc \in {"write", "record"}
    PROVE  NextState(w) \in FsmState
<1>1. \E m \in Machine : m[1] = wk[w].seen /\ m[2] = wk[w].ev
  BY DEF GoodWorkers, Good
<1>2. \A m \in Machine : m[3] \in FsmState
  BY DEF Machine, FsmState
<1>3. QED
  BY <1>1, <1>2 DEF NextState

\* The initial states have the types and well-formed workers.
LEMMA TypeInit == QueueInit => TypeInv
<1> SUFFICES ASSUME QueueInit PROVE TypeInv
  OBVIOUS
<1>1. Good(Idle) /\ Idle \in WorkerState
  BY GoodIdle DEF Good
<1>2. GoodWorkers
  BY <1>1 DEF QueueInit, GoodWorkers
<1>3. \A w \in Worker : Item(w) = None <=> At(w, "idle")
  BY DEF QueueInit, Item, At, Idle
<1>4. spent \in [DOMAIN Bounds -> Nat]
  BY DEF QueueInit
<1>5. QED
  BY <1>2, <1>3, <1>4, QueueConstants DEF QueueInit, TypeInv, TypeOK, GoodWorkers, FsmState

\* Every step of QueueNext keeps the types and the form of the workers.
LEMMA TypeStep == TypeInv /\ [QueueNext]_qvars => TypeInv'
<1> SUFFICES ASSUME TypeInv, [QueueNext]_qvars PROVE TypeInv'
  OBVIOUS
<1> DEFINE Rest == /\ queue \in Seq(Strategy)
                   /\ lock \in [Strategy -> Worker \cup {None}]
                   /\ dag \subseteq Strategy
                   /\ state \in [Strategy -> FsmState \cup {None}]
                   /\ status \in [Strategy -> FsmState \cup {None}]
                   /\ poll \in [item : Strategy \cup {None}, seen : FsmState \cup {None}]
           Counted == spent \in [DOMAIN Bounds -> Nat]
<1>r. Rest /\ Counted
  BY DEF TypeInv, TypeOK
<1>g. GoodWorkers
  BY DEF TypeInv
<1>i. \A w \in Worker : wk[w].pc # "idle" => Item(w) # None /\ Item(w) \in Strategy
  BY <1>g DEF GoodWorkers, Good, Item, WorkerState
<1>q. queue # <<>> => Head(queue) \in Strategy /\ Tail(queue) \in Seq(Strategy)
  BY <1>r
<1>b. {"expiries", "denials", "work", "redis", "db", "crashes"} = DOMAIN Bounds
  BY DEF Bounds
<1>s. ASSUME NEW b \in DOMAIN Bounds, Spend(b) \/ Free PROVE Counted'
  BY <1>r, <1>s, SpendType DEF Free
<1>z. Rest' /\ Counted' /\ GoodWorkers' => TypeInv'
  BY DEF TypeInv, TypeOK, GoodWorkers, Good, Item, At
<1> HIDE DEF Counted
<1>1. ASSUME NEW w \in Worker, Look(w) PROVE TypeInv'
  <2>2. Counted'
    BY <1>s, <1>b, <1>1 DEF Look
  <2>3. GoodWorkers'
    <3> DEFINE r == [Idle EXCEPT !.pc = "lock", !.item = Head(queue)]
    <3>1. wk' = [wk EXCEPT ![w] = r]
      BY <1>1 DEF Look
    <3>2. Head(queue) \in Strategy
      BY <1>q, <1>1 DEF Look
    <3>3. Good(r)
      BY <3>2, QueueConstants DEF Good, Idle, WorkerState, Event
    <3>4. QED
      BY <1>g, <3>1, <3>3, Replaced
  <2>4. Rest'
    BY <1>r, <1>1 DEF Look
  <2>5. QED
    BY <1>z, <2>2, <2>3, <2>4
<1>2. ASSUME NEW w \in Worker, SetLock(w) PROVE TypeInv'
  <2>1. Item(w) # None /\ Item(w) \in Strategy
    BY <1>i, <1>2 DEF SetLock, At
  <2>2. Counted'
    BY <1>s, <1>b, <1>2 DEF SetLock
  <2>3. GoodWorkers'
    BY <1>g, <1>2, <2>1, GoOnGood, ToIdle DEF SetLock
  <2>4. Rest'
    BY <1>r, <1>2, <2>1 DEF SetLock
  <2>5. QED
    BY <1>z, <2>2, <2>3, <2>4
<1>3. ASSUME NEW w \in Worker, Pop(w) PROVE TypeInv'
  <2>1. Item(w) # None /\ Item(w) \in Strategy
    BY <1>i, <1>3 DEF Pop, At
  <2>2. Counted'
    BY <1>s, <1>b, <1>3 DEF Pop
  <2>3. GoodWorkers'
    BY <1>g, <1>3, <2>1, GoOnGood, LeaveGood DEF Pop
  <2>4. Rest'
    BY <1>r, <1>q, <1>3, <2>1 DEF Pop
  <2>5. QED
    BY <1>z, <2>2, <2>3, <2>4
<1>4. ASSUME NEW w \in Worker, Acquire(w) PROVE TypeInv'
  <2>1. Item(w) # None /\ Item(w) \in Strategy
    BY <1>i, <1>4 DEF Acquire, At
  <2>2. Counted'
    BY <1>s, <1>b, <1>4 DEF Acquire
  <2>3. GoodWorkers'
    BY <1>g, <1>4, <2>1, SendGood, LeaveGood DEF Acquire
  <2>4. Rest'
    BY <1>r, <1>4, <2>1 DEF Acquire
  <2>5. QED
    BY <1>z, <2>2, <2>3, <2>4
<1>5. ASSUME NEW w \in Worker, Get(w) PROVE TypeInv'
  <2>1. Item(w) # None /\ Item(w) \in Strategy
    BY <1>i, <1>5 DEF Get, At
  <2>2. Counted'
    BY <1>s, <1>b, <1>5 DEF Get
  <2>c. state[Item(w)] # None => state[Item(w)] \in FsmState
    BY <1>r, <2>1
  <2>3. GoodWorkers'
    BY <1>g, <1>5, <2>1, <2>c, DecidedGood, GoOnGood DEF Get
  <2>4. Rest'
    BY <1>r, <1>5, <2>1 DEF Get
  <2>5. QED
    BY <1>z, <2>2, <2>3, <2>4
<1>6. ASSUME NEW w \in Worker, GetDb(w) PROVE TypeInv'
  <2>1. Item(w) # None /\ Item(w) \in Strategy
    BY <1>i, <1>6 DEF GetDb, At
  <2>2. Counted'
    BY <1>s, <1>b, <1>6 DEF GetDb
  <2>3. GoodWorkers'
    <3> DEFINE r == [wk[w] EXCEPT !.pc = "cache", !.seen = status[Item(w)]]
    <3>1. CASE Raise(w)
      BY <1>g, <2>1, <3>1, RaiseGood
    <3>2. CASE wk' = [wk EXCEPT ![w] = r] /\ status[Item(w)] # None
      <4>1. wk[w] \in WorkerState /\ Good(wk[w])
        BY <1>g DEF GoodWorkers
      <4>2. status[Item(w)] \in FsmState
        BY <1>r, <2>1, <3>2
      <4>3. r \in WorkerState
        BY <4>1, <4>2 DEF WorkerState
      <4>4. r.item = wk[w].item /\ r.ev = wk[w].ev /\ r.pc = "cache" /\ r.seen # None
        BY <3>2, <4>1 DEF WorkerState
      <4>5. Good(r)
        BY <2>1, <4>1, <4>3, <4>4 DEF Good, Item
      <4>6. QED
        BY <1>g, <3>2, <4>5, Replaced
    <3>3. QED
      BY <1>6, <3>1, <3>2 DEF GetDb
  <2>4. Rest'
    BY <1>r, <1>6, <2>1 DEF GetDb
  <2>5. QED
    BY <1>z, <2>2, <2>3, <2>4
<1>7. ASSUME NEW w \in Worker, Cache(w) PROVE TypeInv'
  <2>1. Item(w) # None /\ Item(w) \in Strategy
    BY <1>i, <1>7 DEF Cache, At
  <2>2. Counted'
    BY <1>s, <1>b, <1>7 DEF Cache
  <2>c. wk[w].seen \in FsmState
    BY <1>g, <1>7 DEF Cache, At, GoodWorkers, Good, WorkerState
  <2>3. GoodWorkers'
    BY <1>g, <1>7, <2>1, <2>c, DecidedGood DEF Cache
  <2>4. Rest'
    BY <1>r, <1>7, <2>1, <2>c DEF Cache
  <2>5. QED
    BY <1>z, <2>2, <2>3, <2>4
<1>8. ASSUME NEW w \in Worker, Write(w) PROVE TypeInv'
  <2>1. Item(w) # None /\ Item(w) \in Strategy
    BY <1>i, <1>8 DEF Write, At
  <2>2. Counted'
    BY <1>s, <1>b, <1>8 DEF Write
  <2>3. GoodWorkers'
    BY <1>g, <1>8, <2>1, GoOnGood, RaiseGood DEF Write, At
  <2>n. NextState(w) \in FsmState
    BY <1>g, <1>8, NextStateType DEF Write, At
  <2>4. Rest'
    BY <1>r, <1>8, <2>1, <2>n DEF Write
  <2>5. QED
    BY <1>z, <2>2, <2>3, <2>4
<1>9. ASSUME NEW w \in Worker, RecordStatus(w) PROVE TypeInv'
  <2>1. Item(w) # None /\ Item(w) \in Strategy
    BY <1>i, <1>9 DEF RecordStatus, At
  <2>2. Counted'
    BY <1>s, <1>b, <1>9 DEF RecordStatus
  <2>3. GoodWorkers'
    BY <1>g, <1>9, <2>1, SentGood, RaiseGood DEF RecordStatus
  <2>n. NextState(w) \in FsmState
    BY <1>g, <1>9, NextStateType DEF RecordStatus, At
  <2>4. Rest'
    BY <1>r, <1>9, <2>1, <2>n DEF RecordStatus
  <2>5. QED
    BY <1>z, <2>2, <2>3, <2>4
<1>10. ASSUME NEW w \in Worker, Work(w) PROVE TypeInv'
  <2>1. Item(w) # None /\ Item(w) \in Strategy
    BY <1>i, <1>10 DEF Work, At
  <2>2. Counted'
    BY <1>s, <1>b, <1>10 DEF Work
  <2>3. GoodWorkers'
    BY <1>g, <1>10, <2>1, SendGood DEF Work
  <2>4. Rest'
    BY <1>r, <1>10, <2>1 DEF Work
  <2>5. QED
    BY <1>z, <2>2, <2>3, <2>4
<1>11. ASSUME NEW w \in Worker, ReleaseGet(w) PROVE TypeInv'
  <2>1. Item(w) # None /\ Item(w) \in Strategy
    BY <1>i, <1>11 DEF ReleaseGet, At
  <2>2. Counted'
    BY <1>s, <1>b, <1>11 DEF ReleaseGet
  <2>3. GoodWorkers'
    BY <1>g, <1>11, <2>1, GoOnGood, ReleasedGood DEF ReleaseGet
  <2>4. Rest'
    BY <1>r, <1>11, <2>1 DEF ReleaseGet
  <2>5. QED
    BY <1>z, <2>2, <2>3, <2>4
<1>12. ASSUME NEW w \in Worker, ReleaseDel(w) PROVE TypeInv'
  <2>1. Item(w) # None /\ Item(w) \in Strategy
    BY <1>i, <1>12 DEF ReleaseDel, At
  <2>2. Counted'
    BY <1>s, <1>b, <1>12 DEF ReleaseDel
  <2>3. GoodWorkers'
    BY <1>g, <1>12, <2>1, ReleasedGood DEF ReleaseDel
  <2>4. Rest'
    BY <1>r, <1>12, <2>1 DEF ReleaseDel
  <2>5. QED
    BY <1>z, <2>2, <2>3, <2>4
<1>13. ASSUME NEW w \in Worker, Push(w) PROVE TypeInv'
  <2>1. Item(w) # None /\ Item(w) \in Strategy
    BY <1>i, <1>13 DEF Push, At
  <2>2. Counted'
    BY <1>s, <1>b, <1>13 DEF Push
  <2>3. GoodWorkers'
    BY <1>g, <1>13, <2>1, ToIdle DEF Push
  <2>4. Rest'
    BY <1>r, <1>13, <2>1 DEF Push
  <2>5. QED
    BY <1>z, <2>2, <2>3, <2>4
<1>14. ASSUME NEW w \in Worker, Crash(w) PROVE TypeInv'
  <2>1. Item(w) # None /\ Item(w) \in Strategy
    BY <1>i, <1>14 DEF Crash, At
  <2>2. Counted'
    BY <1>s, <1>b, <1>14 DEF Crash
  <2>3. GoodWorkers'
    BY <1>g, <1>14, <2>1, ToIdle DEF Crash
  <2>4. Rest'
    BY <1>r, <1>14, <2>1 DEF Crash
  <2>5. QED
    BY <1>z, <2>2, <2>3, <2>4
<1>20. ASSUME NEW s \in Strategy, Expire(s) PROVE TypeInv'
  <2>1. Counted'
    BY <1>s, <1>b, <1>20 DEF Expire
  <2>2. Rest' /\ GoodWorkers'
    BY <1>r, <1>g, <1>20 DEF Expire, GoodWorkers
  <2>3. QED
    BY <1>z, <2>1, <2>2
<1>21. ASSUME NEW s \in Strategy, StatusRead(s) PROVE TypeInv'
  <2>1. Counted'
    BY <1>s, <1>b, <1>21 DEF StatusRead
  <2>2. Rest' /\ GoodWorkers'
    BY <1>r, <1>g, <1>21 DEF StatusRead, GoodWorkers
  <2>3. QED
    BY <1>z, <2>1, <2>2
<1>22. CASE StatusCache
  <2>1. Counted'
    BY <1>s, <1>b, <1>22 DEF StatusCache
  <2>2. Rest' /\ GoodWorkers'
    BY <1>r, <1>g, <1>22 DEF StatusCache, GoodWorkers
  <2>3. QED
    BY <1>z, <2>1, <2>2
<1>23. CASE UNCHANGED qvars
  <2>1. Rest' /\ Counted' /\ GoodWorkers'
    BY <1>r, <1>g, <1>23 DEF qvars, GoodWorkers, Counted
  <2>2. QED
    BY <1>z, <2>1
<1>24. QED
  BY <1>1, <1>2, <1>3, <1>4, <1>5, <1>6, <1>7, <1>8, <1>9, <1>10, <1>11, <1>12, <1>13, <1>14, <1>20, <1>21, <1>22, <1>23 DEF QueueNext, WorkerStep

\* Type correctness of the queue, the FSM and the workers.
THEOREM QueueTypeCorrect == QueueSpec => []TypeOK
<1>1. TypeInv => TypeOK
  BY DEF TypeInv
<1>2. QED
  BY <1>1, TypeInit, TypeStep, PTL DEF QueueSpec
-----------------------------------------------------------------------------
\* Where a worker owns the lock of its item.
Guarded == Processing \cup {"pop", "relGet", "relDel"}

\* The strengthening of OneHolder: from the SET NX to the DELETE the lock key names
\* the worker.
LockHeld == \A v \in Worker : wk[v].pc \in Guarded => lock[wk[v].item] = v

LockInv == TypeInv /\ (Unexpired => LockHeld)

\* A step in which no worker enters the guarded section or changes its item there.
Stays == \A v \in Worker : wk'[v].pc \in Guarded =>
            wk[v].pc \in Guarded /\ wk'[v].item = wk[v].item

\* One worker that is in the guarded section moves and keeps its item.
LEMMA OneStays ==
    ASSUME GoodWorkers, NEW w \in Worker, NEW r, wk' = [wk EXCEPT ![w] = r],
           r.pc \in Guarded => wk[w].pc \in Guarded /\ r.item = wk[w].item
    PROVE  Stays
BY DEF Stays, GoodWorkers

\* A worker that becomes idle leaves the guarded section.
LEMMA IdleStays ==
    ASSUME GoodWorkers, NEW w \in Worker, wk' = [wk EXCEPT ![w] = Idle]
    PROVE  Stays
<1>1. Idle.pc \notin Guarded
  BY DEF Idle, Guarded, Processing
<1>2. QED
  BY <1>1, OneStays

\* The moves inside the guarded section keep the worker's item.
LEMMA MoveStays ==
    ASSUME GoodWorkers, NEW w \in Worker, wk[w].pc \in Guarded,
           \/ \E pc \in {"pop", "acquire", "getDb", "record", "work", "relDel"} : GoOn(w, pc)
           \/ Leave(w, TRUE) \/ Leave(w, FALSE)
           \/ \E ev \in {"PROCESS", "COMPLETE", "FAIL"} : Send(w, ev)
           \/ Raise(w)
    PROVE  Stays
<1>w. wk[w] \in WorkerState
  BY DEF GoodWorkers
<1>1. ASSUME NEW pc \in {"pop", "acquire", "getDb", "record", "work", "relDel"}, GoOn(w, pc)
      PROVE  Stays
  <2>1. [wk[w] EXCEPT !.pc = pc].item = wk[w].item
    BY <1>w DEF WorkerState
  <2>2. QED
    BY <1>1, <2>1, OneStays DEF GoOn
<1>2. ASSUME NEW back \in BOOLEAN, Leave(w, back) PROVE Stays
  <2>1. [wk[w] EXCEPT !.pc = "relGet", !.back = back].item = wk[w].item
    BY <1>w DEF WorkerState
  <2>2. QED
    BY <1>2, <2>1, OneStays DEF Leave
<1>3. ASSUME NEW ev \in {"PROCESS", "COMPLETE", "FAIL"}, Send(w, ev) PROVE Stays
  <2>1. [wk[w] EXCEPT !.pc = "get", !.ev = ev, !.seen = None].item = wk[w].item
    BY <1>w DEF WorkerState
  <2>2. QED
    BY <1>3, <2>1, OneStays DEF Send
<1>4. QED
  BY <1>1, <1>2, <1>3 DEF Raise

\* So does the choice of an edge.
LEMMA DecidedStays ==
    ASSUME GoodWorkers, NEW w \in Worker, wk[w].pc \in Guarded, NEW seen, Decided(w, seen)
    PROVE  Stays
<1>1. [wk[w] EXCEPT !.pc = "write", !.seen = seen].item = wk[w].item
  BY DEF GoodWorkers, WorkerState
<1>2. wk' = [wk EXCEPT ![w] = [wk[w] EXCEPT !.pc = "write", !.seen = seen]] \/ Raise(w)
  BY DEF Decided
<1>3. QED
  BY <1>1, <1>2, OneStays, MoveStays

\* After a release the worker is outside the section.
LEMMA ReleasedLeaves ==
    ASSUME GoodWorkers, NEW w \in Worker, Released(w)
    PROVE  Stays /\ wk'[w].pc \notin Guarded
<1>w. wk[w] \in WorkerState /\ wk \in [Worker -> WorkerState]
  BY DEF GoodWorkers
<1>1. [wk[w] EXCEPT !.pc = "push"].pc \notin Guarded
  BY <1>w DEF WorkerState, Guarded, Processing
<1>2. Idle.pc \notin Guarded
  BY DEF Idle, Guarded, Processing
<1>3. wk' = [wk EXCEPT ![w] = [wk[w] EXCEPT !.pc = "push"]] \/ wk' = [wk EXCEPT ![w] = Idle]
  BY DEF Released
<1>4. QED
  BY <1>w, <1>1, <1>2, <1>3, OneStays

\* With the lock keys left alone, a step that Stays keeps LockHeld.
LEMMA StaysHeld ==
    ASSUME LockHeld, Stays, UNCHANGED lock
    PROVE  LockHeld'
BY DEF LockHeld, Stays

\* The count of the expired locks does not go down.
LEMMA ExpiriesGrow ==
    ASSUME TypeInv, [QueueNext]_qvars, Unexpired'
    PROVE  Unexpired
<1>t. spent \in [DOMAIN Bounds -> Nat]
  BY DEF TypeInv, TypeOK
<1>b. {"expiries", "denials", "work", "redis", "db", "crashes"} = DOMAIN Bounds
  BY DEF Bounds
<1>s. ASSUME NEW b \in DOMAIN Bounds, Spend(b) \/ Free PROVE Unexpired
  BY <1>t, <1>b, <1>s DEF Spend, Free, Unexpired
<1>1. ASSUME NEW w \in Worker, WorkerStep(w) PROVE Unexpired
  <2>1. CASE Look(w) \/ SetLock(w) \/ Pop(w) \/ Acquire(w)
    BY <1>s, <1>b, <2>1 DEF Look, SetLock, Pop, Acquire
  <2>2. CASE Get(w) \/ GetDb(w) \/ Cache(w) \/ Write(w)
    BY <1>s, <1>b, <2>2 DEF Get, GetDb, Cache, Write
  <2>3. CASE RecordStatus(w) \/ Work(w)
    BY <1>s, <1>b, <2>3 DEF RecordStatus, Work
  <2>4. CASE ReleaseGet(w) \/ ReleaseDel(w) \/ Push(w)
    BY <1>s, <1>b, <2>4 DEF ReleaseGet, ReleaseDel, Push
  <2>5. QED
    BY <1>1, <2>1, <2>2, <2>3, <2>4 DEF WorkerStep
<1>2. ASSUME NEW w \in Worker, Crash(w) PROVE Unexpired
  BY <1>s, <1>b, <1>2 DEF Crash
<1>3. ASSUME NEW s \in Strategy, Expire(s) \/ StatusRead(s) PROVE Unexpired
  BY <1>s, <1>b, <1>3 DEF Expire, StatusRead
<1>4. ASSUME StatusCache PROVE Unexpired
  BY <1>s, <1>b, <1>4 DEF StatusCache
<1>5. ASSUME UNCHANGED qvars PROVE Unexpired
  BY <1>5 DEF qvars, Unexpired
<1>6. QED
  BY <1>1, <1>2, <1>3, <1>4, <1>5 DEF QueueNext

\* Every step but an expiry keeps the lock with its owner.
LEMMA LockStep == LockInv /\ [QueueNext]_qvars => LockInv'
<1> SUFFICES ASSUME LockInv, [QueueNext]_qvars, Unexpired' PROVE LockHeld'
  BY TypeStep DEF LockInv
<1>u. Unexpired
  BY ExpiriesGrow DEF LockInv
<1>g. GoodWorkers /\ LockHeld /\ TypeInv
  BY <1>u DEF LockInv, TypeInv
<1>l. lock \in [Strategy -> Worker \cup {None}] /\ None \notin Worker
  BY <1>g, QueueConstants DEF TypeInv, TypeOK
<1>i. \A v \in Worker : wk[v].pc # "idle" => wk[v].item \in Strategy
  BY <1>g DEF GoodWorkers, Good, WorkerState
<1>k. \A v \in Worker : wk[v].pc \in Guarded => wk[v].item \in Strategy
  BY <1>i DEF Guarded, Processing
<1>1. ASSUME NEW w \in Worker, Look(w) PROVE LockHeld'
  <2>1. [Idle EXCEPT !.pc = "lock", !.item = Head(queue)].pc \notin Guarded
    BY DEF Idle, Guarded, Processing
  <2>2. Stays
    BY <1>g, <1>1, <2>1, OneStays DEF Look
  <2>3. QED
    BY <1>g, <1>1, <2>2, StaysHeld DEF Look
<1>2. ASSUME NEW w \in Worker, SetLock(w) PROVE LockHeld'
  <2>1. wk[w].pc = "lock" /\ wk[w].item \in Strategy /\ wk \in [Worker -> WorkerState]
    BY <1>g, <1>i, <1>2 DEF SetLock, At, GoodWorkers
  <2>2. CASE lock[Item(w)] = None /\ lock' = [lock EXCEPT ![Item(w)] = w] /\ GoOn(w, "pop")
    <3>1. ASSUME NEW v \in Worker, wk'[v].pc \in Guarded PROVE lock'[wk'[v].item] = v
      <4>1. CASE v = w
        <5>1. wk'[w].item = wk[w].item
          BY <2>1, <2>2 DEF GoOn, WorkerState
        <5>2. QED
          BY <1>l, <2>1, <2>2, <4>1, <5>1 DEF Item
      <4>2. CASE v # w
        <5>1. wk'[v] = wk[v]
          BY <2>1, <2>2, <4>2 DEF GoOn
        <5>2. lock[wk[v].item] = v /\ wk[v].item # Item(w)
          BY <1>g, <1>l, <2>2, <3>1, <5>1 DEF LockHeld
        <5>3. QED
          BY <1>l, <2>1, <2>2, <5>1, <5>2 DEF Item
      <4>3. QED
        BY <4>1, <4>2
    <3>2. QED
      BY <3>1 DEF LockHeld
  <2>3. CASE /\ wk' = [wk EXCEPT ![w] = Idle]
             /\ \/ UNCHANGED lock
                \/ lock[Item(w)] = None /\ lock' = [lock EXCEPT ![Item(w)] = w]
    <3>1. Stays
      BY <1>g, <2>3, IdleStays
    <3>2. \A v \in Worker : wk[v].item \in Strategy /\ lock[wk[v].item] = v
            => lock'[wk[v].item] = v
      BY <1>l, <2>1, <2>3 DEF Item
    <3>3. QED
      BY <1>g, <1>k, <3>1, <3>2 DEF LockHeld, Stays
  <2>4. QED
    BY <1>2, <2>2, <2>3 DEF SetLock
<1>3. ASSUME NEW w \in Worker,
             \/ Pop(w) \/ Acquire(w) \/ Get(w) \/ GetDb(w) \/ Cache(w) \/ Write(w)
             \/ RecordStatus(w) \/ Work(w)
      PROVE  LockHeld'
  <2>1. wk[w].pc \in Guarded /\ wk[w] \in WorkerState
    BY <1>g, <1>3 DEF Pop, Acquire, Get, GetDb, Cache, Write, RecordStatus, Work, At, Guarded,
       Processing, GoodWorkers
  <2>2. CASE Pop(w) \/ Acquire(w) \/ Write(w) \/ Work(w)
    <3>1. Stays
      BY <1>g, <2>1, <2>2, MoveStays DEF Pop, Acquire, Write, Work
    <3>2. QED
      BY <1>g, <2>2, <3>1, StaysHeld DEF Pop, Acquire, Write, Work
  <2>3. CASE Get(w) \/ Cache(w)
    <3>1. Stays
      BY <1>g, <2>1, <2>3, MoveStays, DecidedStays DEF Get, Cache
    <3>2. QED
      BY <1>g, <2>3, <3>1, StaysHeld DEF Get, Cache
  <2>4. CASE GetDb(w)
    <3>1. [wk[w] EXCEPT !.pc = "cache", !.seen = status[Item(w)]].item = wk[w].item
      BY <2>1 DEF WorkerState
    <3>2. Stays
      BY <1>g, <2>1, <2>4, <3>1, MoveStays, OneStays DEF GetDb
    <3>3. QED
      BY <1>g, <2>4, <3>2, StaysHeld DEF GetDb
  <2>5. CASE RecordStatus(w)
    <3>1. wk[w].ev \in {"PROCESS", "COMPLETE", "FAIL"}
      BY <1>g, <2>5 DEF RecordStatus, GoodWorkers, Good, At, Machine
    <3>2. GoOn(w, "work") \/ Leave(w, TRUE) \/ Leave(w, FALSE) \/ Raise(w)
      BY <2>5, <3>1 DEF RecordStatus, Sent
    <3>3. Stays
      BY <1>g, <2>1, <3>2, MoveStays
    <3>4. QED
      BY <1>g, <2>5, <3>3, StaysHeld DEF RecordStatus
  <2>6. QED
    BY <1>3, <2>2, <2>3, <2>4, <2>5
<1>4. ASSUME NEW w \in Worker, ReleaseGet(w) PROVE LockHeld'
  <2>1. wk[w].pc \in Guarded
    BY <1>4 DEF ReleaseGet, At, Guarded
  <2>2. Stays
    BY <1>g, <1>4, <2>1, MoveStays, ReleasedLeaves DEF ReleaseGet
  <2>3. QED
    BY <1>g, <1>4, <2>2, StaysHeld DEF ReleaseGet
<1>5. ASSUME NEW w \in Worker, ReleaseDel(w) PROVE LockHeld'
  <2>1. wk[w].pc \in Guarded /\ wk[w].item \in Strategy
    BY <1>i, <1>5 DEF ReleaseDel, At, Guarded
  <2>2. lock[Item(w)] = w
    BY <1>g, <2>1 DEF LockHeld, Item
  <2>3. Stays /\ wk'[w].pc \notin Guarded
    BY <1>g, <1>5, ReleasedLeaves DEF ReleaseDel
  <2>4. \A v \in Worker : v # w /\ wk[v].item \in Strategy /\ lock[wk[v].item] = v
          => lock'[wk[v].item] = v
    BY <1>l, <1>5, <2>1, <2>2 DEF ReleaseDel, Item
  <2>5. QED
    BY <1>g, <1>k, <2>3, <2>4 DEF LockHeld, Stays
<1>6. ASSUME NEW w \in Worker, Push(w) \/ Crash(w) PROVE LockHeld'
  <2>1. Stays
    BY <1>g, <1>6, IdleStays DEF Push, Crash
  <2>2. QED
    BY <1>g, <1>6, <2>1, StaysHeld DEF Push, Crash
<1>7. ASSUME NEW s \in Strategy, Expire(s) PROVE FALSE
  <2>1. spent \in [DOMAIN Bounds -> Nat] /\ "expiries" \in DOMAIN Bounds
    BY <1>g DEF TypeInv, TypeOK, Bounds
  <2>2. spent'["expiries"] = spent["expiries"] + 1
    BY <1>7, <2>1 DEF Expire, Spend
  <2>3. QED
    BY <1>u, <2>1, <2>2 DEF Unexpired
<1>8. ASSUME UNCHANGED <<wk, lock>> PROVE LockHeld'
  BY <1>g, <1>8 DEF LockHeld
<1>9. QED
  BY <1>1, <1>2, <1>3, <1>4, <1>5, <1>6, <1>7, <1>8
     DEF QueueNext, WorkerStep, StatusRead, StatusCache, qvars

\* No worker is in the guarded section at first.
LEMMA LockInit == QueueInit => LockInv
<1>1. QueueInit => LockHeld
  BY DEF QueueInit, LockHeld, Idle, Guarded, Processing
<1>2. QED
  BY <1>1, TypeInit DEF LockInv

\* R-3.1: as long as no lock has reached its TTL, a strategy is in the hands of at
\* most one worker, whatever the queue holds, whichever calls fail and whoever crashes.
THEOREM OneHolderAlways == QueueSpec => []OneHolder
<1>2. LockInv => OneHolder
  BY DEF LockInv, LockHeld, OneHolder, Guarded, Item
<1>3. QED
  BY <1>2, LockInit, LockStep, PTL DEF QueueSpec

\* A worker deletes the lock of its item only while the key names the worker itself.
LEMMA DeletesOwn ==
    ASSUME LockInv, NEW w \in Worker, Unexpired, At(w, "relDel")
    PROVE  lock[Item(w)] = w
BY DEF LockInv, LockHeld, Guarded, At, Item

\* RedisTaskQueue.release: as long as no lock has reached its TTL, the DELETE that
\* follows the GET as a call of its own removes no other worker's lock.
THEOREM ReleasesOwnLockAlways == QueueSpec => ReleasesOwnLock
<1>2. LockInv => \A w \in Worker : Unexpired /\ At(w, "relDel") => lock[Item(w)] = w
  BY DeletesOwn
<1>3. LockInv /\ [QueueNext]_qvars =>
        [\A w \in Worker : Unexpired /\ At(w, "relDel") /\ wk'[w].pc # "relDel" /\ lock' # lock
          => lock[Item(w)] = w]_qvars
  BY <1>2
<1>4. QED
  BY <1>3, LockInit, LockStep, PTL DEF QueueSpec, ReleasesOwnLock

-----------------------------------------------------------------------------
(* The state in Redis and its copy in the database *)

\* No lock has expired, no call has failed and no worker has crashed.
Calm == Unexpired /\ Undisturbed

\* As long as it is calm: the database is not asked, a worker that writes has read the
\* state that is still there, one that has written it has the copy to make, and apart
\* from that the two agree.
Agreed ==
    /\ poll.item = None
    /\ \A s \in Strategy : state[s] # None /\ status[s] # None
    /\ \A v \in Worker :
         /\ wk[v].pc \notin {"getDb", "cache"}
         /\ wk[v].pc = "write" => wk[v].seen = state[wk[v].item]
         /\ wk[v].pc = "record" => state[wk[v].item] = NextState(v)
    /\ \A s \in Strategy : status[s] = state[s]
                            \/ \E v \in Worker : wk[v].pc = "record" /\ wk[v].item = s

AgreeInv == LockInv /\ (Calm => Agreed)

\* What the calm rules out.
LEMMA CalmSpends ==
    ASSUME TypeInv, NEW b \in DOMAIN Bounds, Spend(b), Undisturbed'
    PROVE  b \notin {"redis", "db", "crashes"} /\ Undisturbed
<1>1. spent \in [DOMAIN Bounds -> Nat] /\ {"redis", "db", "crashes"} \subseteq DOMAIN Bounds
  BY DEF TypeInv, TypeOK, Bounds
<1>2. spent' = [spent EXCEPT ![b] = @ + 1]
  BY DEF Spend
<1>3. \A c \in DOMAIN Bounds : spent'[c] = IF c = b THEN spent[c] + 1 ELSE spent[c]
  BY <1>1, <1>2
<1>4. \A c \in {"redis", "db", "crashes"} : spent[c] \in Nat /\ spent'[c] \in Nat
  BY <1>1, <1>3
<1>5. \A c \in {"redis", "db", "crashes"} : spent'[c] = 0
  <2>1. spent'["redis"] \in Nat /\ spent'["db"] \in Nat /\ spent'["crashes"] \in Nat
    BY <1>4
  <2>2. spent'["redis"] + spent'["db"] + spent'["crashes"] = 0
    BY DEF Undisturbed
  <2>3. spent'["redis"] = 0 /\ spent'["db"] = 0 /\ spent'["crashes"] = 0
    BY <2>1, <2>2
  <2> QED
    BY <2>3
<1>6. b \notin {"redis", "db", "crashes"}
  BY <1>1, <1>3, <1>4, <1>5
<1> QED
  BY <1>1, <1>3, <1>5, <1>6 DEF Undisturbed

\* The counts of the failures do not go down.
LEMMA DisturbancesGrow ==
    ASSUME TypeInv, [QueueNext]_qvars, Undisturbed'
    PROVE  Undisturbed
<1>b. {"expiries", "denials", "work", "redis", "db", "crashes"} = DOMAIN Bounds
  BY DEF Bounds
<1>s. ASSUME NEW b \in DOMAIN Bounds, Spend(b) \/ Free PROVE Undisturbed
  BY <1>s, CalmSpends DEF Free, Undisturbed
<1>1. ASSUME NEW w \in Worker, WorkerStep(w) PROVE Undisturbed
  <2>1. CASE Look(w) \/ SetLock(w) \/ Pop(w) \/ Acquire(w)
    BY <1>s, <1>b, <2>1 DEF Look, SetLock, Pop, Acquire
  <2>2. CASE Get(w) \/ GetDb(w) \/ Cache(w) \/ Write(w)
    BY <1>s, <1>b, <2>2 DEF Get, GetDb, Cache, Write
  <2>3. CASE RecordStatus(w) \/ Work(w)
    BY <1>s, <1>b, <2>3 DEF RecordStatus, Work
  <2>4. CASE ReleaseGet(w) \/ ReleaseDel(w) \/ Push(w)
    BY <1>s, <1>b, <2>4 DEF ReleaseGet, ReleaseDel, Push
  <2>5. QED
    BY <1>1, <2>1, <2>2, <2>3, <2>4 DEF WorkerStep
<1>2. ASSUME NEW w \in Worker, Crash(w) PROVE Undisturbed
  BY <1>s, <1>b, <1>2 DEF Crash
<1>3. ASSUME NEW s \in Strategy, Expire(s) \/ StatusRead(s) PROVE Undisturbed
  BY <1>s, <1>b, <1>3 DEF Expire, StatusRead
<1>4. ASSUME StatusCache PROVE Undisturbed
  BY <1>s, <1>b, <1>4 DEF StatusCache
<1>5. ASSUME UNCHANGED qvars PROVE Undisturbed
  BY <1>5 DEF qvars, Undisturbed
<1>6. QED
  BY <1>1, <1>2, <1>3, <1>4, <1>5 DEF QueueNext

\* A worker moves to where it neither asks the database nor is about to write.
PlainMove(w) ==
    \E r : wk' = [wk EXCEPT ![w] = r] /\ r.pc \notin {"getDb", "cache", "write", "record"}

\* All that a worker does between its calls of the FSM is such a move.
LEMMA PlainMoves ==
    ASSUME GoodWorkers, NEW w \in Worker,
           \/ \E pc \in {"pop", "acquire", "work", "relDel", "push", "idle"} : GoOn(w, pc)
           \/ Leave(w, TRUE) \/ Leave(w, FALSE)
           \/ \E ev : Send(w, ev)
           \/ Raise(w) \/ Released(w) \/ wk' = [wk EXCEPT ![w] = Idle]
    PROVE  PlainMove(w)
<1>w. wk[w] \in WorkerState
  BY DEF GoodWorkers
<1>1. ASSUME NEW pc \in {"pop", "acquire", "work", "relDel", "push", "idle"}, GoOn(w, pc)
      PROVE  PlainMove(w)
  <2>1. [wk[w] EXCEPT !.pc = pc].pc = pc
    BY <1>w DEF WorkerState
  <2>2. wk' = [wk EXCEPT ![w] = [wk[w] EXCEPT !.pc = pc]]
    BY <1>1 DEF GoOn
  <2> QED
    BY <2>1, <2>2 DEF PlainMove
<1>2. ASSUME NEW back \in BOOLEAN, Leave(w, back) PROVE PlainMove(w)
  <2>1. [wk[w] EXCEPT !.pc = "relGet", !.back = back].pc = "relGet"
    BY <1>w DEF WorkerState
  <2> QED
    BY <1>2, <2>1 DEF Leave, PlainMove
<1>3. ASSUME NEW ev, Send(w, ev) PROVE PlainMove(w)
  <2>1. [wk[w] EXCEPT !.pc = "get", !.ev = ev, !.seen = None].pc = "get"
    BY <1>w DEF WorkerState
  <2> QED
    BY <1>3, <2>1 DEF Send, PlainMove
<1>4. CASE wk' = [wk EXCEPT ![w] = Idle]
  <2>1. Idle.pc = "idle"
    BY DEF Idle
  <2> QED
    BY <1>4, <2>1 DEF PlainMove
<1>5. CASE Released(w)
  <2>1. [wk[w] EXCEPT !.pc = "push"].pc = "push"
    BY <1>w DEF WorkerState
  <2>2. wk' = [wk EXCEPT ![w] = [wk[w] EXCEPT !.pc = "push"]] \/ wk' = [wk EXCEPT ![w] = Idle]
    BY <1>5 DEF Released
  <2> QED
    BY <1>4, <2>1, <2>2 DEF PlainMove
<1> QED
  BY <1>1, <1>2, <1>3, <1>4, <1>5 DEF Raise

\* The other workers stay where they are.
LEMMA OthersStay ==
    ASSUME GoodWorkers, NEW w \in Worker, NEW r, wk' = [wk EXCEPT ![w] = r]
    PROVE  wk'[w] = r /\ \A v \in Worker \ {w} : wk'[v] = wk[v] /\ NextState(v)' = NextState(v)
<1>1. wk'[w] = r /\ \A v \in Worker \ {w} : wk'[v] = wk[v]
  BY DEF GoodWorkers
<1> QED
  BY <1>1 DEF NextState

\* A worker that has no copy to make moves, and neither state nor copy changes.
LEMMA PlainAgrees ==
    ASSUME GoodWorkers, Agreed, NEW w \in Worker, wk[w].pc # "record", PlainMove(w),
           UNCHANGED <<state, status, poll>>
    PROVE  Agreed'
<1>1. PICK r : wk' = [wk EXCEPT ![w] = r] /\ r.pc \notin {"getDb", "cache", "write", "record"}
  BY DEF PlainMove
<1>2. /\ wk'[w].pc \notin {"getDb", "cache", "write", "record"}
      /\ \A v \in Worker \ {w} : wk'[v] = wk[v] /\ NextState(v)' = NextState(v)
  BY <1>1, OthersStay
<1>3. \A v \in Worker : wk[v].pc = "record" => wk'[v] = wk[v]
  BY <1>2
<1> QED
  BY <1>2, <1>3 DEF Agreed

\* HSET of the new state: nobody else has the strategy in hand, and the copy is due.
LEMMA WriteAgrees ==
    ASSUME TypeInv, LockHeld, Agreed, NEW w \in Worker, Write(w), Undisturbed'
    PROVE  /\ state' = [state EXCEPT ![wk[w].item] = NextState(w)] /\ wk[w].item \in Strategy
           /\ Agreed'
<1>1. GoodWorkers /\ wk[w] \in WorkerState /\ wk[w].pc = "write" /\ wk[w].item \in Strategy
      /\ state \in [Strategy -> FsmState \cup {None}]
  BY DEF TypeInv, TypeOK, GoodWorkers, Good, WorkerState, Write, At
<1>2. /\ state' = [state EXCEPT ![wk[w].item] = NextState(w)] /\ GoOn(w, "record")
      /\ UNCHANGED <<status, poll>>
  <2>1. ~Spend("redis")
    BY CalmSpends DEF Bounds
  <2> QED
    BY <2>1 DEF Write, Item
<1> DEFINE r == [wk[w] EXCEPT !.pc = "record"]
<1>3. r.pc = "record" /\ r.item = wk[w].item /\ r.seen = wk[w].seen /\ r.ev = wk[w].ev
  BY <1>1 DEF WorkerState
<1>4. wk' = [wk EXCEPT ![w] = r]
  BY <1>2 DEF GoOn
<1> HIDE DEF r
<1>5. wk'[w] = r /\ \A v \in Worker \ {w} : wk'[v] = wk[v] /\ NextState(v)' = NextState(v)
  BY <1>1, <1>4, OthersStay
<1>6. NextState(w)' = NextState(w) /\ NextState(w) \in FsmState /\ None \notin FsmState
  <2>1. NextState(w)' = NextState(w)
    BY <1>3, <1>5 DEF NextState
  <2>2. NextState(w) \in FsmState
    BY <1>1, NextStateType
  <2> QED
    BY <2>1, <2>2, QueueConstants
<1>7. \A s \in Strategy : state'[s] = IF s = wk[w].item THEN NextState(w) ELSE state[s]
  BY <1>1, <1>2
<1>8. ASSUME NEW v \in Worker \ {w}, wk[v].pc \in {"write", "record"}
      PROVE  wk[v].item \in Strategy /\ wk[v].item # wk[w].item
  <2>1. wk[v].item \in Strategy
    BY <1>1, <1>8 DEF GoodWorkers, Good, WorkerState
  <2>2. lock[wk[v].item] = v /\ lock[wk[w].item] = w
    BY <1>1, <1>8 DEF LockHeld, Guarded, Processing
  <2> QED
    BY <1>8, <2>1, <2>2
<1>9. ASSUME NEW v \in Worker
      PROVE  /\ wk'[v].pc \notin {"getDb", "cache"}
             /\ wk'[v].pc = "write" => wk'[v].seen = state'[wk'[v].item]
             /\ wk'[v].pc = "record" => state'[wk'[v].item] = NextState(v)'
  <2>1. CASE v = w
    BY <1>1, <1>3, <1>5, <1>6, <1>7, <2>1
  <2>2. CASE v # w
    BY <1>5, <1>7, <1>8, <2>2 DEF Agreed
  <2> QED
    BY <2>1, <2>2
<1>10. ASSUME NEW s \in Strategy
       PROVE  status'[s] = state'[s] \/ \E v \in Worker : wk'[v].pc = "record" /\ wk'[v].item = s
  <2>1. CASE s = wk[w].item
    BY <1>3, <1>5, <2>1
  <2>2. CASE s # wk[w].item
    <3>1. state'[s] = state[s] /\ status'[s] = status[s]
      BY <1>2, <1>7, <2>2
    <3>2. \A v \in Worker : wk[v].pc = "record" => wk'[v] = wk[v]
      BY <1>1, <1>5
    <3> QED
      BY <3>1, <3>2 DEF Agreed
  <2> QED
    BY <2>1, <2>2
<1>11. poll' = poll /\ \A s \in Strategy : state'[s] # None /\ status'[s] # None
  BY <1>2, <1>6, <1>7 DEF Agreed
<1>12. Agreed'
  BY <1>9, <1>10, <1>11 DEF Agreed
<1> QED
  BY <1>1, <1>2, <1>12

\* set_status: the copy is what the worker has written to Redis.
LEMMA RecordAgrees ==
    ASSUME TypeInv, Agreed, NEW w \in Worker, RecordStatus(w), Undisturbed'
    PROVE  Agreed'
<1>1. GoodWorkers /\ wk[w].pc = "record" /\ wk[w].item \in Strategy
      /\ status \in [Strategy -> FsmState \cup {None}]
  BY DEF TypeInv, TypeOK, GoodWorkers, Good, WorkerState, RecordStatus, At
<1>2. /\ status' = [status EXCEPT ![wk[w].item] = IF @ = None THEN None ELSE NextState(w)]
      /\ Sent(w) /\ UNCHANGED <<state, poll>>
  <2>1. ~Spend("db")
    BY CalmSpends DEF Bounds
  <2> QED
    BY <2>1 DEF RecordStatus, Item
<1>3. status[wk[w].item] # None /\ state[wk[w].item] = NextState(w)
  BY <1>1 DEF Agreed
<1>4. \A s \in Strategy : status'[s] = IF s = wk[w].item THEN state[s] ELSE status[s]
  BY <1>1, <1>2, <1>3
<1>5. PlainMove(w)
  <2>1. wk[w].ev \in {"PROCESS", "COMPLETE", "FAIL"}
    BY <1>1 DEF GoodWorkers, Good, Machine
  <2>2. GoOn(w, "work") \/ Leave(w, TRUE) \/ Leave(w, FALSE)
    BY <1>2, <2>1 DEF Sent
  <2> QED
    BY <1>1, <2>2, PlainMoves
<1>6. PICK r : wk' = [wk EXCEPT ![w] = r] /\ r.pc \notin {"getDb", "cache", "write", "record"}
  BY <1>5 DEF PlainMove
<1>7. /\ wk'[w].pc \notin {"getDb", "cache", "write", "record"}
      /\ \A v \in Worker \ {w} : wk'[v] = wk[v] /\ NextState(v)' = NextState(v)
  BY <1>1, <1>6, OthersStay
<1>8. ASSUME NEW s \in Strategy
      PROVE  status'[s] = state'[s] \/ \E v \in Worker : wk'[v].pc = "record" /\ wk'[v].item = s
  <2>1. CASE s = wk[w].item
    BY <1>2, <1>4, <2>1
  <2>2. CASE s # wk[w].item
    <3>1. state'[s] = state[s] /\ status'[s] = status[s]
      BY <1>2, <1>4, <2>2
    <3>2. \A v \in Worker : wk[v].pc = "record" /\ wk[v].item = s => wk'[v] = wk[v]
      BY <1>7, <2>2
    <3> QED
      BY <3>1, <3>2 DEF Agreed
  <2> QED
    BY <2>1, <2>2
<1>9. \A s \in Strategy : state'[s] # None /\ status'[s] # None
  BY <1>2, <1>4 DEF Agreed
<1> QED
  BY <1>2, <1>7, <1>8, <1>9 DEF Agreed

\* StrategyFSM.get in the calm: the state is in Redis, and is kept for the write.
LEMMA GetAgrees ==
    ASSUME TypeInv, Agreed, NEW w \in Worker, Get(w), Undisturbed'
    PROVE  Agreed'
<1>1. GoodWorkers /\ wk[w] \in WorkerState /\ wk[w].pc = "get" /\ wk[w].item \in Strategy
  BY DEF TypeInv, GoodWorkers, Good, WorkerState, Get, At
<1>2. Decided(w, state[wk[w].item]) /\ UNCHANGED <<state, status, poll>>
  <2>1. ~Spend("redis")
    BY CalmSpends DEF Bounds
  <2>2. state[wk[w].item] # None
    BY <1>1 DEF Agreed
  <2> QED
    BY <2>1, <2>2 DEF Get, Item
<1>3. CASE Raise(w)
  BY <1>1, <1>2, <1>3, PlainMoves, PlainAgrees
<1>4. CASE wk' = [wk EXCEPT ![w] = [@ EXCEPT !.pc = "write", !.seen = state[wk[w].item]]]
  <2> DEFINE r == [wk[w] EXCEPT !.pc = "write", !.seen = state[wk[w].item]]
  <2>1. r.pc = "write" /\ r.item = wk[w].item /\ r.seen = state[wk[w].item]
    BY <1>1 DEF WorkerState
  <2>2. wk' = [wk EXCEPT ![w] = r]
    BY <1>4
  <2> HIDE DEF r
  <2>3. wk'[w] = r /\ \A v \in Worker \ {w} : wk'[v] = wk[v] /\ NextState(v)' = NextState(v)
    BY <1>1, <2>2, OthersStay
  <2>4. \A v \in Worker : wk[v].pc = "record" => wk'[v] = wk[v]
    BY <1>1, <2>3
  <2> QED
    BY <1>1, <1>2, <2>1, <2>3, <2>4 DEF Agreed
<1> QED
  BY <1>2, <1>3, <1>4 DEF Decided

\* Every calm step keeps the agreement.
LEMMA AgreeStep == AgreeInv /\ [QueueNext]_qvars => AgreeInv'
<1> SUFFICES ASSUME AgreeInv, [QueueNext]_qvars, Calm' PROVE Agreed'
  BY LockStep DEF AgreeInv
<1>t. LockInv /\ TypeInv /\ GoodWorkers
  BY DEF AgreeInv, LockInv, TypeInv
<1>c. Calm
  BY <1>t, ExpiriesGrow, DisturbancesGrow DEF Calm
<1>a. Agreed /\ LockHeld /\ Undisturbed'
  BY <1>c DEF AgreeInv, LockInv, Calm
<1>s. \A b \in {"redis", "db", "crashes"} : ~Spend(b)
  BY <1>t, <1>a, CalmSpends DEF Bounds
<1>1. ASSUME NEW w \in Worker, Look(w) PROVE Agreed'
  <2>1. [Idle EXCEPT !.pc = "lock", !.item = Head(queue)].pc = "lock"
    BY DEF Idle
  <2>2. PlainMove(w)
    BY <1>1, <2>1 DEF Look, PlainMove
  <2>3. wk[w].pc # "record" /\ UNCHANGED <<state, status, poll>>
    BY <1>1 DEF Look, At
  <2> QED
    BY <1>t, <1>a, <2>2, <2>3, PlainAgrees
<1>2. ASSUME NEW w \in Worker, SetLock(w) \/ Pop(w) \/ Acquire(w) \/ Work(w) PROVE Agreed'
  <2>1. PlainMove(w)
    BY <1>t, <1>2, PlainMoves DEF SetLock, Pop, Acquire, Work
  <2>2. wk[w].pc # "record" /\ UNCHANGED <<state, status, poll>>
    BY <1>2 DEF SetLock, Pop, Acquire, Work, At
  <2> QED
    BY <1>t, <1>a, <2>1, <2>2, PlainAgrees
<1>3. ASSUME NEW w \in Worker, ReleaseGet(w) \/ ReleaseDel(w) \/ Push(w) PROVE Agreed'
  <2>1. PlainMove(w)
    BY <1>t, <1>3, PlainMoves DEF ReleaseGet, ReleaseDel, Push
  <2>2. wk[w].pc # "record" /\ UNCHANGED <<state, status, poll>>
    BY <1>3 DEF ReleaseGet, ReleaseDel, Push, At
  <2> QED
    BY <1>t, <1>a, <2>1, <2>2, PlainAgrees
<1>4. ASSUME NEW w \in Worker, Get(w) \/ Write(w) \/ RecordStatus(w) PROVE Agreed'
  BY <1>t, <1>a, <1>4, GetAgrees, WriteAgrees, RecordAgrees
<1>5. ASSUME NEW w \in Worker, GetDb(w) \/ Cache(w) \/ Crash(w) PROVE FALSE
  BY <1>a, <1>s, <1>5 DEF GetDb, Cache, Crash, At, Agreed
<1>6. ASSUME NEW s \in Strategy, Expire(s) PROVE Agreed'
  BY <1>a, <1>6 DEF Expire, Agreed, NextState
<1>7. ASSUME NEW s \in Strategy, StatusRead(s) PROVE FALSE
  BY <1>s, <1>7 DEF StatusRead
<1>8. ASSUME StatusCache PROVE FALSE
  BY <1>a, <1>8 DEF StatusCache, Agreed
<1>9. ASSUME UNCHANGED qvars PROVE Agreed'
  BY <1>a, <1>9 DEF qvars, Agreed, NextState
<1> QED
  BY <1>1, <1>2, <1>3, <1>4, <1>5, <1>6, <1>7, <1>8, <1>9 DEF QueueNext, WorkerStep

\* At first the copies are equal and nobody is at work.
LEMMA AgreeInit == QueueInit => AgreeInv
<1>1. QueueInit => Agreed
  BY QueueConstants DEF QueueInit, Agreed, Idle, FsmState
<1> QED
  BY <1>1, LockInit DEF AgreeInv

\* StrategyFSM.transition and get: with any number of workers and any refusals, handler
\* errors and duplicates in the queue, as long as no lock expires and no call fails the
\* database has the state of Redis, except while a worker is between its two writes.
THEOREM StatusAlwaysAgrees == QueueSpec => []StatusAgrees
<1>1. AgreeInv => StatusAgrees
  BY DEF AgreeInv, Calm, Agreed, StatusAgrees, At, Item
<1> QED
  BY <1>1, AgreeInit, AgreeStep, PTL DEF QueueSpec

\* StrategyFSM.transition: as long as no lock has expired and no call fails, the state in
\* Redis changes along the edges of the machine only, although reading and writing it are
\* two calls that other workers come between.
THEOREM FsmStepsAlways == QueueSpec => FsmSteps
<1>1. ASSUME AgreeInv, [QueueNext]_qvars, NEW s \in Strategy, Unexpired, Undisturbed',
             state'[s] # state[s]
      PROVE  \E m \in Machine : m[1] = state[s] /\ m[3] = state'[s]
  <2>1. TypeInv /\ GoodWorkers
    BY <1>1 DEF AgreeInv, LockInv, TypeInv
  <2>2. Undisturbed
    BY <1>1, <2>1, DisturbancesGrow
  <2>3. Agreed /\ LockHeld
    BY <1>1, <2>2 DEF AgreeInv, LockInv, Calm
  <2>4. PICK w \in Worker : Write(w)
    BY <1>1, <2>3 DEF QueueNext, WorkerStep, Look, SetLock, Pop, Acquire, Get, GetDb, Cache,
       RecordStatus, Work, ReleaseGet, ReleaseDel, Push, Expire, Crash, StatusRead,
       StatusCache, qvars, Agreed, At
  <2>5. /\ state' = [state EXCEPT ![wk[w].item] = NextState(w)] /\ wk[w].item \in Strategy
    BY <1>1, <2>1, <2>3, <2>4, WriteAgrees
  <2>6. s = wk[w].item /\ state'[s] = NextState(w)
    BY <1>1, <2>1, <2>5 DEF TypeInv, TypeOK
  <2>7. wk[w].pc = "write" /\ wk[w].seen = state[s]
    BY <2>3, <2>4, <2>6 DEF Write, At, Agreed
  <2>8. \E m \in Machine : m[1] = wk[w].seen /\ m[2] = wk[w].ev
    BY <2>1, <2>7 DEF GoodWorkers, Good
  <2>9. PICK m \in Machine : m[1] = wk[w].seen /\ NextState(w) = m[3]
    BY <2>8 DEF NextState
  <2> QED
    BY <2>6, <2>7, <2>9
<1>2. AgreeInv /\ [QueueNext]_qvars =>
        [\A s \in Strategy : Unexpired /\ Undisturbed' /\ state'[s] # state[s] =>
           \E m \in Machine : m[1] = state[s] /\ m[3] = state'[s]]_qvars
  BY <1>1
<1> QED
  BY <1>2, AgreeInit, AgreeStep, PTL DEF QueueSpec, FsmSteps

-----------------------------------------------------------------------------
(* StrategyIntake *)

\* From the moment it has claimed the DAG hash until it gives it back.
Owning == {"fbHset", "log", "enqueue", "state", "insert", "undoHash"}

ReplyType == [kind : ReplyKind, id : Strategy \cup {None}]

RepliesInv ==
    /\ sub \in [Strategy -> SubPc]
    /\ DOMAIN reply = Strategy
    /\ \A x \in Strategy : reply[x] \in (IF sub[x] = "done" THEN ReplyType ELSE {None})

\* A submission in progress or accepted is the one that its DAG hash names.
Owns(x) == sub[x] \in Owning \/ (sub[x] = "done" /\ reply[x].kind = "accepted")

HashInv ==
    /\ dagHash \in [Dag -> Strategy \cup {None}]
    /\ \A x \in Strategy : Owns(x) => dagHash[DagOf[x]] = x

MonitorInv ==
    /\ local \in Seq(Strategy)
    /\ health \in [dagOk : BOOLEAN, redisOk : BOOLEAN, level : Level]
    /\ monitor \in [pc : {"sleep", "flush", "clear", "level"}, level : Level]

IntakeInv == TypeInv /\ RepliesInv /\ HashInv /\ MonitorInv

-----------------------------------------------------------------------------
\* The parts of the queue that a submission or the monitor changes.
QueueParts ==
    /\ queue \in Seq(Strategy) /\ dag \subseteq Strategy
    /\ state \in [Strategy -> FsmState \cup {None}]
    /\ status \in [Strategy -> FsmState \cup {None}]
    /\ spent \in [DOMAIN Bounds -> Nat]

\* The workers and their locks are not touched.
LEMMA QueueKept ==
    ASSUME TypeInv, UNCHANGED <<lock, wk, poll>>, QueueParts'
    PROVE  TypeInv'
<1>1. TypeOK'
  BY DEF TypeInv, TypeOK, QueueParts, Item, At
<1>2. GoodWorkers'
  BY DEF TypeInv, GoodWorkers
<1> QED
  BY <1>1, <1>2 DEF TypeInv

\* What the types say of these parts, and of what is counted.
LEMMA PartsOf ==
    ASSUME TypeInv
    PROVE  QueueParts /\ \A b \in {"redis", "db"} : Spend(b) \/ Free => spent' \in [DOMAIN Bounds -> Nat]
<1>1. QueueParts
  BY DEF TypeInv, TypeOK, QueueParts
<1>2. {"redis", "db"} \subseteq DOMAIN Bounds
  BY DEF Bounds
<1> QED
  BY <1>1, <1>2, SpendType DEF QueueParts, Free

\* The DAG of a submission.
LEMMA DagOfSub == ASSUME NEW x \in Strategy PROVE DagOf[x] \in Dag
BY DEF Dag

\* The hash may change as long as no other submission loses what it owns.
HashFor(x) ==
    /\ dagHash' \in [Dag -> Strategy \cup {None}]
    /\ \A y \in Strategy \ {x} : Owns(y) => dagHash'[DagOf[y]] = y

\* A submission goes on.
LEMMA MovesKeeps ==
    ASSUME IntakeInv, NEW x \in Strategy, NEW pc \in SubPc \ {"done"}, Moves(x, pc), Quiet,
           sub[x] # "done", HashFor(x), pc \in Owning => dagHash'[DagOf[x]] = x
    PROVE  RepliesInv' /\ HashInv'
<1>1. sub \in [Strategy -> SubPc] /\ sub' = [sub EXCEPT ![x] = pc] /\ reply' = reply
  BY DEF IntakeInv, RepliesInv, Moves, Quiet
<1>2. RepliesInv'
  BY <1>1 DEF IntakeInv, RepliesInv
<1>3. ASSUME NEW y \in Strategy, Owns(y)' PROVE dagHash'[DagOf[y]] = y
  <2>1. CASE y = x
    BY <1>1, <1>3, <2>1 DEF Owns
  <2>2. CASE y # x
    BY <1>1, <1>3, <2>2 DEF Owns, HashFor
  <2> QED
    BY <2>1, <2>2
<1> QED
  BY <1>2, <1>3 DEF HashInv, HashFor

\* A submission is answered.
LEMMA AnswersKeeps ==
    ASSUME IntakeInv, NEW x \in Strategy, NEW kind \in ReplyKind, NEW id \in Strategy \cup {None},
           Answers(x, kind, id), HashFor(x), kind = "accepted" => dagHash'[DagOf[x]] = x
    PROVE  RepliesInv' /\ HashInv'
<1> DEFINE r == [kind |-> kind, id |-> id]
<1>0. r \in ReplyType /\ r.kind = kind
  BY DEF ReplyType
<1>1. /\ sub \in [Strategy -> SubPc] /\ sub' = [sub EXCEPT ![x] = "done"]
      /\ reply' = [reply EXCEPT ![x] = r] /\ DOMAIN reply = Strategy
  BY DEF IntakeInv, RepliesInv, Moves, Answers
<1> HIDE DEF r
<1>2. RepliesInv'
  <2>1. sub' \in [Strategy -> SubPc] /\ DOMAIN reply' = Strategy
    BY <1>1 DEF SubPc
  <2>2. ASSUME NEW y \in Strategy
        PROVE  reply'[y] \in (IF sub'[y] = "done" THEN ReplyType ELSE {None})
    <3>1. CASE y = x
      BY <1>0, <1>1, <3>1
    <3>2. CASE y # x
      BY <1>1, <3>2 DEF IntakeInv, RepliesInv
    <3> QED
      BY <3>1, <3>2
  <2> QED
    BY <2>1, <2>2 DEF RepliesInv
<1>3. ASSUME NEW y \in Strategy, Owns(y)' PROVE dagHash'[DagOf[y]] = y
  <2>1. CASE y = x
    BY <1>0, <1>1, <1>3, <2>1 DEF Owns, Owning
  <2>2. CASE y # x
    BY <1>1, <1>3, <2>2 DEF Owns, HashFor
  <2> QED
    BY <2>1, <2>2
<1> QED
  BY <1>2, <1>3 DEF HashInv, HashFor

\* The hash as it is, and the hash that x claims or gives back.
LEMMA HashSame ==
    ASSUME IntakeInv, NEW x \in Strategy, UNCHANGED dagHash
    PROVE  HashFor(x)
BY DEF IntakeInv, HashInv, HashFor

\* The script and its fallback claim a hash that nobody has (save_unique).
LEMMA HashClaimed ==
    ASSUME IntakeInv, NEW x \in Strategy, ~Claimed(x), dagHash' = [dagHash EXCEPT ![DagOf[x]] = x]
    PROVE  HashFor(x) /\ dagHash'[DagOf[x]] = x
<1>1. dagHash \in [Dag -> Strategy \cup {None}] /\ DagOf[x] \in Dag /\ dagHash[DagOf[x]] = None
  BY DagOfSub DEF IntakeInv, HashInv, Claimed
<1>2. None \notin Strategy
  BY QueueConstants
<1>3. ASSUME NEW y \in Strategy \ {x}, Owns(y) PROVE dagHash'[DagOf[y]] = y
  <2>1. dagHash[DagOf[y]] = y /\ DagOf[y] \in Dag
    BY <1>3, DagOfSub DEF IntakeInv, HashInv
  <2>2. DagOf[y] # DagOf[x]
    BY <1>1, <1>2, <2>1
  <2> QED
    BY <1>1, <2>1, <2>2
<1> QED
  BY <1>1, <1>3 DEF HashFor

\* The rollback deletes the hash of its own submission (_rollback_dag).
LEMMA HashFreed ==
    ASSUME IntakeInv, NEW x \in Strategy, Owns(x), dagHash' = [dagHash EXCEPT ![DagOf[x]] = None]
    PROVE  HashFor(x)
<1>1. dagHash \in [Dag -> Strategy \cup {None}] /\ DagOf[x] \in Dag /\ dagHash[DagOf[x]] = x
  BY DagOfSub DEF IntakeInv, HashInv
<1>2. ASSUME NEW y \in Strategy \ {x}, Owns(y) PROVE dagHash'[DagOf[y]] = y
  <2>1. dagHash[DagOf[y]] = y /\ DagOf[y] \in Dag
    BY <1>2, DagOfSub DEF IntakeInv, HashInv
  <2>2. DagOf[y] # DagOf[x]
    BY <1>1, <2>1
  <2> QED
    BY <1>1, <2>1, <2>2
<1> QED
  BY <1>1, <1>2 DEF HashFor

-----------------------------------------------------------------------------
(* StrategyManager.submit *)

\* The middleware lets a submission in.
LEMMA ArriveInv ==
    ASSUME IntakeInv, NEW x \in Strategy, Arrive(x)
    PROVE  IntakeInv'
<1>1. RepliesInv' /\ HashInv'
  <2>1. HashFor(x) /\ sub[x] # "done" /\ "eval" \in SubPc \ {"done"} /\ "eval" \notin Owning
    BY HashSame DEF Arrive, SubAt, SubPc, Owning
  <2>2. Moves(x, "eval") /\ Quiet
    BY DEF Arrive, Quiet
  <2> QED
    BY <2>1, <2>2, MovesKeeps
<1>2. TypeInv'
  BY QueueKept, PartsOf DEF IntakeInv, Arrive, qvars, QueueParts
<1> QED
  BY <1>1, <1>2 DEF IntakeInv, MonitorInv, Arrive

\* A submission whose DAG is claimed is answered with the strategy that has it.
LEMMA DuplicateKeeps ==
    ASSUME IntakeInv, NEW x \in Strategy, Answers(x, "duplicate", dagHash[DagOf[x]]),
           UNCHANGED dagHash
    PROVE  RepliesInv' /\ HashInv'
<1>1. dagHash[DagOf[x]] \in Strategy \cup {None}
  BY DagOfSub DEF IntakeInv, HashInv
<1>2. HashFor(x) /\ "duplicate" \in ReplyKind
  BY HashSame DEF ReplyKind
<1> QED
  BY <1>1, <1>2, AnswersKeeps

\* A submission that fails has nothing to keep.
LEMMA FailsKeeps ==
    ASSUME IntakeInv, NEW x \in Strategy, NEW kind \in {"failed", "unavailable"},
           Answers(x, kind, None), HashFor(x)
    PROVE  RepliesInv' /\ HashInv'
<1>1. kind \in ReplyKind /\ kind # "accepted"
  BY DEF ReplyKind
<1> QED
  BY <1>1, AnswersKeeps

\* save_unique: the script claims the hash and stores the dag in one go.
LEMMA SaveUniqueInv ==
    ASSUME IntakeInv, NEW x \in Strategy, SaveUnique(x)
    PROVE  IntakeInv'
<1>0. /\ sub[x] # "done" /\ {"log", "fbGet"} \subseteq SubPc \ {"done"} /\ "fbGet" \notin Owning
      /\ UNCHANGED <<queue, lock, state, status, wk, poll, local, health, monitor, logFails>>
  BY DEF SaveUnique, SubAt, SubPc, Owning
<1>1. RepliesInv' /\ HashInv'
  <2>1. CASE Answers(x, "duplicate", dagHash[DagOf[x]]) /\ UNCHANGED dagHash
    BY <2>1, DuplicateKeeps
  <2>2. CASE ~Claimed(x) /\ Claims(x) /\ Moves(x, "log") /\ Quiet
    BY <1>0, <2>2, HashClaimed, MovesKeeps DEF Claims
  <2>3. CASE ~Claimed(x) /\ Claims(x) /\ Moves(x, "fbGet") /\ Quiet
    BY <1>0, <2>3, HashClaimed, MovesKeeps DEF Claims
  <2>4. CASE UNCHANGED dagHash /\ Moves(x, "fbGet") /\ Quiet
    BY <1>0, <2>4, HashSame, MovesKeeps
  <2> QED
    BY <2>1, <2>2, <2>3, <2>4 DEF SaveUnique
<1>2. QueueParts'
  <2>1. dag' \subseteq dag \cup {x}
    BY DEF SaveUnique, Claims
  <2>2. Spend("redis") \/ Free
    BY DEF SaveUnique
  <2> QED
    BY <1>0, <2>1, <2>2, PartsOf DEF IntakeInv, QueueParts
<1>3. TypeInv'
  BY <1>0, <1>2, QueueKept DEF IntakeInv
<1> QED
  BY <1>0, <1>1, <1>3 DEF IntakeInv, MonitorInv

\* _fallback_dedupe: the first GET.
LEMMA FallbackGetInv ==
    ASSUME IntakeInv, NEW x \in Strategy, FallbackGet(x)
    PROVE  IntakeInv'
<1>0. /\ sub[x] # "done" /\ "fbSet" \in SubPc \ {"done"} /\ "fbSet" \notin Owning /\ HashFor(x)
      /\ UNCHANGED <<queue, lock, dag, state, status, wk, poll, dagHash, local, health, monitor>>
      /\ Spend("redis") \/ Free
  BY HashSame DEF FallbackGet, SubAt, SubPc, Owning
<1>1. RepliesInv' /\ HashInv'
  BY <1>0, DuplicateKeeps, FailsKeeps, MovesKeeps DEF FallbackGet
<1>2. TypeInv'
  BY <1>0, QueueKept, PartsOf DEF IntakeInv, QueueParts
<1> QED
  BY <1>0, <1>1, <1>2 DEF IntakeInv, MonitorInv

\* SET NX claims the hash only when nobody has it, answered or not.
LEMMA FallbackSetInv ==
    ASSUME IntakeInv, NEW x \in Strategy, FallbackSet(x)
    PROVE  IntakeInv'
<1>0. /\ sub[x] # "done" /\ {"fbAgain", "fbHset"} \subseteq SubPc \ {"done"}
      /\ "fbAgain" \notin Owning
      /\ UNCHANGED <<queue, lock, dag, state, status, wk, poll, local, health, monitor>>
      /\ Spend("redis") \/ Free
  BY DEF FallbackSet, SubAt, SubPc, Owning
<1>1. RepliesInv' /\ HashInv'
  <2>1. CASE Moves(x, "fbAgain") /\ Quiet /\ UNCHANGED dagHash
    BY <1>0, <2>1, HashSame, MovesKeeps
  <2>2. CASE /\ ~Claimed(x) /\ dagHash' = [dagHash EXCEPT ![DagOf[x]] = x]
             /\ Moves(x, "fbHset") /\ Quiet
    BY <1>0, <2>2, HashClaimed, MovesKeeps
  <2>3. CASE /\ dagHash' \in {dagHash, [dagHash EXCEPT ![DagOf[x]] = IF @ = None THEN x ELSE @]}
             /\ Answers(x, "failed", None)
    <3>1. dagHash \in [Dag -> Strategy \cup {None}] /\ DagOf[x] \in Dag
      BY DagOfSub DEF IntakeInv, HashInv
    <3>2. dagHash' = dagHash \/ (~Claimed(x) /\ dagHash' = [dagHash EXCEPT ![DagOf[x]] = x])
      BY <2>3, <3>1 DEF Claimed
    <3>3. HashFor(x)
      BY <3>2, HashSame, HashClaimed
    <3> QED
      BY <2>3, <3>3, FailsKeeps
  <2> QED
    BY <2>1, <2>2, <2>3 DEF FallbackSet
<1>2. TypeInv'
  BY <1>0, QueueKept, PartsOf DEF IntakeInv, QueueParts
<1> QED
  BY <1>0, <1>1, <1>2 DEF IntakeInv, MonitorInv

\* The second GET.
LEMMA FallbackAgainInv ==
    ASSUME IntakeInv, NEW x \in Strategy, FallbackAgain(x)
    PROVE  IntakeInv'
<1>0. /\ UNCHANGED <<queue, lock, dag, state, status, wk, poll, dagHash, local, health, monitor>>
      /\ Spend("redis") \/ Free
      /\ HashFor(x)
  BY HashSame DEF FallbackAgain
<1>1. RepliesInv' /\ HashInv'
  BY <1>0, DuplicateKeeps, FailsKeeps DEF FallbackAgain
<1>2. TypeInv'
  BY <1>0, QueueKept, PartsOf DEF IntakeInv, QueueParts
<1> QED
  BY <1>0, <1>1, <1>2 DEF IntakeInv, MonitorInv

\* A submission that owns its hash and goes on, or fails and leaves the hash.
LEMMA OwnerKeeps ==
    ASSUME IntakeInv, NEW x \in Strategy, sub[x] \in Owning, UNCHANGED dagHash,
           \/ \E pc \in Owning : Moves(x, pc) /\ Quiet
           \/ \E kind \in {"failed", "unavailable"} : Answers(x, kind, None)
           \/ Answers(x, "accepted", x)
    PROVE  RepliesInv' /\ HashInv'
<1>1. HashFor(x) /\ dagHash'[DagOf[x]] = x
  BY HashSame DEF IntakeInv, HashInv, Owns
<1>2. Owning \subseteq SubPc \ {"done"} /\ sub[x] # "done" /\ "accepted" \in ReplyKind
  BY DEF Owning, SubPc, ReplyKind
<1>3. CASE \E pc \in Owning : Moves(x, pc) /\ Quiet
  BY <1>1, <1>2, <1>3, MovesKeeps
<1>4. CASE \E kind \in {"failed", "unavailable"} : Answers(x, kind, None)
  BY <1>1, <1>4, FailsKeeps
<1>5. CASE Answers(x, "accepted", x)
  BY <1>1, <1>2, <1>5, AnswersKeeps
<1> QED
  BY <1>3, <1>4, <1>5

\* HSET of the dag.
LEMMA FallbackHsetInv ==
    ASSUME IntakeInv, NEW x \in Strategy, FallbackHset(x)
    PROVE  IntakeInv'
<1>0. /\ sub[x] \in Owning /\ "log" \in Owning
      /\ UNCHANGED <<queue, lock, state, status, wk, poll, dagHash, local, health, monitor>>
      /\ dag' \subseteq dag \cup {x}
      /\ Spend("redis") \/ Free
  BY DEF FallbackHset, SubAt, Owning
<1>1. RepliesInv' /\ HashInv'
  BY <1>0, OwnerKeeps DEF FallbackHset
<1>2. QueueParts'
  BY <1>0, PartsOf DEF IntakeInv, QueueParts
<1>3. TypeInv'
  BY <1>0, <1>2, QueueKept DEF IntakeInv
<1> QED
  BY <1>0, <1>1, <1>3 DEF IntakeInv, MonitorInv

\* _publish_submission.
LEMMA PublishSubmissionInv ==
    ASSUME IntakeInv, NEW x \in Strategy, PublishSubmission(x)
    PROVE  IntakeInv'
<1>0. /\ sub[x] \in Owning /\ {"enqueue", "undoHash"} \subseteq Owning /\ Quiet
      /\ UNCHANGED <<qvars, dagHash, reply, local, health, monitor>>
      /\ Moves(x, "enqueue") \/ Moves(x, "undoHash")
  BY DEF PublishSubmission, SubAt, Owning, Quiet
<1>1. RepliesInv' /\ HashInv'
  BY <1>0, OwnerKeeps
<1>2. TypeInv'
  BY <1>0, QueueKept, PartsOf DEF IntakeInv, QueueParts, qvars
<1> QED
  BY <1>0, <1>1, <1>2 DEF IntakeInv, MonitorInv

\* StrategyQueue.enqueue.
LEMMA EnqueueInv ==
    ASSUME IntakeInv, NEW x \in Strategy, Enqueue(x)
    PROVE  IntakeInv'
<1>0. /\ sub[x] \in Owning /\ {"state", "undoHash"} \subseteq Owning /\ Quiet
      /\ UNCHANGED <<lock, dag, state, status, wk, poll, dagHash, health, monitor>>
      /\ Moves(x, "state") \/ Moves(x, "undoHash")
      /\ queue' \in {queue, Append(queue, x)} /\ local' \in {local, Append(local, x)}
      /\ Spend("redis") \/ Free
  BY DEF Enqueue, SubAt, Owning, Quiet
<1>1. RepliesInv' /\ HashInv'
  BY <1>0, OwnerKeeps
<1>2. queue' \in Seq(Strategy) /\ local' \in Seq(Strategy)
  <2>1. queue \in Seq(Strategy) /\ local \in Seq(Strategy)
    BY PartsOf DEF IntakeInv, QueueParts, MonitorInv
  <2>2. Append(queue, x) \in Seq(Strategy) /\ Append(local, x) \in Seq(Strategy)
    BY <2>1
  <2> QED
    BY <1>0, <2>1, <2>2
<1>3. QueueParts'
  BY <1>0, <1>2, PartsOf DEF IntakeInv, QueueParts
<1>4. TypeInv'
  BY <1>0, <1>3, QueueKept DEF IntakeInv
<1> QED
  BY <1>0, <1>1, <1>2, <1>4 DEF IntakeInv, MonitorInv

\* rollback: the owner gives its hash back, answered or not.
LEMMA UndoHashInv ==
    ASSUME IntakeInv, NEW x \in Strategy, UndoHash(x)
    PROVE  IntakeInv'
<1>0. /\ sub[x] = "undoHash" /\ sub[x] # "done" /\ Owns(x)
      /\ "undoDag" \in SubPc \ {"done"} /\ "undoDag" \notin Owning
      /\ UNCHANGED <<queue, lock, dag, state, status, wk, poll, local, health, monitor>>
      /\ dagHash' \in {dagHash, [dagHash EXCEPT ![DagOf[x]] = None]}
      /\ Spend("redis") \/ Free
  BY DEF UndoHash, SubAt, SubPc, Owning, Owns
<1>1. HashFor(x)
  BY <1>0, HashSame, HashFreed
<1>2. RepliesInv' /\ HashInv'
  BY <1>0, <1>1, MovesKeeps, FailsKeeps DEF UndoHash
<1>3. TypeInv'
  BY <1>0, QueueKept, PartsOf DEF IntakeInv, QueueParts
<1> QED
  BY <1>0, <1>2, <1>3 DEF IntakeInv, MonitorInv

\* A submission whose rollback ends owns the hash no more, whether it was deleted or not.
LEMMA UndoDagInv ==
    ASSUME IntakeInv, NEW x \in Strategy, UndoDag(x)
    PROVE  IntakeInv'
<1>0. /\ UNCHANGED <<queue, lock, status, wk, poll, dagHash, local, health, monitor>>
      /\ dag' \subseteq dag /\ state' \in {state, [state EXCEPT ![x] = None]}
      /\ Spend("redis") \/ Free
      /\ HashFor(x) /\ Answers(x, "unavailable", None)
  BY HashSame DEF UndoDag
<1>1. RepliesInv' /\ HashInv'
  BY <1>0, FailsKeeps
<1>2. QueueParts'
  BY <1>0, PartsOf DEF IntakeInv, QueueParts
<1>3. TypeInv'
  BY <1>0, <1>2, QueueKept DEF IntakeInv
<1> QED
  BY <1>0, <1>1, <1>3 DEF IntakeInv, MonitorInv

\* StrategyFSM.create.
LEMMA CreateStateInv ==
    ASSUME IntakeInv, NEW x \in Strategy, CreateState(x)
    PROVE  IntakeInv'
<1>0. /\ sub[x] \in Owning /\ "insert" \in Owning /\ "queued" \in FsmState
      /\ UNCHANGED <<queue, lock, dag, status, wk, poll, dagHash, local, health, monitor>>
      /\ state' \in {state, [state EXCEPT ![x] = "queued"]}
      /\ Spend("redis") \/ Free
  BY DEF CreateState, SubAt, Owning, FsmState
<1>1. RepliesInv' /\ HashInv'
  BY <1>0, OwnerKeeps DEF CreateState
<1>2. QueueParts'
  BY <1>0, PartsOf DEF IntakeInv, QueueParts
<1>3. TypeInv'
  BY <1>0, <1>2, QueueKept DEF IntakeInv
<1> QED
  BY <1>0, <1>1, <1>3 DEF IntakeInv, MonitorInv

\* insert_strategy: the submission is accepted.
LEMMA InsertStatusInv ==
    ASSUME IntakeInv, NEW x \in Strategy, InsertStatus(x)
    PROVE  IntakeInv'
<1>0. /\ sub[x] \in Owning /\ "queued" \in FsmState
      /\ UNCHANGED <<queue, lock, dag, state, wk, poll, dagHash, local, health, monitor>>
      /\ status' \in {status, [status EXCEPT ![x] = "queued"]}
      /\ Spend("db") \/ Free
      /\ Answers(x, "accepted", x) \/ Answers(x, "failed", None)
  BY DEF InsertStatus, SubAt, Owning, FsmState
<1>1. RepliesInv' /\ HashInv'
  BY <1>0, OwnerKeeps
<1>2. QueueParts'
  BY <1>0, PartsOf DEF IntakeInv, QueueParts
<1>3. TypeInv'
  BY <1>0, <1>2, QueueKept DEF IntakeInv
<1> QED
  BY <1>0, <1>1, <1>3 DEF IntakeInv, MonitorInv

-----------------------------------------------------------------------------
(* The degradation monitor, and the workers *)

\* Submissions are not concerned.
LEMMA NoSubmission ==
    ASSUME IntakeInv, UNCHANGED <<dagHash, sub, reply>>
    PROVE  RepliesInv' /\ HashInv'
BY DEF IntakeInv, RepliesInv, HashInv, Owns

\* DegradationManager.evaluate changes nothing of the submissions.
LEMMA CheckInv ==
    ASSUME IntakeInv, NEW dagOk \in BOOLEAN, NEW redisOk \in BOOLEAN, Check(dagOk, redisOk)
    PROVE  IntakeInv'
<1>1. UNCHANGED <<qvars, dagHash, sub, reply, local>>
  BY DEF Check
<1>2. MonitorInv'
  <2>1. /\ health' = [health EXCEPT !.dagOk = dagOk, !.redisOk = redisOk]
        /\ \E n \in Level : monitor' = [pc |-> "flush", level |-> n]
    BY DEF Check
  <2>2. health \in [dagOk : BOOLEAN, redisOk : BOOLEAN, level : Level]
    BY DEF IntakeInv, MonitorInv
  <2>3. health' \in [dagOk : BOOLEAN, redisOk : BOOLEAN, level : Level]
    BY <2>1, <2>2
  <2>4. monitor' \in [pc : {"sleep", "flush", "clear", "level"}, level : Level]
    BY <2>1
  <2> QED
    BY <1>1, <2>3, <2>4 DEF IntakeInv, MonitorInv
<1>3. TypeInv'
  BY <1>1, QueueKept, PartsOf DEF IntakeInv, QueueParts, qvars
<1> QED
  BY <1>1, <1>2, <1>3, NoSubmission DEF IntakeInv

\* _flush_local_queue and the level.
LEMMA UpdateInv ==
    ASSUME IntakeInv, Update
    PROVE  IntakeInv'
<1>0. /\ UNCHANGED <<lock, dag, state, status, wk, poll, dagHash, sub, reply>>
      /\ queue' \in {queue, queue \o local} /\ local' \in {local, <<>>}
      /\ Spend("redis") \/ Free
  BY DEF Update, FlushPush, FlushSkip, FlushClear, SetLevel, qvars, Free
<1>1. queue' \in Seq(Strategy) /\ local' \in Seq(Strategy)
  <2>1. queue \in Seq(Strategy) /\ local \in Seq(Strategy)
    BY PartsOf DEF IntakeInv, QueueParts, MonitorInv
  <2>2. queue \o local \in Seq(Strategy) /\ <<>> \in Seq(Strategy)
    BY <2>1
  <2> QED
    BY <1>0, <2>1, <2>2
<1>2. MonitorInv'
  <2>1. monitor \in [pc : {"sleep", "flush", "clear", "level"}, level : Level]
    BY DEF IntakeInv, MonitorInv
  <2>2. monitor' \in [pc : {"sleep", "flush", "clear", "level"}, level : Level]
    BY <2>1 DEF Update, FlushPush, FlushSkip, FlushClear, SetLevel, Level
  <2>3. health' \in {health, [health EXCEPT !.level = monitor.level]}
    BY DEF Update, FlushPush, FlushSkip, FlushClear, SetLevel
  <2>4. health' \in [dagOk : BOOLEAN, redisOk : BOOLEAN, level : Level]
    BY <2>1, <2>3 DEF IntakeInv, MonitorInv
  <2> QED
    BY <1>1, <2>2, <2>4 DEF MonitorInv
<1>3. QueueParts'
  BY <1>0, <1>1, PartsOf DEF IntakeInv, QueueParts
<1>4. TypeInv'
  BY <1>0, <1>3, QueueKept DEF IntakeInv
<1> QED
  BY <1>0, <1>2, <1>4, NoSubmission DEF IntakeInv

\* At first nothing is submitted.
LEMMA IntakeInitInv == IntakeInit => IntakeInv
<1> SUFFICES ASSUME IntakeInit PROVE IntakeInv
  OBVIOUS
<1>1. TypeInv
  <2>1. Good(Idle) /\ Idle \in WorkerState
    BY GoodIdle DEF Good
  <2>2. GoodWorkers
    BY <2>1 DEF IntakeInit, GoodWorkers
  <2>3. \A w \in Worker : Item(w) = None <=> At(w, "idle")
    BY DEF IntakeInit, Item, At, Idle
  <2>4. spent \in [DOMAIN Bounds -> Nat] /\ queue \in Seq(Strategy)
    BY DEF IntakeInit
  <2> QED
    BY <2>2, <2>3, <2>4 DEF IntakeInit, TypeInv, TypeOK, GoodWorkers
<1>2. RepliesInv
  BY DEF IntakeInit, RepliesInv, SubPc
<1>3. HashInv
  BY DEF IntakeInit, HashInv, Owns, Owning
<1>4. MonitorInv
  BY DEF IntakeInit, MonitorInv, Level
<1> QED
  BY <1>1, <1>2, <1>3, <1>4 DEF IntakeInv

\* Every step keeps the invariant.
LEMMA IntakeStepInv == IntakeInv /\ [Next]_vars => IntakeInv'
<1> SUFFICES ASSUME IntakeInv, [Next]_vars PROVE IntakeInv'
  OBVIOUS
<1>1. ASSUME NEW x \in Strategy, Submit(x) PROVE IntakeInv'
  BY <1>1, ArriveInv, SaveUniqueInv, FallbackGetInv, FallbackSetInv, FallbackAgainInv,
     FallbackHsetInv, PublishSubmissionInv, EnqueueInv, UndoHashInv, UndoDagInv,
     CreateStateInv, InsertStatusInv DEF Submit
<1>2. ASSUME NEW dagOk \in BOOLEAN, NEW redisOk \in BOOLEAN, Check(dagOk, redisOk)
      PROVE  IntakeInv'
  BY <1>2, CheckInv
<1>3. CASE Update
  BY <1>3, UpdateInv
<1>4. CASE [QueueNext]_qvars /\ UNCHANGED ivars
  <2>1. TypeInv'
    BY <1>4, TypeStep DEF IntakeInv
  <2>2. UNCHANGED <<dagHash, sub, reply, local, health, monitor>>
    BY <1>4 DEF ivars
  <2> QED
    BY <2>1, <2>2, NoSubmission DEF IntakeInv, MonitorInv
<1>5. CASE UNCHANGED vars
  BY <1>4, <1>5 DEF vars
<1> QED
  BY <1>1, <1>2, <1>3, <1>4, <1>5 DEF Next

\* save_unique, _fallback_dedupe and rollback: of all submissions of a DAG at most one is
\* accepted, whichever calls fail with an unknown outcome and however the submissions, the
\* workers and the monitor interleave.
THEOREM OneAcceptedPerDag == Spec => []AcceptedOncePerDag
<1>1. ASSUME IntakeInv PROVE AcceptedOncePerDag
  <2>1. \A x \in Strategy : Accepted(x) => dagHash[DagOf[x]] = x
    BY <1>1 DEF IntakeInv, HashInv, Owns, Accepted, SubAt
  <2>2. IntakeTypeOK
    BY <1>1 DEF IntakeInv, TypeInv, RepliesInv, HashInv, MonitorInv, IntakeTypeOK, SubAt, ReplyType
  <2> QED
    BY <2>1, <2>2 DEF AcceptedOncePerDag
<1> QED
  BY <1>1, IntakeInitInv, IntakeStepInv, PTL DEF Spec

-----------------------------------------------------------------------------
(* StrategyIntake: nothing that was accepted is lost *)

\* A strategy the queue, a worker or the FSM still knows of.
Active(x) ==
    \/ state[x] = "completed"
    \/ \E k \in DOMAIN queue : queue[k] = x
    \/ \E w \in Worker : Holds(w, x)

InLocal(x) == \E k \in DOMAIN local : local[k] = x

\* What the worker has looked at is still at the head of the queue.
HeadInv ==
    \A w \in Worker : wk[w].pc \in {"lock", "pop"} => queue # <<>> /\ Head(queue) = Item(w)

\* What a worker has read is still there; one that finds no state has met its strategy
\* before or while it is created.
ReadInv ==
    /\ poll.item = None
    /\ \A w \in Worker :
         /\ wk[w].pc = "getDb" => /\ state[Item(w)] \in {None, "queued"}
                                  /\ status[Item(w)] \in {None, "queued"}
         /\ wk[w].pc = "cache" => wk[w].seen = "queued" /\ state[Item(w)] = "queued"
         /\ wk[w].pc = "write" => wk[w].seen = state[Item(w)]
         /\ wk[w].pc = "record" => state[Item(w)] = NextState(w)
         /\ wk[w].pc = "push" => wk[w].back

\* A strategy has a state from CreateState on, and a row from InsertStatus on.
CreatedInv ==
    \A x \in Strategy :
        /\ sub[x] \notin {"insert", "done"} => state[x] = None
        /\ sub[x] # "done" => status[x] = None
        /\ sub[x] = "insert" => state[x] # None
        /\ status[x] # None => state[x] # None

\* What is about to be cleared from the local queue has been pushed.
FlushInv ==
    monitor.pc = "clear" => health.dagOk /\ \A k \in DOMAIN local : Active(local[k])

\* A submission that has been enqueued is known of.
EnqueuedInv ==
    \A x \in Strategy : sub[x] \in {"state", "insert"} \/ Accepted(x) => Active(x) \/ InLocal(x)

KeepParts == HeadInv /\ ReadInv /\ CreatedInv /\ FlushInv /\ EnqueuedInv

KeepInv == IntakeInv /\ (Undisturbed => KeepParts)

SoleWorker == \A v, w \in Worker : v = w

-----------------------------------------------------------------------------
\* What the moves of a worker leave in its record.
LEMMA Leaves ==
    ASSUME TypeInv, NEW w \in Worker, NEW b, Leave(w, b)
    PROVE  wk'[w].pc = "relGet" /\ wk'[w].item = wk[w].item /\ wk'[w].back = b
<1>1. wk[w] \in WorkerState /\ wk \in [Worker -> WorkerState]
  BY DEF TypeInv, GoodWorkers
<1>2. wk'[w] = [wk[w] EXCEPT !.pc = "relGet", !.back = b]
  BY <1>1 DEF Leave
<1> QED
  BY <1>1, <1>2 DEF WorkerState

LEMMA Sends ==
    ASSUME TypeInv, NEW w \in Worker, NEW ev, Send(w, ev)
    PROVE  wk'[w].pc = "get" /\ wk'[w].item = wk[w].item
<1>1. wk[w] \in WorkerState /\ wk \in [Worker -> WorkerState]
  BY DEF TypeInv, GoodWorkers
<1>2. wk'[w] = [wk[w] EXCEPT !.pc = "get", !.ev = ev, !.seen = None]
  BY <1>1 DEF Send
<1> QED
  BY <1>1, <1>2 DEF WorkerState

LEMMA GoesOn ==
    ASSUME TypeInv, NEW w \in Worker, NEW pc2, GoOn(w, pc2)
    PROVE  /\ wk'[w].pc = pc2 /\ wk'[w].item = wk[w].item /\ wk'[w].back = wk[w].back
           /\ wk'[w].ev = wk[w].ev /\ wk'[w].seen = wk[w].seen
<1>1. wk[w] \in WorkerState /\ wk \in [Worker -> WorkerState]
  BY DEF TypeInv, GoodWorkers
<1>2. wk'[w] = [wk[w] EXCEPT !.pc = pc2]
  BY <1>1 DEF GoOn
<1> QED
  BY <1>1, <1>2 DEF WorkerState

\* The worker keeps its item, to send another event or to push the item back.
InHand(w) ==
    /\ wk'[w].item = wk[w].item
    /\ wk'[w].pc \in {"get", "work"} \/ (wk'[w].pc = "relGet" /\ wk'[w].back)

LEMMA RaiseInHand ==
    ASSUME TypeInv, NEW w \in Worker, Raise(w) PROVE InHand(w)
BY Leaves, Sends DEF Raise, InHand

LEMMA Decides ==
    ASSUME TypeInv, NEW w \in Worker, NEW seen, Decided(w, seen)
    PROVE  \/ InHand(w)
           \/ /\ wk'[w].pc = "write" /\ wk'[w].item = wk[w].item /\ wk'[w].seen = seen
<1>1. wk[w] \in WorkerState /\ wk \in [Worker -> WorkerState]
  BY DEF TypeInv, GoodWorkers
<1>2. CASE wk' = [wk EXCEPT ![w] = [@ EXCEPT !.pc = "write", !.seen = seen]]
  <2>1. wk'[w] = [wk[w] EXCEPT !.pc = "write", !.seen = seen]
    BY <1>1, <1>2
  <2> QED
    BY <1>1, <2>1 DEF WorkerState
<1>3. CASE Raise(w)
  BY <1>3, RaiseInHand
<1> QED
  BY <1>2, <1>3 DEF Decided

LEMMA Releases ==
    ASSUME TypeInv, NEW w \in Worker, Released(w)
    PROVE  \/ /\ wk[w].back /\ wk'[w].back
              /\ wk'[w].pc = "push" /\ wk'[w].item = wk[w].item
           \/ ~wk[w].back /\ wk'[w] = Idle
<1>1. wk[w] \in WorkerState /\ wk \in [Worker -> WorkerState]
  BY DEF TypeInv, GoodWorkers
<1>2. CASE wk[w].back
  <2>1. wk'[w] = [wk[w] EXCEPT !.pc = "push"]
    BY <1>1, <1>2 DEF Released
  <2>2. wk'[w].pc = "push" /\ wk'[w].item = wk[w].item /\ wk'[w].back = wk[w].back
    BY <1>1, <2>1 DEF WorkerState
  <2> QED
    BY <1>2, <2>2
<1>3. CASE ~wk[w].back
  <2>1. wk'[w] = Idle
    BY <1>1, <1>3 DEF Released
  <2> QED
    BY <1>3, <2>1
<1> QED
  BY <1>2, <1>3

\* Submissions and the monitor are where they were, what was active is, and no state or
\* row appears or goes.
LEMMA ActiveKeeps ==
    ASSUME KeepParts, MonitorInv,
           UNCHANGED <<sub, reply, local, health, monitor>>,
           \A x \in Strategy : Active(x) => Active(x)',
           \A x \in Strategy : /\ state'[x] = None <=> state[x] = None
                               /\ status'[x] = None <=> status[x] = None
    PROVE  (CreatedInv /\ FlushInv /\ EnqueuedInv)'
<1>1. CreatedInv'
  BY DEF KeepParts, CreatedInv
<1>2. FlushInv'
  <2>1. \A k \in DOMAIN local : local[k] \in Strategy
    BY DEF MonitorInv
  <2> QED
    BY <2>1 DEF KeepParts, FlushInv
<1>3. EnqueuedInv'
  BY DEF KeepParts, EnqueuedInv, InLocal, Accepted, SubAt
<1> QED
  BY <1>1, <1>2, <1>3

\* A step of the worker that leaves the queue, the states and the rows alone.
LEMMA HandKeeps ==
    ASSUME IntakeInv, KeepParts, SoleWorker, NEW w \in Worker,
           UNCHANGED <<queue, state, status, poll, sub, reply, local, health, monitor>>,
           \A x \in Strategy : Holds(w, x) => Holds(w, x)' \/ \E k \in DOMAIN queue : queue[k] = x,
           wk'[w].pc \in {"lock", "pop"} => queue # <<>> /\ Head(queue) = wk'[w].item,
           wk'[w].pc = "getDb" => /\ state[wk'[w].item] \in {None, "queued"}
                                  /\ status[wk'[w].item] \in {None, "queued"},
           wk'[w].pc = "cache" => wk'[w].seen = "queued" /\ state[wk'[w].item] = "queued",
           wk'[w].pc = "write" => wk'[w].seen = state[wk'[w].item],
           wk'[w].pc # "record",
           wk'[w].pc = "push" => wk'[w].back
    PROVE  KeepParts'
<1>1. \A v \in Worker : v = w
  BY DEF SoleWorker
<1>2. HeadInv'
  BY <1>1 DEF HeadInv, Item
<1>3. ReadInv'
  BY <1>1 DEF KeepParts, ReadInv, Item
<1>4. \A x \in Strategy : Active(x) => Active(x)'
  BY <1>1 DEF Active
<1>5. (CreatedInv /\ FlushInv /\ EnqueuedInv)'
  BY <1>4, ActiveKeeps DEF IntakeInv
<1> QED
  BY <1>2, <1>3, <1>5 DEF KeepParts

\* While nothing has failed no failure has been counted.
LEMMA NothingFails ==
    ASSUME TypeInv, Undisturbed'
    PROVE  ~Spend("redis") /\ ~Spend("db") /\ ~Spend("crashes")
<1>1. {"redis", "db", "crashes"} \subseteq DOMAIN Bounds
  BY DEF Bounds
<1> QED
  BY <1>1, CalmSpends

\* LINDEX and SET NX: the worker takes up the head, and no one else pops.
LEMMA LookKeeps ==
    ASSUME IntakeInv, KeepParts, SoleWorker, NEW w \in Worker, UNCHANGED ivars, Look(w)
    PROVE  KeepParts'
<1>1. wk \in [Worker -> WorkerState] /\ Idle \in WorkerState
  BY GoodIdle DEF IntakeInv, TypeInv, GoodWorkers, Good
<1>2. wk'[w] = [Idle EXCEPT !.pc = "lock", !.item = Head(queue)]
  BY <1>1 DEF Look
<1>3. wk'[w].pc = "lock" /\ wk'[w].item = Head(queue)
  BY <1>1, <1>2 DEF WorkerState
<1>4. wk[w].item = None /\ None \notin Strategy /\ queue # <<>>
  BY QueueConstants DEF Look, IntakeInv, TypeInv, TypeOK, At, Item
<1> QED
  BY <1>3, <1>4, HandKeeps DEF Look, ivars, Holds, Item

LEMMA SetLockKeeps ==
    ASSUME IntakeInv, KeepParts, SoleWorker, NEW w \in Worker, UNCHANGED ivars, Undisturbed', SetLock(w)
    PROVE  KeepParts'
<1>1. TypeInv /\ ~Spend("redis")
  BY NothingFails DEF IntakeInv
<1>2. /\ wk[w].pc = "lock" /\ queue # <<>> /\ Head(queue) = wk[w].item
      /\ queue \in Seq(Strategy)
  BY DEF SetLock, At, KeepParts, HeadInv, Item, IntakeInv, TypeInv, TypeOK
<1>3. queue[1] = wk[w].item /\ 1 \in DOMAIN queue
  BY <1>2
<1>4. (wk'[w].pc = "pop" /\ wk'[w].item = wk[w].item) \/ wk'[w] = Idle
  <2>1. GoOn(w, "pop") \/ wk' = [wk EXCEPT ![w] = Idle]
    BY <1>1 DEF SetLock
  <2>2. wk \in [Worker -> WorkerState]
    BY <1>1 DEF TypeInv, GoodWorkers
  <2> QED
    BY <1>1, <2>1, <2>2, GoesOn
<1>5. \A x \in Strategy : Holds(w, x) => \E k \in DOMAIN queue : queue[k] = x
  BY <1>3 DEF Holds, Item
<1> QED
  BY <1>2, <1>4, <1>5, HandKeeps DEF SetLock, ivars, Idle

\* LPOP: what goes from the queue is in the hands of the worker.
LEMMA PopKeeps ==
    ASSUME IntakeInv, KeepParts, SoleWorker, NEW w \in Worker, UNCHANGED ivars, Undisturbed', Pop(w)
    PROVE  KeepParts'
<1>1. TypeInv /\ ~Spend("redis") /\ queue \in Seq(Strategy)
  BY NothingFails DEF IntakeInv, TypeInv, TypeOK
<1>2. wk[w].pc = "pop" /\ queue # <<>> /\ Head(queue) = wk[w].item
  BY DEF Pop, At, KeepParts, HeadInv, Item
<1>3. queue' = Tail(queue) /\ GoOn(w, "acquire")
  BY <1>1, <1>2 DEF Pop, Item
<1>4. wk'[w].pc = "acquire" /\ wk'[w].item = wk[w].item
  BY <1>1, <1>3, GoesOn
<1>5. \A v \in Worker : v = w
  BY DEF SoleWorker
<1>6. UNCHANGED <<state, status, poll, sub, reply, local, health, monitor>>
  BY DEF Pop, ivars
<1>7. ASSUME NEW x \in Strategy, Active(x) PROVE Active(x)'
  <2>1. CASE \E k \in DOMAIN queue : queue[k] = x
    <3>1. PICK k \in 1 .. Len(queue) : queue[k] = x
      BY <1>1, <2>1
    <3>2. CASE k = 1
      BY <1>1, <1>2, <1>4, <3>1, <3>2 DEF Active, Holds, Item, Processing
    <3>3. CASE k # 1
      <4>1. k - 1 \in 1 .. Len(Tail(queue)) /\ Tail(queue)[k - 1] = x
        BY <1>1, <1>2, <3>1, <3>3
      <4>2. Tail(queue) \in Seq(Strategy)
        BY <1>1, <1>2
      <4>3. k - 1 \in DOMAIN queue' /\ queue'[k - 1] = x
        BY <1>3, <4>1, <4>2
      <4> QED
        BY <4>3 DEF Active
    <3> QED
      BY <3>2, <3>3
  <2>2. CASE Holds(w, x)
    BY <1>4, <2>2 DEF Active, Holds, Item, Processing
  <2> QED
    BY <1>5, <1>6, <1>7, <2>1, <2>2 DEF Active
<1>8. (CreatedInv /\ FlushInv /\ EnqueuedInv)'
  BY <1>6, <1>7, ActiveKeeps DEF IntakeInv
<1>9. HeadInv' /\ ReadInv'
  BY <1>4, <1>5, <1>6 DEF KeepParts, HeadInv, ReadInv
<1> QED
  BY <1>8, <1>9 DEF KeepParts

\* What stays in the hands of the worker, while queue, states and rows are left alone.
LEMMA InHandKeeps ==
    ASSUME IntakeInv, KeepParts, SoleWorker, NEW w \in Worker, InHand(w),
           UNCHANGED <<queue, state, status, poll, sub, reply, local, health, monitor>>
    PROVE  KeepParts'
<1>1. \A x \in Strategy : Holds(w, x) => Holds(w, x)'
  BY DEF InHand, Holds, Item, Processing
<1> QED
  BY <1>1, HandKeeps DEF InHand

\* A refusal of the ownership manager and a failing handler keep the strategy in hand.
LEMMA AcquireKeeps ==
    ASSUME IntakeInv, KeepParts, SoleWorker, NEW w \in Worker, UNCHANGED ivars, Acquire(w) \/ Work(w)
    PROVE  KeepParts'
<1>1. TypeInv
  BY DEF IntakeInv
<1>2. InHand(w)
  BY <1>1, Leaves, Sends DEF Acquire, Work, InHand
<1> QED
  BY <1>2, InHandKeeps DEF Acquire, Work, ivars

\* HGET: without a state there is no row.
LEMMA GetKeeps ==
    ASSUME IntakeInv, KeepParts, SoleWorker, NEW w \in Worker, UNCHANGED ivars, Undisturbed', Get(w)
    PROVE  KeepParts'
<1>1. TypeInv /\ ~Spend("redis")
  BY NothingFails DEF IntakeInv
<1>2. UNCHANGED <<queue, state, status, poll, sub, reply, local, health, monitor>> /\ wk[w].pc = "get"
  BY DEF Get, ivars, At
<1>3. CASE state[Item(w)] # None /\ Decided(w, state[Item(w)])
  <2>1. CASE InHand(w)
    BY <1>2, <2>1, InHandKeeps
  <2>2. CASE wk'[w].pc = "write" /\ wk'[w].item = wk[w].item /\ wk'[w].seen = state[Item(w)]
    <3>1. \A x \in Strategy : Holds(w, x) => Holds(w, x)'
      BY <2>2 DEF Holds, Item, Processing
    <3> QED
      BY <1>2, <2>2, <3>1, HandKeeps DEF Item
  <2> QED
    BY <1>1, <1>3, <2>1, <2>2, Decides
<1>4. CASE state[Item(w)] = None /\ GoOn(w, "getDb")
  <2>1. wk'[w].pc = "getDb" /\ wk'[w].item = wk[w].item
    BY <1>1, <1>4, GoesOn
  <2>2. wk[w].item \in Strategy
    BY <1>1, <1>2 DEF TypeInv, TypeOK, Item, At, WorkerState
  <2>3. status[wk[w].item] = None
    BY <1>4, <2>2 DEF KeepParts, CreatedInv, Item
  <2>4. \A x \in Strategy : Holds(w, x) => Holds(w, x)'
    BY <2>1 DEF Holds, Item, Processing
  <2> QED
    BY <1>2, <1>4, <2>1, <2>3, <2>4, HandKeeps DEF Item
<1> QED
  BY <1>1, <1>3, <1>4 DEF Get

\* get_status: a row means that the state is there by now.
LEMMA GetDbKeeps ==
    ASSUME IntakeInv, KeepParts, SoleWorker, NEW w \in Worker, UNCHANGED ivars, Undisturbed', GetDb(w)
    PROVE  KeepParts'
<1>1. TypeInv /\ ~Spend("db")
  BY NothingFails DEF IntakeInv
<1>2. UNCHANGED <<queue, state, status, poll, sub, reply, local, health, monitor>> /\ wk[w].pc = "getDb"
  BY DEF GetDb, ivars, At
<1>3. CASE Raise(w)
  BY <1>1, <1>2, <1>3, RaiseInHand, InHandKeeps
<1>4. CASE /\ status[Item(w)] # None
           /\ wk' = [wk EXCEPT ![w] = [@ EXCEPT !.pc = "cache", !.seen = status[Item(w)]]]
  <2>1. wk \in [Worker -> WorkerState] /\ wk[w] \in WorkerState
    BY <1>1 DEF TypeInv, GoodWorkers
  <2>2. wk'[w] = [wk[w] EXCEPT !.pc = "cache", !.seen = status[Item(w)]]
    BY <1>4, <2>1
  <2>3. wk'[w].pc = "cache" /\ wk'[w].item = wk[w].item /\ wk'[w].seen = status[Item(w)]
    BY <2>1, <2>2 DEF WorkerState
  <2>4. wk[w].item \in Strategy
    BY <1>1, <1>2 DEF TypeInv, TypeOK, Item, At, WorkerState
  <2>5. status[wk[w].item] = "queued" /\ state[wk[w].item] = "queued"
    BY <1>2, <1>4, <2>4 DEF KeepParts, CreatedInv, ReadInv, Item
  <2>6. \A x \in Strategy : Holds(w, x) => Holds(w, x)'
    BY <2>3 DEF Holds, Item, Processing
  <2> QED
    BY <1>2, <2>3, <2>5, <2>6, HandKeeps DEF Item
<1> QED
  BY <1>1, <1>3, <1>4 DEF GetDb

\* The state that is written after the database was asked is the one that is there.
LEMMA CacheKeeps ==
    ASSUME IntakeInv, KeepParts, SoleWorker, NEW w \in Worker, UNCHANGED ivars, Undisturbed', Cache(w)
    PROVE  KeepParts'
<1>1. TypeInv /\ ~Spend("redis") /\ state \in [Strategy -> FsmState \cup {None}]
  BY NothingFails DEF IntakeInv, TypeInv, TypeOK
<1>2. wk[w].seen = state[wk[w].item] /\ state' = [state EXCEPT ![wk[w].item] = wk[w].seen]
  BY <1>1 DEF Cache, At, KeepParts, ReadInv, Item
<1>3. state' = state
  BY <1>1, <1>2
<1>4. UNCHANGED <<queue, state, status, poll, sub, reply, local, health, monitor>> /\ wk[w].pc = "cache"
  BY <1>3 DEF Cache, ivars, At
<1>5. CASE InHand(w)
  BY <1>4, <1>5, InHandKeeps
<1>6. CASE wk'[w].pc = "write" /\ wk'[w].item = wk[w].item /\ wk'[w].seen = wk[w].seen
  <2>1. \A x \in Strategy : Holds(w, x) => Holds(w, x)'
    BY <1>6 DEF Holds, Item, Processing
  <2> QED
    BY <1>2, <1>4, <1>6, <2>1, HandKeeps DEF Item
<1> QED
  BY <1>1, <1>5, <1>6, Decides DEF Cache

\* HSET: no edge of the machine leaves "completed".
LEMMA WriteKeeps ==
    ASSUME IntakeInv, KeepParts, SoleWorker, NEW w \in Worker, UNCHANGED ivars, Undisturbed', Write(w)
    PROVE  KeepParts'
<1>1. TypeInv /\ ~Spend("redis") /\ state \in [Strategy -> FsmState \cup {None}]
  BY NothingFails DEF IntakeInv, TypeInv, TypeOK
<1>2. /\ wk[w].pc = "write" /\ state' = [state EXCEPT ![wk[w].item] = NextState(w)] /\ GoOn(w, "record")
      /\ UNCHANGED <<queue, status, poll, sub, reply, local, health, monitor>>
  BY <1>1 DEF Write, At, Item, ivars
<1>3. /\ wk'[w].pc = "record" /\ wk'[w].item = wk[w].item
      /\ wk'[w].seen = wk[w].seen /\ wk'[w].ev = wk[w].ev
  BY <1>1, <1>2, GoesOn
<1>4. wk[w].item \in Strategy
  BY <1>1, <1>2 DEF TypeInv, TypeOK, Item, At, WorkerState
<1>5. PICK m \in Machine : m[1] = state[wk[w].item] /\ NextState(w) = m[3]
  <2>1. \E m \in Machine : m[1] = wk[w].seen /\ m[2] = wk[w].ev
    BY <1>1, <1>2 DEF TypeInv, GoodWorkers, Good
  <2>2. wk[w].seen = state[wk[w].item]
    BY <1>2 DEF KeepParts, ReadInv, Item
  <2> QED
    BY <2>1, <2>2 DEF NextState
<1>6. /\ state[wk[w].item] # None /\ state[wk[w].item] # "completed" /\ NextState(w) # None
  BY <1>5, QueueConstants DEF Machine, FsmState
<1>7. NextState(w)' = NextState(w)
  BY <1>3 DEF NextState
<1>8. \A v \in Worker : v = w
  BY DEF SoleWorker
<1>9. \A x \in Strategy : Active(x) => Active(x)'
  BY <1>1, <1>2, <1>3, <1>4, <1>6, <1>8 DEF Active, Holds, Item, Processing
<1>10. \A x \in Strategy : state'[x] = None <=> state[x] = None
  BY <1>1, <1>2, <1>4, <1>6
<1>11. (CreatedInv /\ FlushInv /\ EnqueuedInv)'
  BY <1>2, <1>9, <1>10, ActiveKeeps DEF IntakeInv
<1>12. HeadInv' /\ ReadInv'
  BY <1>1, <1>2, <1>3, <1>4, <1>7, <1>8 DEF KeepParts, HeadInv, ReadInv, Item
<1> QED
  BY <1>11, <1>12 DEF KeepParts

\* UPDATE: what is not pushed back after the transition has been completed.
LEMMA RecordKeeps ==
    ASSUME IntakeInv, KeepParts, SoleWorker, NEW w \in Worker, UNCHANGED ivars, Undisturbed', RecordStatus(w)
    PROVE  KeepParts'
<1>1. /\ TypeInv /\ ~Spend("db") /\ status \in [Strategy -> FsmState \cup {None}]
      /\ wk[w] \in WorkerState /\ Good(wk[w])
  BY NothingFails DEF IntakeInv, TypeInv, TypeOK, GoodWorkers
<1>2. /\ wk[w].pc = "record" /\ Sent(w)
      /\ status' = [status EXCEPT ![wk[w].item] = IF status[wk[w].item] = None THEN None ELSE NextState(w)]
      /\ UNCHANGED <<queue, state, poll, sub, reply, local, health, monitor>>
  BY <1>1 DEF RecordStatus, At, Item, ivars
<1>3. wk[w].item \in Strategy
  BY <1>1, <1>2 DEF TypeInv, TypeOK, Item, At, WorkerState
<1>4. PICK m \in Machine : /\ m[1] = wk[w].seen /\ m[2] = wk[w].ev /\ NextState(w) = m[3]
  <2>1. \E m \in Machine : m[1] = wk[w].seen /\ m[2] = wk[w].ev
    BY <1>1, <1>2 DEF Good
  <2> QED
    BY <2>1 DEF NextState
<1>5. NextState(w) # None /\ (wk[w].ev = "COMPLETE" => state[wk[w].item] = "completed")
  <2>1. state[wk[w].item] = NextState(w)
    BY <1>2 DEF KeepParts, ReadInv, Item
  <2> QED
    BY <1>4, <2>1, QueueConstants DEF Machine, FsmState
<1>6. wk[w].ev \in {"PROCESS", "COMPLETE", "FAIL"}
  BY <1>1, <1>4 DEF Machine, Good
<1>7. InHand(w) \/ (wk[w].ev = "COMPLETE" /\ wk'[w].pc = "relGet" /\ wk'[w].item = wk[w].item)
  <2>1. CASE wk[w].ev = "PROCESS"
    BY <1>1, <1>2, <2>1, GoesOn DEF Sent, InHand
  <2>2. CASE wk[w].ev = "COMPLETE"
    BY <1>1, <1>2, <2>2, Leaves DEF Sent
  <2>3. CASE wk[w].ev = "FAIL"
    BY <1>1, <1>2, <2>3, Leaves DEF Sent, InHand
  <2> QED
    BY <1>6, <2>1, <2>2, <2>3
<1>8. \A v \in Worker : v = w
  BY DEF SoleWorker
<1>9. ASSUME NEW x \in Strategy, Active(x) PROVE Active(x)'
  <2>1. Holds(w, x) => Holds(w, x)' \/ state[x] = "completed"
    BY <1>5, <1>7 DEF Holds, InHand, Item, Processing
  <2> QED
    BY <1>2, <1>8, <1>9, <2>1 DEF Active
<1>10. \A x \in Strategy : status'[x] = None <=> status[x] = None
  BY <1>1, <1>2, <1>3, <1>5
<1>11. (CreatedInv /\ FlushInv /\ EnqueuedInv)'
  BY <1>2, <1>9, <1>10, ActiveKeeps DEF IntakeInv
<1>12. HeadInv' /\ ReadInv'
  BY <1>2, <1>7, <1>8 DEF KeepParts, HeadInv, ReadInv, InHand
<1> QED
  BY <1>11, <1>12 DEF KeepParts

\* The release forgets only what is not to be pushed back.
LEMMA ReleaseKeeps ==
    ASSUME IntakeInv, KeepParts, SoleWorker, NEW w \in Worker, UNCHANGED ivars, Undisturbed',
           ReleaseGet(w) \/ ReleaseDel(w)
    PROVE  KeepParts'
<1>1. TypeInv /\ ~Spend("redis")
  BY NothingFails DEF IntakeInv
<1>2. /\ UNCHANGED <<queue, state, status, poll, sub, reply, local, health, monitor>>
      /\ wk[w].pc \in {"relGet", "relDel"}
  BY DEF ReleaseGet, ReleaseDel, ivars, At
<1>3. CASE GoOn(w, "relDel")
  <2>1. wk'[w].pc = "relDel" /\ wk'[w].item = wk[w].item /\ wk'[w].back = wk[w].back
    BY <1>1, <1>3, GoesOn
  <2>2. \A x \in Strategy : Holds(w, x) => Holds(w, x)'
    BY <1>2, <2>1 DEF Holds, Item, Processing
  <2> QED
    BY <1>2, <2>1, <2>2, HandKeeps
<1>4. CASE Released(w)
  <2>1. \/ wk[w].back /\ wk'[w].back /\ wk'[w].pc = "push" /\ wk'[w].item = wk[w].item
        \/ ~wk[w].back /\ wk'[w] = Idle
    BY <1>1, <1>4, Releases
  <2>2. \A x \in Strategy : Holds(w, x) => Holds(w, x)'
    BY <1>2, <2>1 DEF Holds, Item, Processing
  <2> QED
    BY <1>2, <2>1, <2>2, HandKeeps DEF Idle
<1> QED
  BY <1>1, <1>3, <1>4 DEF ReleaseGet, ReleaseDel

\* RPUSH.
LEMMA PushKeeps ==
    ASSUME IntakeInv, KeepParts, SoleWorker, NEW w \in Worker, UNCHANGED ivars, Undisturbed', Push(w)
    PROVE  KeepParts'
<1>1. TypeInv /\ ~Spend("redis") /\ queue \in Seq(Strategy) /\ wk \in [Worker -> WorkerState]
  BY NothingFails DEF IntakeInv, TypeInv, TypeOK, GoodWorkers
<1>2. /\ wk[w].pc = "push" /\ queue' = Append(queue, wk[w].item) /\ wk'[w] = Idle
      /\ UNCHANGED <<state, status, poll, sub, reply, local, health, monitor>>
  BY <1>1 DEF Push, At, Item, ivars
<1>3. wk[w].item \in Strategy
  BY <1>1, <1>2 DEF TypeInv, TypeOK, Item, At, WorkerState
<1>4. /\ queue' \in Seq(Strategy) /\ Len(queue') = Len(queue) + 1
      /\ \A k \in 1 .. Len(queue) : queue'[k] = queue[k]
      /\ queue'[Len(queue) + 1] = wk[w].item
  BY <1>1, <1>2, <1>3
<1>5. \A v \in Worker : v = w
  BY DEF SoleWorker
<1>6. ASSUME NEW x \in Strategy, Active(x) PROVE Active(x)'
  <2>1. CASE \E k \in DOMAIN queue : queue[k] = x
    BY <1>1, <1>4, <2>1 DEF Active
  <2>2. CASE Holds(w, x)
    BY <1>1, <1>4, <2>2 DEF Active, Holds, Item
  <2> QED
    BY <1>2, <1>5, <1>6, <2>1, <2>2 DEF Active
<1>7. (CreatedInv /\ FlushInv /\ EnqueuedInv)'
  BY <1>2, <1>6, ActiveKeeps DEF IntakeInv
<1>8. HeadInv' /\ ReadInv'
  BY <1>2, <1>5 DEF KeepParts, HeadInv, ReadInv, Idle
<1> QED
  BY <1>7, <1>8 DEF KeepParts

\* Every step of the queue, with one worker.
LEMMA QueueKeeps ==
    ASSUME IntakeInv, KeepParts, SoleWorker, [QueueNext]_qvars, UNCHANGED ivars, Undisturbed'
    PROVE  KeepParts'
<1>1. ASSUME NEW w \in Worker, WorkerStep(w) PROVE KeepParts'
  BY <1>1, LookKeeps, SetLockKeeps, PopKeeps, AcquireKeeps, GetKeeps, GetDbKeeps, CacheKeeps,
     WriteKeeps, RecordKeeps, ReleaseKeeps, PushKeeps DEF WorkerStep
<1>2. UNCHANGED <<queue, state, status, poll, sub, reply, local, health, monitor, wk>> => KeepParts'
  BY DEF KeepParts, HeadInv, ReadInv, CreatedInv, FlushInv, EnqueuedInv, Active, InLocal,
         Accepted, SubAt, Holds, Item, NextState
<1>3. ASSUME NEW x \in Strategy, Expire(x) PROVE KeepParts'
  BY <1>2, <1>3 DEF Expire, ivars
<1>4. CASE UNCHANGED qvars
  BY <1>2, <1>4 DEF qvars, ivars
<1>5. \A w \in Worker : ~Crash(w)
  BY NothingFails DEF Crash, IntakeInv
<1>6. \A x \in Strategy : ~StatusRead(x)
  BY NothingFails DEF StatusRead, IntakeInv
<1>7. ~StatusCache
  BY DEF StatusCache, KeepParts, ReadInv
<1> QED
  BY <1>1, <1>3, <1>4, <1>5, <1>6, <1>7 DEF QueueNext

-----------------------------------------------------------------------------
\* What is known of depends on the queue, the states and the workers.
LEMMA ActiveSame ==
    ASSUME UNCHANGED <<wk, queue, state>>
    PROVE  \A x \in Strategy : Active(x)' <=> Active(x)
BY DEF Active, Holds, Item

\* Submissions and the monitor leave the workers alone, and put new strategies at the end
\* of the queue only.
LEMMA WorkersSame ==
    ASSUME TypeInv, KeepParts, UNCHANGED <<wk, poll>>, queue' \in Seq(Strategy), Len(queue) <= Len(queue'),
           \A k \in DOMAIN queue : k \in DOMAIN queue' /\ queue'[k] = queue[k],
           \A x \in Strategy : state'[x] = state[x] \/ (state[x] = None /\ state'[x] = "queued"),
           \A x \in Strategy : status'[x] = status[x]
                \/ (status[x] = None /\ status'[x] = "queued")
    PROVE  /\ HeadInv' /\ ReadInv'
           /\ \A x \in Strategy : Active(x) => Active(x)'
<1>1. queue \in Seq(Strategy) /\ \A w \in Worker : wk[w] \in WorkerState /\ Good(wk[w])
  BY DEF TypeInv, TypeOK, GoodWorkers
<1>2. HeadInv'
  <2> SUFFICES ASSUME NEW w \in Worker, wk[w].pc \in {"lock", "pop"}
               PROVE  queue' # <<>> /\ Head(queue') = wk[w].item
    BY DEF HeadInv, Item
  <2>1. queue # <<>> /\ Head(queue) = wk[w].item
    BY DEF KeepParts, HeadInv, Item
  <2>2. 1 \in DOMAIN queue /\ queue[1] = wk[w].item
    BY <1>1, <2>1
  <2>3. 1 \in DOMAIN queue' /\ queue'[1] = wk[w].item
    BY <2>2
  <2> QED
    BY <2>3
<1>3. ReadInv'
  <2> SUFFICES ASSUME NEW w \in Worker
      PROVE  /\ wk[w].pc = "getDb" => /\ state'[Item(w)] \in {None, "queued"}
                                      /\ status'[Item(w)] \in {None, "queued"}
             /\ wk[w].pc = "cache" => wk[w].seen = "queued" /\ state'[Item(w)] = "queued"
             /\ wk[w].pc = "write" => wk[w].seen = state'[Item(w)]
             /\ wk[w].pc = "record" => state'[Item(w)] = NextState(w)
             /\ wk[w].pc = "push" => wk[w].back
    BY DEF KeepParts, ReadInv, Item, NextState
  <2>1. wk[w].pc # "idle" => Item(w) \in Strategy
    BY <1>1 DEF Good, Item, WorkerState
  <2>2. wk[w].pc \in {"write", "record"} =>
           \E m \in Machine : m[1] = wk[w].seen /\ m[2] = wk[w].ev
    BY <1>1 DEF Good
  <2>3. wk[w].pc \in {"write", "record"} => wk[w].seen # None /\ NextState(w) # None
    <3>1. ASSUME wk[w].pc \in {"write", "record"}
          PROVE  \E m \in Machine : m[1] = wk[w].seen /\ NextState(w) = m[3]
      BY <2>2, <3>1 DEF NextState
    <3> QED
      BY <3>1, QueueConstants DEF Machine, FsmState
  <2>4. wk[w].pc \in {"write", "record", "cache"} => state'[Item(w)] = state[Item(w)]
    BY <2>1, <2>3, QueueConstants DEF KeepParts, ReadInv, FsmState
  <2> QED
    BY <2>1, <2>4 DEF KeepParts, ReadInv
<1>4. ASSUME NEW x \in Strategy, Active(x) PROVE Active(x)'
  <2>1. state[x] = "completed" => state'[x] = "completed"
    BY QueueConstants DEF FsmState
  <2> QED
    BY <1>4, <2>1 DEF Active, Holds, Item
<1> QED
  BY <1>2, <1>3, <1>4

\* A submission before its enqueueing, or that is turned away, has neither state nor row.
LEMMA OutsideKeeps ==
    ASSUME IntakeInv, KeepParts, NEW x \in Strategy,
           UNCHANGED <<queue, status, state, wk, poll, local, health, monitor>>,
           sub[x] \notin {"state", "insert", "done"},
           sub'[x] \notin {"state", "insert"}, ~Accepted(x)',
           \A y \in Strategy \ {x} : sub'[y] = sub[y] /\ reply'[y] = reply[y]
    PROVE  KeepParts'
<1>1. \A y \in Strategy : Active(y)' <=> Active(y)
  BY ActiveSame
<1>2. HeadInv' /\ ReadInv'
  BY DEF KeepParts, HeadInv, ReadInv, Item, NextState
<1>3. CreatedInv'
  BY DEF KeepParts, CreatedInv
<1>4. FlushInv'
  <2>1. \A k \in DOMAIN local : local[k] \in Strategy
    BY DEF IntakeInv, MonitorInv
  <2> QED
    BY <1>1, <2>1 DEF KeepParts, FlushInv
<1>5. EnqueuedInv'
  <2> SUFFICES ASSUME NEW y \in Strategy, (sub[y] \in {"state", "insert"} \/ Accepted(y))'
               PROVE  Active(y)' \/ InLocal(y)'
    BY DEF EnqueuedInv
  <2>1. y # x
    OBVIOUS
  <2>2. sub[y] \in {"state", "insert"} \/ Accepted(y)
    BY <2>1 DEF Accepted, SubAt
  <2> QED
    BY <1>1, <2>2 DEF KeepParts, EnqueuedInv, InLocal
<1> QED
  BY <1>2, <1>3, <1>4, <1>5 DEF KeepParts

\* What a submission and its reply become.
LEMMA Submitted ==
    ASSUME IntakeInv, NEW x \in Strategy
    PROVE  /\ \A pc2 \in SubPc : Moves(x, pc2) =>
                  /\ sub'[x] = pc2
                  /\ \A y \in Strategy \ {x} : sub'[y] = sub[y]
           /\ \A kind, id : Answers(x, kind, id) =>
                  /\ sub'[x] = "done" /\ reply'[x].kind = kind
                  /\ \A y \in Strategy \ {x} : sub'[y] = sub[y] /\ reply'[y] = reply[y]
BY DEF IntakeInv, RepliesInv, Moves, Answers, SubPc

\* The deduplication, its fallback, the commit log and the rollback.
LEMMA DedupeKeeps ==
    ASSUME IntakeInv, KeepParts, NEW x \in Strategy,
           \/ Arrive(x) \/ SaveUnique(x) \/ FallbackGet(x) \/ FallbackSet(x)
           \/ FallbackAgain(x) \/ FallbackHset(x)
           \/ PublishSubmission(x) \/ UndoHash(x) \/ UndoDag(x)
    PROVE  KeepParts'
<1>1. sub[x] \notin {"state", "insert", "done"}
  BY DEF Arrive, SaveUnique, FallbackGet, FallbackSet, FallbackAgain, FallbackHset,
         PublishSubmission, UndoHash, UndoDag, SubAt
<1>2. UNCHANGED <<queue, status, wk, poll, local, health, monitor>>
  BY DEF Arrive, SaveUnique, FallbackGet, FallbackSet, FallbackAgain, FallbackHset,
         PublishSubmission, UndoHash, UndoDag, qvars
<1>3. UNCHANGED state
  <2>1. CASE UndoDag(x)
    <3>1. state \in [Strategy -> FsmState \cup {None}]
      BY DEF IntakeInv, TypeInv, TypeOK
    <3>2. state[x] = None
      BY <1>1 DEF KeepParts, CreatedInv
    <3> QED
      BY <2>1, <3>1, <3>2 DEF UndoDag
  <2>2. CASE ~UndoDag(x)
    BY <2>2 DEF Arrive, SaveUnique, FallbackGet, FallbackSet, FallbackAgain, FallbackHset,
         PublishSubmission, UndoHash, qvars
  <2> QED
    BY <2>1, <2>2
<1>4. \/ \E pc2 \in SubPc \ {"state", "insert", "done"} : Moves(x, pc2) /\ Quiet
      \/ \E kind \in {"duplicate", "failed", "unavailable"} : \E id : Answers(x, kind, id)
  <2>0. {"eval", "fbGet", "fbSet", "fbAgain", "fbHset", "log", "enqueue", "undoHash", "undoDag"}
           \subseteq SubPc \ {"state", "insert", "done"}
    BY DEF SubPc
  <2>1. CASE Arrive(x)
    BY <2>0, <2>1 DEF Arrive, Quiet
  <2>2. CASE SaveUnique(x)
    BY <2>0, <2>2 DEF SaveUnique
  <2>3. CASE FallbackGet(x) \/ FallbackAgain(x)
    BY <2>0, <2>3 DEF FallbackGet, FallbackAgain
  <2>4. CASE FallbackSet(x)
    BY <2>0, <2>4 DEF FallbackSet
  <2>5. CASE FallbackHset(x)
    BY <2>0, <2>5 DEF FallbackHset
  <2>6. CASE PublishSubmission(x)
    BY <2>0, <2>6 DEF PublishSubmission, Quiet
  <2>7. CASE UndoHash(x)
    BY <2>0, <2>7 DEF UndoHash
  <2>8. CASE UndoDag(x)
    BY <2>0, <2>8 DEF UndoDag
  <2> QED
    BY <2>1, <2>2, <2>3, <2>4, <2>5, <2>6, <2>7, <2>8
<1>5. /\ sub'[x] \notin {"state", "insert"} /\ ~Accepted(x)'
      /\ \A y \in Strategy \ {x} : sub'[y] = sub[y] /\ reply'[y] = reply[y]
  <2>1. CASE \E pc2 \in SubPc \ {"state", "insert", "done"} : Moves(x, pc2) /\ Quiet
    BY <2>1, Submitted DEF Quiet, Accepted, SubAt
  <2>2. CASE \E kind \in {"duplicate", "failed", "unavailable"} : \E id : Answers(x, kind, id)
    BY <2>2, Submitted DEF Accepted, SubAt
  <2> QED
    BY <1>4, <2>1, <2>2
<1> QED
  BY <1>1, <1>2, <1>3, <1>5, OutsideKeeps

\* What is enqueued is in the queue, or in a local queue that is not about to be cleared.
LEMMA EnqueueKeeps ==
    ASSUME IntakeInv, KeepParts, NEW x \in Strategy, Undisturbed', Enqueue(x)
    PROVE  KeepParts'
<1>1. TypeInv /\ ~Spend("redis") /\ queue \in Seq(Strategy) /\ local \in Seq(Strategy)
  BY NothingFails DEF IntakeInv, TypeInv, TypeOK, MonitorInv
<1>2. /\ UNCHANGED <<state, status, wk, poll, reply, health, monitor>>
      /\ sub[x] = "enqueue" /\ Moves(x, "state") /\ "state" \in SubPc
  BY <1>1 DEF Enqueue, SubAt, SubPc
<1>3. sub'[x] = "state" /\ \A y \in Strategy \ {x} : sub'[y] = sub[y]
  BY <1>2, Submitted
<1>4. \/ local' = Append(local, x) /\ ~health.dagOk /\ queue' = queue
      \/ queue' = Append(queue, x) /\ local' = local
  BY <1>1 DEF Enqueue
<1>s. ASSUME NEW s \in Seq(Strategy)
      PROVE  /\ Append(s, x) \in Seq(Strategy) /\ Len(s) <= Len(Append(s, x))
             /\ \A k \in DOMAIN s : k \in DOMAIN Append(s, x) /\ Append(s, x)[k] = s[k]
  OBVIOUS
<1>5. /\ queue' \in Seq(Strategy) /\ Len(queue) <= Len(queue')
      /\ \A k \in DOMAIN queue : k \in DOMAIN queue' /\ queue'[k] = queue[k]
  BY <1>1, <1>4, <1>s
<1>6. \A k \in DOMAIN local : k \in DOMAIN local' /\ local'[k] = local[k]
  BY <1>1, <1>4, <1>s
<1>7. HeadInv' /\ ReadInv' /\ \A y \in Strategy : Active(y) => Active(y)'
  BY <1>1, <1>2, <1>5, WorkersSame
<1>8. CreatedInv'
  BY <1>2, <1>3 DEF KeepParts, CreatedInv
<1>9. FlushInv'
  <2> SUFFICES ASSUME monitor.pc = "clear"
               PROVE  (health.dagOk /\ \A k \in DOMAIN local : Active(local[k]))'
    BY <1>2 DEF FlushInv
  <2>1. health.dagOk /\ \A k \in DOMAIN local : local[k] \in Strategy /\ Active(local[k])
    BY <1>1 DEF KeepParts, FlushInv
  <2>2. local' = local /\ health' = health
    BY <1>2, <1>4, <2>1
  <2> QED
    BY <1>7, <2>1, <2>2
<1>10. EnqueuedInv'
  <2>1. Active(x)' \/ InLocal(x)'
    <3>1. CASE local' = Append(local, x)
      <4>1. Len(local) + 1 \in DOMAIN local' /\ local'[Len(local) + 1] = x
        BY <1>1, <3>1
      <4> QED
        BY <4>1 DEF InLocal
    <3>2. CASE queue' = Append(queue, x)
      <4>1. Len(queue) + 1 \in DOMAIN queue' /\ queue'[Len(queue) + 1] = x
        BY <1>1, <3>2
      <4> QED
        BY <4>1 DEF Active
    <3> QED
      BY <1>4, <3>1, <3>2
  <2>2. ASSUME NEW y \in Strategy \ {x}, (sub[y] \in {"state", "insert"} \/ Accepted(y))'
        PROVE  Active(y)' \/ InLocal(y)'
    <3>1. sub[y] \in {"state", "insert"} \/ Accepted(y)
      BY <1>2, <1>3, <2>2 DEF Accepted, SubAt
    <3>2. Active(y) \/ InLocal(y)
      BY <3>1 DEF KeepParts, EnqueuedInv
    <3> QED
      BY <1>6, <1>7, <3>2 DEF InLocal
  <2> QED
    BY <2>1, <2>2 DEF EnqueuedInv
<1> QED
  BY <1>7, <1>8, <1>9, <1>10 DEF KeepParts

\* StrategyFSM.create in its two steps, with a worker that has met the strategy already.
LEMMA CreateKeeps ==
    ASSUME IntakeInv, KeepParts, NEW x \in Strategy, Undisturbed', CreateState(x) \/ InsertStatus(x)
    PROVE  KeepParts'
<1>1. /\ TypeInv /\ ~Spend("redis") /\ ~Spend("db") /\ queue \in Seq(Strategy)
      /\ local \in Seq(Strategy)
      /\ state \in [Strategy -> FsmState \cup {None}] /\ status \in [Strategy -> FsmState \cup {None}]
  BY NothingFails DEF IntakeInv, TypeInv, TypeOK, MonitorInv
<1>2. UNCHANGED <<queue, wk, poll, local, health, monitor>> /\ sub[x] \in {"state", "insert"}
  BY DEF CreateState, InsertStatus, SubAt
<1>3. \/ /\ sub[x] = "state" /\ state' = [state EXCEPT ![x] = "queued"] /\ status' = status
         /\ sub'[x] = "insert" /\ reply' = reply
      \/ /\ sub[x] = "insert" /\ status' = [status EXCEPT ![x] = "queued"] /\ state' = state
         /\ sub'[x] = "done"
  <2>1. CASE CreateState(x)
    <3>1. Moves(x, "insert") /\ "insert" \in SubPc
      BY <1>1, <2>1 DEF CreateState, SubPc
    <3>2. sub'[x] = "insert"
      BY <3>1, Submitted
    <3> QED
      BY <1>1, <2>1, <3>2 DEF CreateState, SubAt, Quiet
  <2>2. CASE InsertStatus(x)
    <3>1. sub'[x] = "done"
      BY <1>1, <2>2, Submitted DEF InsertStatus
    <3> QED
      BY <1>1, <2>2, <3>1 DEF InsertStatus, SubAt
  <2> QED
    BY <2>1, <2>2
<1>4. \A y \in Strategy \ {x} : sub'[y] = sub[y] /\ reply'[y] = reply[y]
  <2>1. CASE CreateState(x)
    <3>1. Moves(x, "insert") /\ "insert" \in SubPc /\ reply' = reply
      BY <1>1, <2>1 DEF CreateState, SubPc, Quiet
    <3> QED
      BY <3>1, Submitted
  <2>2. CASE InsertStatus(x)
    BY <1>1, <2>2, Submitted DEF InsertStatus
  <2> QED
    BY <2>1, <2>2
<1>5. /\ status[x] = None
      /\ sub[x] = "state" => state[x] = None
      /\ sub[x] = "insert" => state[x] # None
  BY <1>2 DEF KeepParts, CreatedInv
<1>6. /\ \A y \in Strategy : state'[y] = state[y] \/ (state[y] = None /\ state'[y] = "queued")
      /\ \A y \in Strategy : status'[y] = status[y]
           \/ (status[y] = None /\ status'[y] = "queued")
  BY <1>1, <1>3, <1>5
<1>7. HeadInv' /\ ReadInv' /\ \A y \in Strategy : Active(y) => Active(y)'
  BY <1>1, <1>2, <1>6, WorkersSame
<1>8. CreatedInv'
  <2>1. "queued" # None
    BY QueueConstants DEF FsmState
  <2>2. /\ sub'[x] \notin {"insert", "done"} => state'[x] = None
        /\ sub'[x] # "done" => status'[x] = None
        /\ sub'[x] = "insert" => state'[x] # None
        /\ status'[x] # None => state'[x] # None
    BY <1>1, <1>3, <1>5, <2>1
  <2>3. \A y \in Strategy \ {x} : state'[y] = state[y] /\ status'[y] = status[y]
    BY <1>1, <1>3
  <2> QED
    BY <1>4, <2>2, <2>3 DEF KeepParts, CreatedInv
<1>9. FlushInv'
  <2>1. \A k \in DOMAIN local : local[k] \in Strategy
    BY <1>1
  <2> QED
    BY <1>2, <1>7, <2>1 DEF KeepParts, FlushInv
<1>10. EnqueuedInv'
  <2> SUFFICES ASSUME NEW y \in Strategy, (sub[y] \in {"state", "insert"} \/ Accepted(y))'
               PROVE  Active(y)' \/ InLocal(y)'
    BY DEF EnqueuedInv
  <2>1. sub[y] \in {"state", "insert"} \/ Accepted(y)
    BY <1>2, <1>4 DEF Accepted, SubAt
  <2>2. Active(y) \/ InLocal(y)
    BY <2>1 DEF KeepParts, EnqueuedInv
  <2> QED
    BY <1>2, <1>7, <2>2 DEF InLocal
<1> QED
  BY <1>7, <1>8, <1>9, <1>10 DEF KeepParts

\* DegradationManager.update.
Monitors == Update \/ (\E dagOk, redisOk \in BOOLEAN : Check(dagOk, redisOk))

\* DegradationManager.update: what is cleared has been pushed, and nothing is put into the
\* local queue in between.
LEMMA MonitorKeeps ==
    ASSUME IntakeInv, KeepParts, Undisturbed',
           Monitors
    PROVE  KeepParts'
<1>1. TypeInv /\ ~Spend("redis") /\ queue \in Seq(Strategy) /\ local \in Seq(Strategy)
  BY NothingFails DEF IntakeInv, TypeInv, TypeOK, MonitorInv
<1>2. UNCHANGED <<state, status, wk, poll, sub, reply>>
  <2>1. CASE FlushPush
    BY <2>1 DEF FlushPush
  <2>2. CASE FlushSkip \/ FlushClear \/ SetLevel
    BY <2>2 DEF FlushSkip, FlushClear, SetLevel, qvars
  <2>3. CASE \E dagOk, redisOk \in BOOLEAN : Check(dagOk, redisOk)
    BY <2>3 DEF Check, qvars
  <2> QED
    BY <2>1, <2>2, <2>3 DEF Monitors, Update
<1>3. CreatedInv'
  BY <1>2 DEF KeepParts, CreatedInv
<1>4. CASE FlushPush
  <2>1. queue' = queue \o local /\ monitor'.pc = "clear" /\ health.dagOk /\ UNCHANGED <<local, health>>
    BY <1>1, <1>4 DEF FlushPush, IntakeInv, MonitorInv
  <2>2. /\ queue' \in Seq(Strategy) /\ Len(queue) <= Len(queue')
        /\ \A k \in DOMAIN queue : k \in DOMAIN queue' /\ queue'[k] = queue[k]
    BY <1>1, <2>1
  <2>3. HeadInv' /\ ReadInv' /\ \A y \in Strategy : Active(y) => Active(y)'
    BY <1>1, <1>2, <2>2, WorkersSame
  <2>4. ASSUME NEW k \in DOMAIN local PROVE Active(local[k])'
    <3>1. Len(queue) + k \in DOMAIN queue' /\ queue'[Len(queue) + k] = local[k]
      BY <1>1, <2>1
    <3>2. (\E j \in DOMAIN queue : queue[j] = local[k])'
      BY <2>1, <3>1
    <3> QED
      BY <3>2 DEF Active
  <2>5. FlushInv'
    BY <2>1, <2>4 DEF FlushInv
  <2>6. EnqueuedInv'
    BY <1>2, <2>1, <2>3 DEF KeepParts, EnqueuedInv, InLocal, Accepted, SubAt
  <2> QED
    BY <1>3, <2>3, <2>5, <2>6 DEF KeepParts
<1>5. CASE ~FlushPush
  <2>1. /\ queue' = queue /\ monitor'.pc # "clear"
        /\ local' = local \/ \A k \in DOMAIN local : Active(local[k])
    <3>1. CASE \E dagOk, redisOk \in BOOLEAN : Check(dagOk, redisOk)
      BY <3>1 DEF Check, qvars
    <3>2. CASE FlushSkip
      BY <3>2 DEF FlushSkip, qvars, IntakeInv, MonitorInv
    <3>3. CASE FlushClear
      BY <3>3 DEF FlushClear, qvars, IntakeInv, MonitorInv, KeepParts, FlushInv
    <3>4. CASE SetLevel
      BY <3>4 DEF SetLevel, qvars
    <3> QED
      BY <1>5, <3>1, <3>2, <3>3, <3>4 DEF Monitors, Update
  <2>2. \A y \in Strategy : Active(y)' <=> Active(y)
    BY <1>2, <2>1, ActiveSame
  <2>3. HeadInv' /\ ReadInv'
    BY <1>2, <2>1 DEF KeepParts, HeadInv, ReadInv, Item, NextState
  <2>4. FlushInv'
    BY <2>1 DEF FlushInv
  <2>6. EnqueuedInv'
    BY <1>2, <2>1, <2>2 DEF KeepParts, EnqueuedInv, InLocal, Accepted, SubAt
  <2> QED
    BY <1>3, <2>3, <2>4, <2>6 DEF KeepParts
<1> QED
  BY <1>4, <1>5

\* What has not failed after a step had not failed before it.
LEMMA StillUndisturbed ==
    ASSUME IntakeInv, [Next]_vars, Undisturbed' PROVE Undisturbed
<1>1. TypeInv /\ ~Spend("redis") /\ ~Spend("db")
  BY NothingFails DEF IntakeInv
<1>2. Free => Undisturbed
  BY DEF Free, Undisturbed
<1>3. ASSUME NEW x \in Strategy, Submit(x) PROVE Undisturbed
  BY <1>1, <1>2, <1>3 DEF Submit, Arrive, SaveUnique, FallbackGet, FallbackSet, FallbackAgain,
     FallbackHset, PublishSubmission, Enqueue, UndoHash, UndoDag, CreateState, InsertStatus,
     qvars, Free
<1>4. CASE Monitors
  <2>1. CASE FlushPush
    BY <1>1, <1>2, <2>1 DEF FlushPush
  <2>2. CASE FlushSkip \/ FlushClear \/ SetLevel
    BY <1>2, <2>2 DEF FlushSkip, FlushClear, SetLevel, qvars, Free
  <2>3. CASE \E dagOk, redisOk \in BOOLEAN : Check(dagOk, redisOk)
    BY <1>2, <2>3 DEF Check, qvars, Free
  <2> QED
    BY <1>4, <2>1, <2>2, <2>3 DEF Monitors, Update
<1>5. CASE [QueueNext]_qvars
  BY <1>1, <1>5, DisturbancesGrow
<1> QED
  BY <1>3, <1>4, <1>5 DEF Next, Monitors, vars

LEMMA KeepInit == IntakeInit => KeepInv
<1> SUFFICES ASSUME IntakeInit PROVE KeepInv
  OBVIOUS
<1>1. HeadInv /\ ReadInv
  BY DEF IntakeInit, HeadInv, ReadInv, Idle
<1>2. CreatedInv /\ FlushInv /\ EnqueuedInv
  BY DEF IntakeInit, CreatedInv, FlushInv, EnqueuedInv, Accepted, SubAt
<1> QED
  BY <1>1, <1>2, IntakeInitInv DEF KeepInv, KeepParts

LEMMA KeepStep == ASSUME SoleWorker PROVE KeepInv /\ [Next]_vars => KeepInv'
<1> SUFFICES ASSUME KeepInv, [Next]_vars PROVE KeepInv'
  OBVIOUS
<1>1. IntakeInv'
  BY IntakeStepInv DEF KeepInv
<1>2. ASSUME Undisturbed' PROVE KeepParts'
  <2>1. IntakeInv /\ KeepParts
    BY <1>2, StillUndisturbed DEF KeepInv
  <2>2. ASSUME NEW x \in Strategy, Submit(x) PROVE KeepParts'
    BY <1>2, <2>1, <2>2, DedupeKeeps, EnqueueKeeps, CreateKeeps DEF Submit
  <2>3. CASE Monitors
    BY <1>2, <2>1, <2>3, MonitorKeeps
  <2>4. CASE [QueueNext]_qvars /\ UNCHANGED ivars
    BY <1>2, <2>1, <2>4, QueueKeeps
  <2> QED
    BY <2>2, <2>3, <2>4 DEF Next, Monitors, vars
<1> QED
  BY <1>1, <1>2 DEF KeepInv

\* As long as Redis and the database answer, one worker loses no accepted strategy: it is in
\* the local queue of the degradation manager, its flush, the Redis list or the worker's
\* hands until it is completed.  With a second worker it is false (pop drops what it did not
\* look at).
THEOREM AcceptedAlwaysKept ==
    ASSUME SoleWorker
    PROVE  Spec => []AcceptedIsKept
<1>1. KeepInv => AcceptedIsKept
  BY DEF KeepInv, KeepParts, EnqueuedInv, AcceptedIsKept, Active, InLocal
<1> QED
  BY <1>1, KeepInit, KeepStep, PTL DEF Spec
=============================================================================
