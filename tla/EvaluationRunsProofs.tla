------------------------ MODULE EvaluationRunsProofs -------------------------
(***************************************************************************)
(* Proofs about EvaluationRuns: the store keeps what it has answered for,    *)
(* and only what the policy allows is promoted, for any number of runs,      *)
(* requests, overlapping writers and failing calls.                          *)
(***************************************************************************)
EXTENDS EvaluationRuns, FiniteSetTheorems, TLAPS

Writing == {"number", "insert", "row", "audit"}
Promoting == {"plan", "current", "judge", "apply"}
Marks == {j.mark : j \in JobsOf({"evaluate", "override"})} \cup {r.mark : r \in AtFirst} \cup {None}
Cases == {j.case : j \in JobsOf({"failure"})} \cup UNION {r.cases : r \in AtFirst}
Member == LiveAtFirst \cup UNION ({j.set : j \in JobsOf({"evaluate"})} \cup {r.set : r \in AtFirst})

EvalPc == {"idle", "look", "read", "list", "check", "pick"} \cup Writing \cup Promoting
Drafts == EvalRecord \cup {None} \cup UNION {[ks -> EvalRecord] : ks \in SUBSET EvalKey}
Plans == [activate : SUBSET Member, deactivate : SUBSET Member]
Todo == Plans \cup SUBSET EvalKey
TaskState ==
    [pc : EvalPc, job : Jobs \cup {None}, key : EvalKey \cup {None}, todo : Todo,
     draft : Drafts, rev : Nat]

\* A revision of run k is r.
Told(k, r) == \E i \in DOMAIN evalHist[k] : evalHist[k][i] = r

\* The rows are revisions, and what was answered is in one.
RowInv(k) ==
    /\ evalRow[k] # None => Told(k, evalRow[k]) /\ evalRow[k].ext <= Len(evalHist[k])
    /\ acked[k].mark # None => \E i \in DOMAIN evalHist[k] : evalHist[k][i].mark = acked[k].mark
    /\ \A c \in acked[k].cases : \E i \in DOMAIN evalHist[k] : c \in evalHist[k][i].cases

TablesInv ==
    /\ evalRow \in [EvalKey -> EvalRecord \cup {None}]
    /\ evalHist \in [EvalKey -> Seq(EvalRecord)]
    /\ acked \in [EvalKey -> [mark : Marks, cases : SUBSET Cases]]
    /\ mixed \subseteq EvalKey
    /\ \A k \in EvalKey : RowInv(k)

\* The runs of which a task has a record in hand that is not yet in the history.
Pending(t) == work[t].todo \cup (IF WorkAt(t, "insert") THEN {work[t].key} ELSE {})

\* A record in hand carries what its request is about, and becomes a revision.
DraftInv(t) ==
    LET d == work[t].draft IN
    /\ Job(t).op \in {"evaluate", "override", "failure", "extend"}
    /\ DOMAIN d \subseteq Writes(Job(t)) /\ d \in [DOMAIN d -> EvalRecord]
    /\ work[t].todo \subseteq DOMAIN d
    /\ ~WorkAt(t, "number") => work[t].key \in DOMAIN d \ work[t].todo
    /\ Job(t).op = "override" => \A k \in DOMAIN d : d[k].mark = Job(t).mark
    /\ Job(t).op = "failure" => \A k \in DOMAIN d : Job(t).case \in d[k].cases
    /\ \A k \in Pending(t) : d[k].ext <= Len(evalHist[k]) + 1
    /\ work[t].pc \in {"row", "audit"} =>
         Told(work[t].key, Draft(t)) /\ Draft(t).ext <= Len(evalHist[work[t].key])

\* A promotion has a run that has a row, then a record of it, then a plan.
PlanInv(t) ==
    /\ Job(t).op \in {"promote", "auto"}
    /\ work[t].key \in EvalKey /\ evalRow[work[t].key] # None
    /\ ~WorkAt(t, "plan") => work[t].draft \in EvalRecord
    /\ work[t].pc \in {"judge", "apply"} => work[t].todo \in Plans

\* Where a request is tells what it is about.
TaskInv(t) ==
    /\ WorkAt(t, "idle") <=> Job(t) = None
    /\ work[t].pc \in {"look", "read"} => Job(t).op \in {"override", "failure"}
    /\ WorkAt(t, "list") => Job(t).op \in {"evaluate", "extend"}
    /\ WorkAt(t, "check") => Job(t).op = "promote"
    /\ WorkAt(t, "pick") => Job(t).op = "auto"
    /\ work[t].pc \in Writing => DraftInv(t)
    /\ work[t].pc \in Promoting => PlanInv(t)

StoreInv ==
    /\ work \in [Task -> TaskState]
    /\ TablesInv
    /\ \A t \in Task : TaskInv(t)

-----------------------------------------------------------------------------
\* EvalTypeOK and HistoryTellsAll follow.
LEMMA StoreTells == StoreInv => EvalTypeOK /\ HistoryTellsAll
<1> SUFFICES ASSUME StoreInv PROVE EvalTypeOK /\ HistoryTellsAll
  OBVIOUS
<1>1. EvalTypeOK
  BY DEF StoreInv, TablesInv, RowInv, TaskInv, EvalTypeOK
<1>2. HistoryTellsAll
  BY DEF StoreInv, TablesInv, RowInv, Told, HistoryTellsAll, InHistory
<1> QED
  BY <1>1, <1>2

\* The record with another override, one more failure or one more extended revision.
LEMMA RecordChanged ==
    ASSUME NEW r \in EvalRecord
    PROVE  /\ \A j \in JobsOf({"override"}) :
                /\ Revised(r, j) \in EvalRecord
                /\ Revised(r, j).mark = j.mark /\ Revised(r, j).cases = r.cases
                /\ Revised(r, j).ext = r.ext
           /\ \A j \in JobsOf({"failure"}) :
                /\ Revised(r, j) \in EvalRecord
                /\ Revised(r, j).mark = r.mark /\ Revised(r, j).cases = r.cases \cup {j.case}
                /\ Revised(r, j).ext = r.ext
           /\ Extended(r) \in EvalRecord
           /\ Extended(r).mark = r.mark /\ Extended(r).cases = r.cases
           /\ Extended(r).ext = r.ext + 1
<1>1. ASSUME NEW j \in JobsOf({"override"})
      PROVE  /\ Revised(r, j) \in EvalRecord
             /\ Revised(r, j).mark = j.mark /\ Revised(r, j).cases = r.cases
             /\ Revised(r, j).ext = r.ext
  <2>1. j.op = "override" /\ Revised(r, j) = [r EXCEPT !.mark = j.mark]
    BY DEF Revised, JobsOf
  <2>2. j \in JobsOf({"evaluate", "override"})
    BY DEF JobsOf
  <2>3. j.mark \in {i.mark : i \in JobsOf({"evaluate", "override"})}
    BY <2>2
  <2> QED
    BY <2>1, <2>3 DEF EvalRecord
<1>2. ASSUME NEW j \in JobsOf({"failure"})
      PROVE  /\ Revised(r, j) \in EvalRecord
             /\ Revised(r, j).mark = r.mark /\ Revised(r, j).cases = r.cases \cup {j.case}
             /\ Revised(r, j).ext = r.ext
  <2>1. j.op = "failure" /\ Revised(r, j) = [r EXCEPT !.cases = r.cases \cup {j.case}]
    BY DEF Revised, JobsOf, EvalRecord
  <2> QED
    BY <2>1 DEF EvalRecord
<1>3. /\ Extended(r) \in EvalRecord
      /\ Extended(r).mark = r.mark /\ Extended(r).cases = r.cases
      /\ Extended(r).ext = r.ext + 1
  BY DEF EvalRecord, Extended
<1> QED
  BY <1>1, <1>2, <1>3
-----------------------------------------------------------------------------
(* One task moves *)

LEMMA JobShape ==
    ASSUME NEW j \in Jobs
    PROVE  /\ j.op \in {"evaluate", "override", "failure", "extend", "promote", "auto"}
           /\ j.keys \subseteq EvalKey /\ Writes(j) \subseteq EvalKey
           /\ j.op \in {"override", "failure", "promote"} =>
                (CHOOSE k \in j.keys : TRUE) \in j.keys
           /\ j.op \in {"evaluate", "extend"} =>
                j.scope \subseteq Writes(j) /\ j.keys \subseteq Writes(j)
           /\ j.op \in {"override", "failure"} => j.keys \subseteq Writes(j)
           /\ j # None
<1>1. /\ j.op \in {"evaluate", "override", "failure", "extend", "promote", "auto"}
      /\ j.keys \subseteq EvalKey /\ j # None
      /\ j.op \in {"evaluate", "extend"} => j.scope \subseteq EvalKey
      /\ j.op \in {"override", "failure", "promote"} => j.keys # {}
  BY EvaluationBounds DEF JobsOf
<1> QED
  BY <1>1 DEF Writes

\* Revisions are added, and none is changed; no row is deleted.
HistoryGrows ==
    \A k \in EvalKey :
        /\ evalRow[k] # None => evalRow'[k] # None
        /\ Len(evalHist[k]) <= Len(evalHist'[k])
        /\ DOMAIN evalHist[k] \subseteq DOMAIN evalHist'[k]
        /\ \A i \in DOMAIN evalHist[k] : evalHist'[k][i] = evalHist[k][i]

LEMMA HistorySame == evalHist \in [EvalKey -> Seq(EvalRecord)] /\ UNCHANGED <<evalRow, evalHist>> => HistoryGrows
BY DEF HistoryGrows

\* What a revision tells it goes on telling.
LEMMA ToldStays ==
    ASSUME HistoryGrows, NEW k \in EvalKey, NEW r, Told(k, r)
    PROVE  \E i \in DOMAIN evalHist'[k] : evalHist'[k][i] = r
BY DEF HistoryGrows, Told

LEMMA RowStays ==
    ASSUME HistoryGrows, TablesInv, NEW k \in EvalKey, evalHist' \in [EvalKey -> Seq(EvalRecord)],
           evalRow'[k] = evalRow[k], acked'[k] = acked[k]
    PROVE  RowInv(k)'
<1>1. RowInv(k)
  BY DEF TablesInv
<1>2. Len(evalHist[k]) \in Nat /\ Len(evalHist'[k]) \in Nat
  BY DEF TablesInv
<1>3. evalRow[k] # None => evalRow[k].ext \in Nat
  BY DEF TablesInv, EvalRecord
<1>4. evalRow[k] # None => evalRow[k].ext <= Len(evalHist'[k])
  BY <1>1, <1>2, <1>3 DEF RowInv, HistoryGrows
<1> QED
  BY <1>1, <1>4 DEF RowInv, Told, HistoryGrows

\* Only task t moves, to u.
Moves(t, u) ==
    /\ work' \in [Task -> TaskState]
    /\ work'[t] = u
    /\ \A v \in Task \ {t} : work'[v] = work[v]

LEMMA MovesTo ==
    ASSUME work \in [Task -> TaskState], NEW t \in Task, NEW u \in TaskState,
           work' = [work EXCEPT ![t] = u]
    PROVE  Moves(t, u)
BY DEF Moves

\* The others are where they were, and what they have in hand can still be numbered.
LEMMA OthersStay ==
    ASSUME StoreInv, HistoryGrows, evalHist' \in [EvalKey -> Seq(EvalRecord)],
           NEW t \in Task, NEW u, Moves(t, u), NEW v \in Task \ {t}
    PROVE  TaskInv(v)'
<1>1. work'[v] = work[v] /\ work[v] \in TaskState /\ TaskInv(v)
  BY DEF Moves, StoreInv
<1>2. /\ Job(v)' = Job(v) /\ \A pc : WorkAt(v, pc)' = WorkAt(v, pc)
      /\ Draft(v)' = Draft(v) /\ Pending(v)' = Pending(v)
  BY <1>1 DEF Job, WorkAt, Draft, Pending
<1>3. ASSUME work[v].pc \in Writing PROVE DraftInv(v)'
  <2>1. DraftInv(v)
    BY <1>1, <1>3 DEF TaskInv
  <2>2. Job(v) \in Jobs
    BY <1>1, <1>3 DEF TaskInv, TaskState, Job, WorkAt, Writing
  <2>3. Writes(Job(v)) \subseteq EvalKey
    BY <2>2, JobShape
  <2>4. DOMAIN work[v].draft \subseteq EvalKey
    BY <2>1, <2>3 DEF DraftInv
  <2>5. Pending(v) \subseteq DOMAIN work[v].draft
    BY <2>1 DEF DraftInv, Pending, WorkAt
  <2>6. ASSUME NEW k \in Pending(v) PROVE work[v].draft[k].ext <= Len(evalHist'[k]) + 1
    <3>1. k \in EvalKey /\ work[v].draft[k] \in EvalRecord
      BY <2>1, <2>4, <2>5 DEF DraftInv
    <3>2. work[v].draft[k].ext \in Nat /\ Len(evalHist[k]) \in Nat /\ Len(evalHist'[k]) \in Nat
      BY <3>1 DEF StoreInv, TablesInv, EvalRecord
    <3>3. work[v].draft[k].ext <= Len(evalHist[k]) + 1 /\ Len(evalHist[k]) <= Len(evalHist'[k])
      BY <2>1, <3>1 DEF DraftInv, HistoryGrows
    <3> QED
      BY <3>2, <3>3
  <2>7. ASSUME work[v].pc \in {"row", "audit"}
        PROVE  Told(work[v].key, Draft(v))' /\ Draft(v).ext <= Len(evalHist'[work[v].key])
    <3>1. work[v].key \in DOMAIN work[v].draft
      BY <2>1, <2>7 DEF DraftInv, WorkAt
    <3>2. work[v].key \in EvalKey /\ Draft(v) \in EvalRecord
      BY <2>1, <2>4, <3>1 DEF DraftInv, Draft
    <3>3. Draft(v).ext \in Nat /\ Len(evalHist[work[v].key]) \in Nat /\ Len(evalHist'[work[v].key]) \in Nat
      BY <3>2 DEF StoreInv, TablesInv, EvalRecord
    <3>4. Told(work[v].key, Draft(v)) /\ Draft(v).ext <= Len(evalHist[work[v].key])
      BY <2>1, <2>7 DEF DraftInv
    <3>5. Draft(v).ext <= Len(evalHist'[work[v].key])
      BY <3>2, <3>3, <3>4 DEF HistoryGrows
    <3>6. Told(work[v].key, Draft(v))'
      BY <1>1, <1>2, <3>2, <3>4 DEF Told, HistoryGrows
    <3> QED
      BY <3>5, <3>6
  <2> QED
    BY <1>1, <1>2, <2>1, <2>6, <2>7 DEF DraftInv
<1>4. ASSUME work[v].pc \in Promoting PROVE PlanInv(v)'
  <2>1. PlanInv(v)
    BY <1>1, <1>4 DEF TaskInv
  <2>2. evalRow'[work[v].key] # None
    BY <2>1 DEF PlanInv, HistoryGrows
  <2> QED
    BY <1>1, <1>2, <2>1, <2>2 DEF PlanInv
<1> QED
  BY <1>1, <1>2, <1>3, <1>4 DEF TaskInv

\* A task moves and leaves the tables as they are.
LEMMA MoveInv ==
    ASSUME StoreInv, UNCHANGED <<evalRow, evalHist, acked>>, mixed' \subseteq EvalKey,
           NEW t \in Task, NEW u, Moves(t, u), TaskInv(t)'
    PROVE  StoreInv'
<1>1. HistoryGrows
  BY HistorySame DEF StoreInv, TablesInv
<1>2. evalHist' \in [EvalKey -> Seq(EvalRecord)]
  BY DEF StoreInv, TablesInv
<1>3. \A k \in EvalKey : RowInv(k)'
  BY <1>1, <1>2, RowStays DEF StoreInv
<1>4. TablesInv'
  BY <1>3 DEF StoreInv, TablesInv
<1>5. \A v \in Task : TaskInv(v)'
  BY <1>1, <1>2, OthersStay
<1> QED
  BY <1>4, <1>5 DEF StoreInv, Moves

\* A request that is over.
LEMMA QuitState ==
    ASSUME StoreInv, NEW t \in Task, Quits(t)
    PROVE  Moves(t, NoWork) /\ TaskInv(t)'
<1>1. NoWork \in TaskState
  BY DEF NoWork, TaskState, EvalPc, Todo, Drafts
<1>2. Moves(t, NoWork)
  BY <1>1, MovesTo DEF StoreInv, Quits
<1>3. work'[t] = NoWork
  BY <1>2 DEF Moves
<1> QED
  BY <1>2, <1>3 DEF TaskInv, NoWork, WorkAt, Job, Writing, Promoting

LEMMA QuitInv ==
    ASSUME StoreInv, NEW t \in Task, Quits(t), UNCHANGED <<evalRow, evalHist, acked>>,
           mixed' \subseteq EvalKey
    PROVE  StoreInv'
BY QuitState, MoveInv

\* A request goes on to another step and keeps all it has.
LEMMA GoState ==
    ASSUME StoreInv, NEW t \in Task, NEW p \in EvalPc, Goes(t, p)
    PROVE  /\ Moves(t, work'[t])
           /\ work'[t] \in TaskState
           /\ work'[t].pc = p /\ work'[t].job = work[t].job /\ work'[t].key = work[t].key
           /\ work'[t].todo = work[t].todo /\ work'[t].draft = work[t].draft
<1> DEFINE u == [work[t] EXCEPT !.pc = p]
<1>1. work[t] \in TaskState
  BY DEF StoreInv
<1>2. /\ u \in TaskState
      /\ u.pc = p /\ u.job = work[t].job /\ u.key = work[t].key
      /\ u.todo = work[t].todo /\ u.draft = work[t].draft
  BY <1>1 DEF TaskState
<1>3. work' = [work EXCEPT ![t] = u]
  BY DEF Goes
<1> HIDE DEF u
<1>4. Moves(t, u) /\ work'[t] = u
  BY <1>2, <1>3, MovesTo DEF StoreInv, Moves
<1> QED
  BY <1>2, <1>4
-----------------------------------------------------------------------------
(* The store, step by step *)

\* A new evaluation of its runs.
LEMMA EvaluatedRecord ==
    ASSUME NEW j \in JobsOf({"evaluate"})
    PROVE  Evaluated(j) \in EvalRecord /\ Evaluated(j).ext = 0
<1>1. j.mark \in {i.mark : i \in JobsOf({"evaluate", "override"})}
  <2>1. j \in JobsOf({"evaluate", "override"})
    BY DEF JobsOf
  <2> QED
    BY <2>1
<1> QED
  BY <1>1 DEF Evaluated, EvalRecord

LEMMA BeginsStore ==
    ASSUME StoreInv, NEW t \in Task, Begins(t)
    PROVE  /\ StoreInv' /\ Job(t)' \in Jobs /\ (\A v \in Task \ {t} : work'[v] = work[v])
           /\ work'[t].pc \notin {"insert", "row", "audit"} \cup Promoting
           /\ WorkAt(t, "number")' =>
                Job(t)'.op = "evaluate"
                  /\ \A k \in work'[t].todo : work'[t].draft[k] = Evaluated(Job(t)')
           /\ mixed' = mixed \cup {k \in Writes(Job(t)') :
                                    \E u \in Task : Busy(u) /\ k \in Writes(Job(u))}
<1>1. PICK j \in Jobs :
        /\ work' = [work EXCEPT ![t] =
              [NoWork EXCEPT !.pc = FirstStep(j), !.job = j,
                             !.todo = IF j.op = "evaluate" THEN j.keys ELSE {},
                             !.draft = IF j.op = "evaluate"
                                         THEN [k \in j.keys |-> Evaluated(j)] ELSE None]]
        /\ mixed' = mixed \cup
              {k \in Writes(j) : \E u \in Task : Busy(u) /\ k \in Writes(Job(u))}
  BY DEF Begins
<1> DEFINE todo == IF j.op = "evaluate" THEN j.keys ELSE {}
<1> DEFINE draft == IF j.op = "evaluate" THEN [k \in j.keys |-> Evaluated(j)] ELSE None
<1> DEFINE u == [NoWork EXCEPT !.pc = FirstStep(j), !.job = j, !.todo = todo, !.draft = draft]
<1>2. work' = [work EXCEPT ![t] = u]
  BY <1>1
<1>3. /\ j.op = "evaluate" => FirstStep(j) = "number"
      /\ j.op = "override" => FirstStep(j) = "look"
      /\ j.op = "failure" => FirstStep(j) = "read"
      /\ j.op = "extend" => FirstStep(j) = "list"
      /\ j.op = "promote" => FirstStep(j) = "check"
      /\ j.op = "auto" => FirstStep(j) = "pick"
  BY DEF FirstStep
<1>4. FirstStep(j) \in EvalPc
  BY <1>3, JobShape DEF EvalPc, Writing
<1>5. /\ todo \in SUBSET EvalKey
      /\ j.op = "evaluate" => draft \in [j.keys -> EvalRecord]
                              /\ \A k \in j.keys : draft[k] = Evaluated(j)
  BY JobShape, EvaluatedRecord DEF JobsOf
<1>6. draft \in Drafts
  BY <1>5, JobShape DEF Drafts
<1> HIDE DEF todo, draft
<1>7. /\ u \in TaskState
      /\ u.pc = FirstStep(j) /\ u.job = j /\ u.todo = todo /\ u.draft = draft
  <2>1. NoWork \in TaskState
    BY DEF NoWork, TaskState, EvalPc, Todo, Drafts
  <2> QED
    BY <1>4, <1>5, <1>6, <2>1 DEF TaskState, Todo
<1> HIDE DEF u
<1>8. Moves(t, u)
  BY <1>2, <1>7, MovesTo DEF StoreInv
<1>9. /\ work'[t].pc = FirstStep(j) /\ work'[t].job = j /\ work'[t].todo = todo
      /\ work'[t].draft = draft
  BY <1>7, <1>8 DEF Moves
<1>10. UNCHANGED <<evalRow, evalHist, acked>>
  BY DEF Begins, StoreSame
<1>11. mixed' \subseteq EvalKey
  BY <1>1, JobShape DEF StoreInv, TablesInv
<1>12. ASSUME FirstStep(j) \in Writing PROVE DraftInv(t)'
  <2>1. j.op = "evaluate" /\ FirstStep(j) = "number"
    BY <1>3, <1>12, JobShape DEF Writing
  <2>2. todo = j.keys
    BY <2>1 DEF todo
  <2>3. \A k \in j.keys : draft[k].ext = 0 /\ DOMAIN draft = j.keys
    BY <1>5, <2>1, EvaluatedRecord DEF JobsOf
  <2>4. \A k \in j.keys : 0 <= Len(evalHist'[k]) + 1
    <3>1. \A k \in j.keys : Len(evalHist'[k]) \in Nat
      BY <1>10, JobShape DEF StoreInv, TablesInv
    <3> QED
      BY <3>1
  <2>5. DOMAIN draft = j.keys
    BY <1>5, <2>1
  <2>6. Job(t)' = j /\ Pending(t)' = j.keys
    BY <1>9, <2>1, <2>2 DEF Job, Pending, WorkAt
  <2> QED
    BY <1>5, <1>9, <2>1, <2>2, <2>3, <2>4, <2>5, <2>6, JobShape DEF DraftInv, WorkAt
<1>13. TaskInv(t)'
  <2>1. Job(t)' = j /\ \A pc : WorkAt(t, pc)' <=> FirstStep(j) = pc
    BY <1>9 DEF Job, WorkAt
  <2>2. FirstStep(j) \in {"look", "read"} => j.op \in {"override", "failure"}
    BY <1>3, JobShape
  <2>3. FirstStep(j) = "list" => j.op \in {"evaluate", "extend"}
    BY <1>3, JobShape
  <2>4. FirstStep(j) # "idle" /\ j # None
    BY <1>3, JobShape
  <2>5. /\ FirstStep(j) = "check" => j.op = "promote"
        /\ FirstStep(j) = "pick" => j.op = "auto"
        /\ FirstStep(j) \notin Promoting
    BY <1>3, JobShape DEF Promoting
  <2> QED
    BY <1>9, <1>12, <2>1, <2>2, <2>3, <2>4, <2>5 DEF TaskInv
<1>14. Job(t)' = j
  BY <1>9 DEF Job
<1>15. work'[t].pc \notin {"insert", "row", "audit"} \cup Promoting
  BY <1>3, <1>9, JobShape DEF Promoting
<1>16. WorkAt(t, "number")' => /\ j.op = "evaluate"
                              /\ \A k \in work'[t].todo : work'[t].draft[k] = Evaluated(j)
  <2>1. WorkAt(t, "number")' => j.op = "evaluate"
    BY <1>3, <1>9, JobShape DEF WorkAt
  <2>2. j.op = "evaluate" => todo = j.keys
    BY DEF todo
  <2> QED
    BY <1>5, <1>9, <2>1, <2>2
<1> QED
  BY <1>1, <1>8, <1>10, <1>11, <1>13, <1>14, <1>15, <1>16, MoveInv DEF Moves

\* An override or a failure names its run.
LEMMA NamesOne ==
    ASSUME StoreInv, NEW t \in Task, work[t].pc \in {"look", "read"}
    PROVE  /\ Job(t) \in JobsOf({"override", "failure"})
           /\ OneOf(t) \in EvalKey /\ OneOf(t) \in Writes(Job(t))
<1>1. Job(t).op \in {"override", "failure"} /\ Job(t) \in Jobs
  BY DEF StoreInv, TaskInv, TaskState, WorkAt, Job
<1> QED
  BY <1>1, JobShape DEF OneOf, JobsOf

LEMMA LookStore ==
    ASSUME StoreInv, NEW t \in Task, LookOverride(t)
    PROVE  StoreInv'
<1>1. PICK k \in EvalKey : k = OneOf(t)
  BY NamesOne DEF LookOverride, WorkAt
<1>2. UNCHANGED <<evalRow, evalHist, mixed>>
  BY DEF LookOverride, StoreSame
<1>3. CASE Quits(t) /\ UNCHANGED acked
  BY <1>2, <1>3, QuitInv DEF StoreInv, TablesInv
<1>4. CASE Goes(t, "read") /\ UNCHANGED acked
  <2>1. "read" \in EvalPc
    BY DEF EvalPc
  <2>2. /\ Moves(t, work'[t])
        /\ work'[t].pc = "read" /\ work'[t].job = work[t].job
    BY <1>4, <2>1, GoState
  <2>3. TaskInv(t)'
    BY <2>2 DEF LookOverride, StoreInv, TaskInv, WorkAt, Job, Writing, Promoting
  <2> QED
    BY <1>2, <1>4, <2>2, <2>3, MoveInv DEF StoreInv, TablesInv
<1>5. CASE /\ evalRow[k] # None /\ evalRow[k].mark = Job(t).mark /\ Quits(t)
           /\ acked' = [acked EXCEPT ![k].mark = evalRow[k].mark]
  <2>1. evalRow[k].mark \in Marks /\ evalRow[k] \in EvalRecord
    BY <1>1, <1>5 DEF StoreInv, TablesInv, EvalRecord, Marks
  <2>2. /\ acked' \in [EvalKey -> [mark : Marks, cases : SUBSET Cases]]
        /\ acked'[k].mark = evalRow[k].mark /\ acked'[k].cases = acked[k].cases
        /\ \A x \in EvalKey \ {k} : acked'[x] = acked[x]
    BY <1>1, <1>5, <2>1 DEF StoreInv, TablesInv
  <2>3. HistoryGrows /\ evalHist' \in [EvalKey -> Seq(EvalRecord)]
    BY <1>2, HistorySame DEF StoreInv, TablesInv
  <2>4. \A x \in EvalKey \ {k} : RowInv(x)'
    BY <1>2, <2>2, <2>3, RowStays DEF StoreInv
  <2>5. RowInv(k)'
    <3>1. RowInv(k)
      BY <1>1 DEF StoreInv, TablesInv
    <3>2. \E i \in DOMAIN evalHist[k] : evalHist[k][i] = evalRow[k]
      BY <1>5, <3>1 DEF RowInv, Told
    <3> QED
      BY <1>2, <2>2, <3>1, <3>2 DEF RowInv, Told
  <2>6. TablesInv'
    BY <1>2, <2>2, <2>4, <2>5 DEF StoreInv, TablesInv
  <2>7. Moves(t, NoWork) /\ TaskInv(t)'
    BY <1>5, QuitState
  <2>8. \A v \in Task : TaskInv(v)'
    BY <2>3, <2>7, OthersStay
  <2> QED
    BY <2>6, <2>7, <2>8 DEF StoreInv, Moves
<1> QED
  BY <1>1, <1>3, <1>4, <1>5 DEF LookOverride
\* A request has made its new records, from rows as they are.
LEMMA TakesUp ==
    ASSUME StoreInv, NEW t \in Task, NEW ks \in SUBSET EvalKey, NEW d \in [ks -> EvalRecord],
           work' = [work EXCEPT ![t].pc = "number", ![t].todo = ks, ![t].draft = d],
           Job(t) # None, Job(t).op \in {"evaluate", "override", "failure", "extend"},
           ks \subseteq Writes(Job(t)),
           Job(t).op = "override" => \A k \in ks : d[k].mark = Job(t).mark,
           Job(t).op = "failure" => \A k \in ks : Job(t).case \in d[k].cases,
           \A k \in ks : evalRow[k] # None /\ d[k].ext <= evalRow[k].ext + 1,
           UNCHANGED <<evalRow, evalHist, acked, mixed>>
    PROVE  /\ StoreInv' /\ Moves(t, work'[t])
           /\ work'[t].pc = "number" /\ work'[t].job = work[t].job
           /\ work'[t].todo = ks /\ work'[t].draft = d
<1> DEFINE u == [work[t] EXCEPT !.pc = "number", !.todo = ks, !.draft = d]
<1>1. work[t] \in TaskState
  BY DEF StoreInv
<1>2. "number" \in EvalPc /\ ks \in Todo /\ d \in Drafts
  BY DEF EvalPc, Writing, Todo, Drafts
<1>3. /\ u \in TaskState
      /\ u.pc = "number" /\ u.job = work[t].job /\ u.todo = ks /\ u.draft = d
  BY <1>1, <1>2 DEF TaskState
<1>4. work' = [work EXCEPT ![t] = u]
  OBVIOUS
<1> HIDE DEF u
<1>5. Moves(t, u) /\ work'[t] = u
  BY <1>3, <1>4, MovesTo DEF StoreInv, Moves
<1>6. ASSUME NEW k \in ks PROVE d[k].ext <= Len(evalHist[k]) + 1
  <2>1. d[k].ext \in Nat /\ evalRow[k].ext \in Nat /\ Len(evalHist[k]) \in Nat
    BY DEF StoreInv, TablesInv, EvalRecord
  <2>2. evalRow[k].ext <= Len(evalHist[k])
    BY DEF StoreInv, TablesInv, RowInv
  <2> QED
    BY <2>1, <2>2
<1>7. /\ Job(t)' = Job(t) /\ Pending(t)' = ks
      /\ \A pc : WorkAt(t, pc)' <=> pc = "number"
  BY <1>3, <1>5 DEF Job, Pending, WorkAt
<1>8. DraftInv(t)'
  BY <1>3, <1>5, <1>6, <1>7 DEF DraftInv
<1>9. TaskInv(t)'
  BY <1>3, <1>5, <1>7, <1>8 DEF TaskInv, Promoting
<1> QED
  BY <1>3, <1>5, <1>9, MoveInv DEF StoreInv, TablesInv

LEMMA ReadStore ==
    ASSUME StoreInv, NEW t \in Task, ReadRun(t)
    PROVE  StoreInv'
<1> DEFINE k == OneOf(t)
<1>1. /\ Job(t) \in JobsOf({"override", "failure"}) /\ k \in EvalKey /\ k \in Writes(Job(t))
      /\ Job(t) \in Jobs /\ Job(t) # None
  BY NamesOne, JobShape DEF ReadRun, WorkAt, JobsOf
<1>2. UNCHANGED <<evalRow, evalHist, acked, mixed>>
  BY DEF ReadRun, StoreSame, GhostsSame
<1>3. CASE Quits(t)
  BY <1>2, <1>3, QuitInv DEF StoreInv, TablesInv
<1>4. CASE /\ evalRow[k] # None
           /\ work' = [work EXCEPT ![t].pc = "number", ![t].todo = {k},
                         ![t].draft = [x \in {k} |-> Revised(evalRow[k], Job(t))]]
  <2> DEFINE d == [x \in {k} |-> Revised(evalRow[k], Job(t))]
  <2>1. evalRow[k] \in EvalRecord /\ evalRow[k].ext \in Nat
    BY <1>1, <1>4 DEF StoreInv, TablesInv, EvalRecord
  <2>2. /\ Revised(evalRow[k], Job(t)) \in EvalRecord
        /\ Revised(evalRow[k], Job(t)).ext = evalRow[k].ext
        /\ Job(t).op = "override" => Revised(evalRow[k], Job(t)).mark = Job(t).mark
        /\ Job(t).op = "failure" => Job(t).case \in Revised(evalRow[k], Job(t)).cases
    BY <1>1, <2>1, RecordChanged DEF JobsOf
  <2>3. d \in [{k} -> EvalRecord] /\ d[k] = Revised(evalRow[k], Job(t))
    BY <2>2
  <2>4. work' = [work EXCEPT ![t].pc = "number", ![t].todo = {k}, ![t].draft = d]
    BY <1>4
  <2> HIDE DEF d, k
  <2>5. d[k].ext <= evalRow[k].ext + 1
    BY <2>1, <2>2, <2>3
  <2>6. Job(t).op \in {"evaluate", "override", "failure", "extend"}
    BY <1>1 DEF JobsOf
  <2>7. \A x \in {k} : evalRow[x] # None /\ d[x].ext <= evalRow[x].ext + 1
    BY <1>4, <2>5
  <2>8. {k} \in SUBSET EvalKey /\ {k} \subseteq Writes(Job(t))
    BY <1>1
  <2>9. Job(t).op = "override" => \A x \in {k} : d[x].mark = Job(t).mark
    BY <2>2, <2>3
  <2>10. Job(t).op = "failure" => \A x \in {k} : Job(t).case \in d[x].cases
    BY <2>2, <2>3
  <2> QED
    BY <1>1, <1>2, <2>3, <2>4, <2>6, <2>7, <2>8, <2>9, <2>10, TakesUp
<1> QED
  BY <1>3, <1>4 DEF ReadRun

LEMMA ListStore ==
    ASSUME StoreInv, NEW t \in Task, ListRuns(t)
    PROVE  StoreInv'
<1>1. /\ Job(t) \in Jobs /\ Job(t) # None /\ Job(t).op \in {"evaluate", "extend"}
      /\ Job(t).scope \subseteq Writes(Job(t)) /\ Job(t).scope \subseteq EvalKey
  <2>1. Job(t) \in Jobs /\ Job(t).op \in {"evaluate", "extend"}
    BY JobShape DEF ListRuns, StoreInv, TaskInv, TaskState, WorkAt, Job
  <2> QED
    BY <2>1, JobShape
<1>2. UNCHANGED <<evalRow, evalHist, acked, mixed>>
  BY DEF ListRuns, StoreSame, GhostsSame
<1>3. CASE Quits(t)
  BY <1>2, <1>3, QuitInv DEF StoreInv, TablesInv
<1>4. ASSUME NEW found \in SUBSET {k \in Job(t).scope :
                             evalRow[k] # None /\ evalRow[k].stage = Job(t).stage},
             work' = [work EXCEPT ![t].pc = "number", ![t].todo = found,
                           ![t].draft = [k \in found |-> Extended(evalRow[k])]]
      PROVE  StoreInv'
  <2> DEFINE d == [k \in found |-> Extended(evalRow[k])]
  <2>1. ASSUME NEW k \in found
        PROVE  /\ evalRow[k] # None /\ d[k] \in EvalRecord
               /\ d[k].ext <= evalRow[k].ext + 1
    <3>1. k \in EvalKey /\ evalRow[k] # None
      BY <1>1, <1>4
    <3>2. evalRow[k] \in EvalRecord /\ evalRow[k].ext \in Nat
      BY <3>1 DEF StoreInv, TablesInv, EvalRecord
    <3>3. Extended(evalRow[k]) \in EvalRecord /\ Extended(evalRow[k]).ext = evalRow[k].ext + 1
      BY <3>2, RecordChanged
    <3> QED
      BY <3>1, <3>2, <3>3
  <2>2. d \in [found -> EvalRecord]
    BY <2>1
  <2>3. work' = [work EXCEPT ![t].pc = "number", ![t].todo = found, ![t].draft = d]
    BY <1>4
  <2>4. found \in SUBSET EvalKey /\ found \subseteq Writes(Job(t))
    BY <1>1, <1>4
  <2>5. Job(t).op \notin {"override", "failure"}
    BY <1>1
  <2> HIDE DEF d
  <2> QED
    BY <1>1, <1>2, <2>1, <2>2, <2>3, <2>4, <2>5, TakesUp
<1> QED
  BY <1>3, <1>4 DEF ListRuns

LEMMA NumberStore ==
    ASSUME StoreInv, NEW t \in Task, NumberRevision(t)
    PROVE  StoreInv'
<1>1. PICK k \in work[t].todo :
        work' = [work EXCEPT ![t].pc = "insert", ![t].key = k, ![t].todo = work[t].todo \ {k},
                             ![t].rev = Len(evalHist[k]) + 1]
  BY DEF NumberRevision
<1> DEFINE u == [work[t] EXCEPT !.pc = "insert", !.key = k, !.todo = work[t].todo \ {k},
                                !.rev = Len(evalHist[k]) + 1]
<1>2. work[t] \in TaskState /\ work[t].pc = "number" /\ DraftInv(t) /\ TaskInv(t)
  BY DEF NumberRevision, StoreInv, TaskInv, WorkAt, Writing
<1>3. Job(t) \in Jobs /\ Job(t) # None
  BY <1>2, JobShape DEF TaskInv, TaskState, WorkAt, Job
<1>4. /\ k \in DOMAIN work[t].draft /\ work[t].todo \subseteq DOMAIN work[t].draft
      /\ DOMAIN work[t].draft \subseteq EvalKey
  BY <1>2, <1>3, JobShape DEF DraftInv
<1>5. k \in EvalKey /\ work[t].todo \ {k} \in Todo /\ Len(evalHist[k]) + 1 \in Nat
  BY <1>4 DEF Todo, StoreInv, TablesInv
<1>6. /\ u \in TaskState
      /\ u.pc = "insert" /\ u.job = work[t].job /\ u.key = k /\ u.todo = work[t].todo \ {k}
      /\ u.draft = work[t].draft
  BY <1>2, <1>5 DEF TaskState, EvalPc, Writing
<1>7. work' = [work EXCEPT ![t] = u]
  BY <1>1
<1> HIDE DEF u
<1>8. Moves(t, u) /\ work'[t] = u
  BY <1>6, <1>7, MovesTo DEF StoreInv, Moves
<1>9. UNCHANGED <<evalRow, evalHist, acked, mixed>>
  BY DEF NumberRevision, StoreSame, GhostsSame
<1>10. /\ Job(t)' = Job(t) /\ Pending(t)' = Pending(t)
       /\ \A pc : WorkAt(t, pc)' <=> pc = "insert"
  <2>1. Pending(t)' = (work[t].todo \ {k}) \cup {k} /\ Pending(t) = work[t].todo
    BY <1>2, <1>6, <1>8 DEF Pending, WorkAt
  <2> QED
    BY <1>6, <1>8, <2>1 DEF Job, WorkAt
<1>11. DraftInv(t)'
  BY <1>2, <1>4, <1>6, <1>8, <1>9, <1>10 DEF DraftInv
<1>12. TaskInv(t)'
  BY <1>3, <1>6, <1>8, <1>10, <1>11 DEF TaskInv, Promoting
<1> QED
  BY <1>8, <1>9, <1>12, MoveInv DEF StoreInv, TablesInv
\* What a task has in hand while it writes.
LEMMA InHand ==
    ASSUME StoreInv, NEW t \in Task, work[t].pc \in {"insert", "row", "audit"}
    PROVE  /\ DraftInv(t) /\ Job(t) \in Jobs /\ Job(t) # None
           /\ work[t].key \in EvalKey /\ work[t].key \in Writes(Job(t))
           /\ work[t].key \notin work[t].todo /\ work[t].todo \subseteq EvalKey
           /\ Draft(t) \in EvalRecord /\ Draft(t).ext \in Nat /\ Draft(t).mark \in Marks
           /\ Draft(t).cases \in SUBSET Cases
           /\ Job(t).op = "override" => Draft(t).mark = Job(t).mark
           /\ Job(t).op = "failure" => Job(t).case \in Draft(t).cases
<1>1. TaskInv(t) /\ work[t] \in TaskState /\ work[t].pc \in Writing
  BY DEF StoreInv, Writing
<1>2. DraftInv(t) /\ Job(t) \in Jobs /\ Job(t) # None
  BY <1>1, JobShape DEF TaskInv, TaskState, WorkAt, Job
<1>3. Writes(Job(t)) \subseteq EvalKey
  BY <1>2, JobShape
<1>4. work[t].key \in DOMAIN work[t].draft \ work[t].todo
  BY <1>2 DEF DraftInv, WorkAt
<1>5. Draft(t) \in EvalRecord
  BY <1>2, <1>4 DEF DraftInv, Draft
<1>6. Draft(t).ext \in Nat /\ Draft(t).mark \in Marks /\ Draft(t).cases \in SUBSET Cases
  BY <1>5 DEF EvalRecord, Marks, Cases
<1>7. work[t].key \in Writes(Job(t)) /\ work[t].todo \subseteq EvalKey
  BY <1>2, <1>3, <1>4 DEF DraftInv
<1> QED
  BY <1>2, <1>3, <1>4, <1>5, <1>6, <1>7 DEF DraftInv, Draft

\* INSERT adds the draft to the history of its run.
LEMMA AppendStore ==
    ASSUME StoreInv, NEW t \in Task, WorkAt(t, "insert"), Appended(t),
           UNCHANGED <<evalRow, acked>>, mixed' \subseteq EvalKey
    PROVE  LET k == work[t].key IN
           /\ TablesInv' /\ HistoryGrows
           /\ Len(evalHist'[k]) = Len(evalHist[k]) + 1
           /\ evalHist'[k][Len(evalHist'[k])] = Draft(t)
           /\ \E i \in DOMAIN evalHist'[k] : evalHist'[k][i] = Draft(t)
           /\ Draft(t).ext <= Len(evalHist'[k])
           /\ \A x \in EvalKey \ {k} : evalHist'[x] = evalHist[x]
<1> DEFINE k == work[t].key
<1>1. /\ k \in EvalKey /\ Draft(t) \in EvalRecord /\ Draft(t).ext \in Nat /\ DraftInv(t)
  BY InHand DEF WorkAt
<1>2. evalHist \in [EvalKey -> Seq(EvalRecord)] /\ evalHist[k] \in Seq(EvalRecord)
  BY <1>1 DEF StoreInv, TablesInv
<1>3. evalHist' = [evalHist EXCEPT ![k] = Append(evalHist[k], Draft(t))]
  BY DEF Appended
<1>4. Draft(t).ext <= Len(evalHist[k]) + 1
  <2>1. k \in Pending(t)
    BY DEF Pending
  <2>2. work[t].draft[k].ext <= Len(evalHist[k]) + 1
    BY <1>1, <2>1 DEF DraftInv
  <2> QED
    BY <2>2 DEF Draft
<1> DEFINE d == Draft(t)
<1>5. d \in EvalRecord
  BY <1>1
<1> HIDE DEF d, k
<1>6. /\ Append(evalHist[k], d) \in Seq(EvalRecord)
      /\ Len(Append(evalHist[k], d)) = Len(evalHist[k]) + 1
      /\ Len(evalHist[k]) \in Nat
      /\ \A i \in 1..Len(evalHist[k]) : Append(evalHist[k], d)[i] = evalHist[k][i]
      /\ Append(evalHist[k], d)[Len(evalHist[k]) + 1] = d
  BY <1>2, <1>5
<1>7. /\ evalHist' \in [EvalKey -> Seq(EvalRecord)]
      /\ evalHist'[k] = Append(evalHist[k], d)
      /\ \A x \in EvalKey \ {k} : evalHist'[x] = evalHist[x]
  BY <1>1, <1>2, <1>3, <1>6 DEF d, k
<1>8. HistoryGrows
  <2>1. ASSUME NEW x \in EvalKey
        PROVE  /\ Len(evalHist[x]) <= Len(evalHist'[x])
               /\ DOMAIN evalHist[x] \subseteq DOMAIN evalHist'[x]
               /\ \A i \in DOMAIN evalHist[x] : evalHist'[x][i] = evalHist[x][i]
    <3>1. CASE x = k
      <4>1. DOMAIN evalHist[k] = 1..Len(evalHist[k]) /\ DOMAIN evalHist'[k] = 1..(Len(evalHist[k]) + 1)
        BY <1>2, <1>6, <1>7
      <4> QED
        BY <1>6, <1>7, <3>1, <4>1
    <3>2. CASE x # k
      <4>1. Len(evalHist[x]) \in Nat
        BY <1>2
      <4> QED
        BY <1>7, <3>2, <4>1
    <3> QED
      BY <3>1, <3>2
  <2> QED
    BY <2>1 DEF HistoryGrows
<1>9. \A x \in EvalKey : RowInv(x)'
  BY <1>7, <1>8, RowStays DEF StoreInv
<1>10. TablesInv'
  BY <1>7, <1>9 DEF StoreInv, TablesInv
<1>11. evalHist'[k][Len(evalHist'[k])] = d /\ Len(evalHist'[k]) \in DOMAIN evalHist'[k]
  BY <1>2, <1>6, <1>7
<1> QED
  BY <1>4, <1>6, <1>7, <1>8, <1>10, <1>11 DEF d, k

LEMMA InsertStore ==
    ASSUME StoreInv, NEW t \in Task, InsertRevision(t)
    PROVE  StoreInv'
<1>1. UNCHANGED <<evalRow, acked, mixed>> /\ WorkAt(t, "insert")
  BY DEF InsertRevision, GhostsSame
<1>2. CASE Quits(t) /\ UNCHANGED evalHist
  BY <1>1, <1>2, QuitInv DEF StoreInv, TablesInv
<1>3. CASE Appended(t) /\ Goes(t, "row")
  <2>1. "row" \in EvalPc
    BY DEF EvalPc, Writing
  <2>2. /\ Moves(t, work'[t])
        /\ work'[t].pc = "row" /\ work'[t].job = work[t].job /\ work'[t].key = work[t].key
        /\ work'[t].todo = work[t].todo /\ work'[t].draft = work[t].draft
    BY <1>3, <2>1, GoState
  <2>3. /\ TablesInv' /\ HistoryGrows
        /\ \E i \in DOMAIN evalHist'[work[t].key] : evalHist'[work[t].key][i] = Draft(t)
        /\ Draft(t).ext <= Len(evalHist'[work[t].key])
        /\ \A x \in EvalKey \ {work[t].key} : evalHist'[x] = evalHist[x]
    BY <1>1, <1>3, AppendStore DEF StoreInv, TablesInv
  <2>4. DraftInv(t) /\ Job(t) # None /\ work[t].key \notin work[t].todo /\ work[t].todo \subseteq EvalKey
    BY <1>1, InHand DEF WorkAt
  <2>5. /\ Job(t)' = Job(t) /\ Draft(t)' = Draft(t)
        /\ Pending(t)' = work[t].todo /\ Pending(t)' \subseteq Pending(t)
        /\ \A pc : WorkAt(t, pc)' <=> pc = "row"
    BY <2>2 DEF Job, Draft, Pending, WorkAt
  <2>6. \A k \in Pending(t)' : evalHist'[k] = evalHist[k]
    BY <2>3, <2>4, <2>5
  <2>7. Told(work[t].key, Draft(t))'
    BY <2>2, <2>3, <2>5 DEF Told
  <2>8. DraftInv(t)'
    BY <1>1, <2>2, <2>3, <2>4, <2>5, <2>6, <2>7 DEF DraftInv, WorkAt
  <2>9. TaskInv(t)'
    BY <2>2, <2>4, <2>5, <2>8 DEF TaskInv, Promoting
  <2>10. \A v \in Task : TaskInv(v)'
    BY <2>2, <2>3, <2>9, OthersStay DEF TablesInv
  <2> QED
    BY <2>2, <2>3, <2>10 DEF StoreInv, Moves
<1> QED
  BY <1>2, <1>3 DEF InsertRevision

\* The row of a run becomes the draft that is in its history.
LEMMA RowStore ==
    ASSUME StoreInv, NEW t \in Task, WorkAt(t, "row"),
           evalRow' = [evalRow EXCEPT ![work[t].key] = Draft(t)],
           acked' \in {acked, [acked EXCEPT ![work[t].key] = Nothing]},
           UNCHANGED evalHist, mixed' \subseteq EvalKey
    PROVE  TablesInv' /\ HistoryGrows
<1>0. PICK k \in EvalKey : k = work[t].key
  BY InHand DEF WorkAt
<1>1. /\ Draft(t) \in EvalRecord /\ DraftInv(t)
  BY InHand DEF WorkAt
<1>2. Told(k, Draft(t)) /\ Draft(t).ext <= Len(evalHist[k])
  BY <1>0, <1>1 DEF DraftInv, WorkAt
<1>3. Nothing \in [mark : Marks, cases : SUBSET Cases] /\ Nothing.mark = None /\ Nothing.cases = {}
  BY DEF Nothing, Marks
<1>9. PICK d \in EvalRecord : d = Draft(t)
  BY <1>1
<1>4. /\ evalRow' \in [EvalKey -> EvalRecord \cup {None}] /\ evalRow'[k] = d
      /\ \A x \in EvalKey \ {k} : evalRow'[x] = evalRow[x]
  BY <1>0, <1>9 DEF StoreInv, TablesInv
<1>5. /\ acked' \in [EvalKey -> [mark : Marks, cases : SUBSET Cases]]
      /\ acked'[k] \in {acked[k], Nothing}
      /\ \A x \in EvalKey \ {k} : acked'[x] = acked[x]
  <2>1. acked \in [EvalKey -> [mark : Marks, cases : SUBSET Cases]]
    BY DEF StoreInv, TablesInv
  <2>2. CASE acked' = acked
    BY <1>0, <2>1, <2>2
  <2>3. CASE acked' = [acked EXCEPT ![k] = Nothing]
    BY <1>3, <2>1, <2>3
  <2> QED
    BY <1>0, <2>2, <2>3
<1>6. HistoryGrows /\ evalHist' \in [EvalKey -> Seq(EvalRecord)]
  <2>1. d # None
    BY EvaluationBounds
  <2> QED
    BY <1>4, <2>1 DEF HistoryGrows, StoreInv, TablesInv
<1>7. \A x \in EvalKey \ {k} : RowInv(x)'
  BY <1>4, <1>5, <1>6, RowStays DEF StoreInv
<1>8. RowInv(k)'
  <2>1. RowInv(k)
    BY DEF StoreInv, TablesInv
  <2>2. (\E i \in DOMAIN evalHist'[k] : evalHist'[k][i] = d) /\ d.ext <= Len(evalHist'[k])
    BY <1>2, <1>9 DEF Told
  <2> QED
    BY <1>3, <1>4, <1>5, <2>1, <2>2 DEF RowInv, Told
<1> QED
  BY <1>4, <1>5, <1>6, <1>7, <1>8 DEF TablesInv

LEMMA WriteStore ==
    ASSUME StoreInv, NEW t \in Task, WriteRow(t)
    PROVE  StoreInv'
<1>1. /\ WorkAt(t, "row") /\ Goes(t, "audit") /\ UNCHANGED <<evalHist, mixed>>
      /\ TablesInv' /\ HistoryGrows
  <2>1. /\ WorkAt(t, "row") /\ Goes(t, "audit") /\ UNCHANGED <<evalHist, mixed>>
        /\ evalRow' = [evalRow EXCEPT ![work[t].key] = Draft(t)]
        /\ acked' \in {acked, [acked EXCEPT ![work[t].key] = Nothing]}
    BY DEF WriteRow
  <2>2. mixed' \subseteq EvalKey
    BY <2>1 DEF StoreInv, TablesInv
  <2> QED
    BY <2>1, <2>2, RowStore
<1>2. "audit" \in EvalPc
  BY DEF EvalPc, Writing
<1>3. /\ Moves(t, work'[t])
      /\ work'[t].pc = "audit" /\ work'[t].job = work[t].job /\ work'[t].key = work[t].key
      /\ work'[t].todo = work[t].todo /\ work'[t].draft = work[t].draft
  BY <1>1, <1>2, GoState
<1>4. DraftInv(t) /\ Job(t) # None
  BY <1>1, InHand DEF WorkAt
<1>5. /\ Job(t)' = Job(t) /\ Draft(t)' = Draft(t) /\ Pending(t)' = Pending(t)
      /\ \A pc : WorkAt(t, pc)' <=> pc = "audit"
  BY <1>1, <1>3 DEF Job, Draft, Pending, WorkAt
<1>6. DraftInv(t)'
  BY <1>1, <1>3, <1>4, <1>5 DEF DraftInv, WorkAt, Told
<1>7. TaskInv(t)'
  BY <1>3, <1>4, <1>5, <1>6 DEF TaskInv, Promoting
<1>8. \A v \in Task : TaskInv(v)'
  BY <1>1, <1>3, <1>7, OthersStay DEF TablesInv
<1> QED
  BY <1>1, <1>3, <1>8 DEF StoreInv, Moves

\* The request is answered for, or the next of its records is taken.
LEMMA AfterStore ==
    ASSUME StoreInv, NEW t \in Task, AfterWrite(t)
    PROVE  StoreInv'
<1>1. WorkAt(t, "audit") /\ UNCHANGED <<evalRow, evalHist, mixed>>
  BY DEF AfterWrite, StoreSame
<1>2. PICK k \in EvalKey : k = work[t].key
  BY <1>1, InHand DEF WorkAt
<1>3. /\ DraftInv(t) /\ Job(t) \in Jobs /\ Job(t) # None /\ Draft(t) \in EvalRecord
      /\ Job(t).op = "override" => Draft(t).mark = Job(t).mark
      /\ Job(t).op = "failure" => Job(t).case \in Draft(t).cases
  BY <1>1, InHand DEF WorkAt
<1>4. \E i \in DOMAIN evalHist[k] : evalHist[k][i] = Draft(t)
  BY <1>1, <1>2, <1>3 DEF DraftInv, WorkAt, Told
<1>5. HistoryGrows /\ evalHist' \in [EvalKey -> Seq(EvalRecord)]
  BY <1>1, HistorySame DEF StoreInv, TablesInv
<1>6. TablesInv'
  <2>1. acked \in [EvalKey -> [mark : Marks, cases : SUBSET Cases]]
    BY DEF StoreInv, TablesInv
  <2>2. /\ acked' \in [EvalKey -> [mark : Marks, cases : SUBSET Cases]]
        /\ \A x \in EvalKey \ {k} : acked'[x] = acked[x]
        /\ \/ acked'[k].mark = acked[k].mark
           \/ Job(t).op = "override" /\ acked'[k].mark = Job(t).mark
        /\ \/ acked'[k].cases = acked[k].cases
           \/ Job(t).op = "failure" /\ acked'[k].cases = acked[k].cases \cup {Job(t).case}
    <3>1. CASE Job(t).op = "override"
      <4>1. acked' = [acked EXCEPT ![k].mark = Job(t).mark]
        BY <1>2, <3>1 DEF AfterWrite
      <4>2. Job(t).mark \in Marks
        BY <1>3, <3>1 DEF Marks, JobsOf
      <4> QED
        BY <2>1, <3>1, <4>1, <4>2
    <3>2. CASE Job(t).op = "failure"
      <4>1. acked' = [acked EXCEPT ![k].cases = acked[k].cases \cup {Job(t).case}]
        BY <1>2, <3>2 DEF AfterWrite
      <4>2. Job(t).case \in Cases
        BY <1>3, <3>2 DEF Cases, JobsOf
      <4> QED
        BY <2>1, <3>2, <4>1, <4>2
    <3>3. CASE Job(t).op \notin {"override", "failure"}
      <4>1. acked' = acked
        BY <3>3 DEF AfterWrite
      <4> QED
        BY <2>1, <4>1
    <3> QED
      BY <3>1, <3>2, <3>3
  <2>3. \A x \in EvalKey \ {k} : RowInv(x)'
    BY <1>1, <1>5, <2>2, RowStays DEF StoreInv
  <2>4. RowInv(k)'
    <3>1. RowInv(k)
      BY DEF StoreInv, TablesInv
    <3> QED
      BY <1>1, <1>3, <1>4, <2>2, <3>1 DEF RowInv, Told
  <2> QED
    BY <1>1, <1>5, <2>2, <2>3, <2>4 DEF StoreInv, TablesInv
<1>7. PICK u : Moves(t, u) /\ TaskInv(t)'
  <2>1. CASE Quits(t)
    BY <2>1, QuitState
  <2>2. CASE Goes(t, "number")
    <3>1. "number" \in EvalPc
      BY DEF EvalPc, Writing
    <3>2. /\ Moves(t, work'[t])
          /\ work'[t].pc = "number" /\ work'[t].job = work[t].job
          /\ work'[t].todo = work[t].todo /\ work'[t].draft = work[t].draft
      BY <2>2, <3>1, GoState
    <3>3. /\ Job(t)' = Job(t) /\ Pending(t)' = work[t].todo /\ work[t].todo \subseteq Pending(t)
          /\ \A pc : WorkAt(t, pc)' <=> pc = "number"
      BY <3>2 DEF Job, Pending, WorkAt
    <3>4. DraftInv(t)'
      BY <1>1, <1>3, <3>2, <3>3 DEF DraftInv
    <3> QED
      BY <1>3, <3>2, <3>3, <3>4 DEF TaskInv, Promoting
  <2>3. CASE Goes(t, "list") /\ Anew(t)
    <3>1. "list" \in EvalPc
      BY DEF EvalPc
    <3>2. Moves(t, work'[t]) /\ work'[t].pc = "list" /\ work'[t].job = work[t].job
      BY <2>3, <3>1, GoState
    <3> QED
      BY <1>3, <2>3, <3>2 DEF TaskInv, WorkAt, Job, Writing, Anew, Promoting
  <2> QED
    BY <2>1, <2>2, <2>3 DEF AfterWrite
<1>8. \A v \in Task : TaskInv(v)'
  BY <1>5, <1>7, OthersStay
<1> QED
  BY <1>6, <1>7, <1>8 DEF StoreInv, Moves

\* A failing call may have written to one of the tables.
LEMMA SlipStore ==
    ASSUME StoreInv, NEW t \in Task, Slips(t)
    PROVE  StoreInv'
<1>1. work[t].pc \in {"insert", "row", "audit"} /\ Quits(t) /\ UNCHANGED acked
  BY DEF Slips
<1>2. mixed' \subseteq EvalKey
  <2>1. Writes(Job(t)) \subseteq EvalKey
    BY <1>1, InHand, JobShape
  <2> QED
    BY <2>1 DEF Slips, StoreInv, TablesInv
<1>3. Moves(t, NoWork) /\ TaskInv(t)'
  BY <1>1, QuitState
<1>4. CASE StoreSame
  BY <1>1, <1>2, <1>4, QuitInv DEF StoreSame
<1>5. CASE \/ WorkAt(t, "insert") /\ Appended(t) /\ UNCHANGED evalRow
           \/ /\ WorkAt(t, "row") /\ evalRow' = [evalRow EXCEPT ![work[t].key] = Draft(t)]
              /\ UNCHANGED evalHist
  <2>1. TablesInv' /\ HistoryGrows
    BY <1>1, <1>2, <1>5, AppendStore, RowStore
  <2>2. \A v \in Task : TaskInv(v)'
    BY <1>3, <2>1, OthersStay DEF TablesInv
  <2> QED
    BY <1>3, <2>1, <2>2 DEF StoreInv, Moves
<1> QED
  BY <1>4, <1>5 DEF Slips

\* The steps of a promotion do not touch the store.
LEMMA PromoteStore ==
    ASSUME StoreInv, live \subseteq Member, NEW t \in Task,
           CheckApproval(t) \/ PickSource(t) \/ ReadPlan(t) \/ ReadCurrent(t) \/ Judges(t)
             \/ AppliesPlan(t)
    PROVE  StoreInv'
<1>1. UNCHANGED <<evalRow, evalHist, acked, mixed>>
  BY DEF CheckApproval, PickSource, ReadPlan, ReadCurrent, Judges, AppliesPlan, StoreSame, GhostsSame
<1>2. work[t].pc \in {"check", "pick"} \cup Promoting /\ work[t] \in TaskState /\ TaskInv(t)
  BY DEF CheckApproval, PickSource, ReadPlan, ReadCurrent, Judges, AppliesPlan, StoreInv,
     WorkAt, Promoting
<1>3. Job(t) \in Jobs /\ Job(t) # None /\ Job(t).op \in {"promote", "auto"}
  BY <1>2, JobShape DEF TaskInv, TaskState, WorkAt, Job, Promoting, PlanInv
<1>4. CASE Quits(t)
  BY <1>1, <1>4, QuitInv DEF StoreInv, TablesInv
<1>5. ASSUME NEW u \in TaskState, work' = [work EXCEPT ![t] = u], u.job = work[t].job,
             u.pc \in Promoting, u.key \in EvalKey, evalRow[u.key] # None,
             u.pc # "plan" => u.draft \in EvalRecord,
             u.pc \in {"judge", "apply"} => u.todo \in Plans
      PROVE  StoreInv'
  <2>1. Moves(t, u) /\ work'[t] = u
    BY <1>5, MovesTo DEF StoreInv, Moves
  <2>2. PlanInv(t)'
    BY <1>1, <1>3, <1>5, <2>1 DEF PlanInv, WorkAt, Job
  <2>3. TaskInv(t)'
    BY <1>3, <1>5, <2>1, <2>2 DEF TaskInv, WorkAt, Job, Writing, Promoting
  <2> QED
    BY <1>1, <2>1, <2>3, MoveInv DEF StoreInv, TablesInv
<1>6. ASSUME NEW k \in EvalKey, evalRow[k] # None,
             work' = [work EXCEPT ![t].pc = "plan", ![t].key = k]
      PROVE  StoreInv'
  <2> DEFINE u == [work[t] EXCEPT !.pc = "plan", !.key = k]
  <2>1. u \in TaskState /\ u.job = work[t].job /\ u.pc = "plan" /\ u.key = k
    BY <1>2 DEF TaskState, EvalPc, Promoting
  <2>2. work' = [work EXCEPT ![t] = u]
    BY <1>6
  <2> HIDE DEF u
  <2> QED
    BY <1>5, <1>6, <2>1, <2>2 DEF Promoting
<1>7. CASE CheckApproval(t)
  <2>1. OneOf(t) \in EvalKey
    BY <1>2, <1>3, <1>7, JobShape DEF CheckApproval, TaskInv, OneOf
  <2> QED
    BY <1>4, <1>6, <1>7, <2>1 DEF CheckApproval, Refuses
<1>8. CASE PickSource(t)
  BY <1>4, <1>6, <1>8 DEF PickSource, Refuses
<1>9. CASE ReadPlan(t)
  <2>1. /\ WorkAt(t, "plan") /\ PlanInv(t)
        /\ work' = [work EXCEPT ![t].pc = "current", ![t].draft = evalRow[work[t].key]]
    BY <1>2, <1>9 DEF ReadPlan, TaskInv, Promoting, WorkAt
  <2>2. PICK k \in EvalKey : k = work[t].key /\ evalRow[k] \in EvalRecord /\ evalRow[k] # None
    BY <2>1 DEF PlanInv, StoreInv, TablesInv
  <2> DEFINE u == [work[t] EXCEPT !.pc = "current", !.draft = evalRow[k]]
  <2>3. u \in TaskState /\ u.job = work[t].job /\ u.pc = "current" /\ u.key = k /\ u.draft \in EvalRecord
    BY <1>2, <2>2 DEF TaskState, EvalPc, Promoting, Drafts
  <2>4. work' = [work EXCEPT ![t] = u]
    BY <2>1, <2>2
  <2> HIDE DEF u
  <2> QED
    BY <1>5, <2>2, <2>3, <2>4 DEF Promoting
<1>10. CASE ReadCurrent(t)
  <2>1. WorkAt(t, "current") /\ PlanInv(t)
    BY <1>2, <1>10 DEF ReadCurrent, TaskInv, Promoting, WorkAt
  <2>2. work[t].draft \in EvalRecord /\ work[t].key \in EvalKey /\ evalRow[work[t].key] # None
    BY <2>1 DEF PlanInv, WorkAt
  <2>3. work[t].draft.set \subseteq Member
    BY <2>2 DEF EvalRecord, Member
  <2> DEFINE plan == [activate |-> work[t].draft.set \ live, deactivate |-> live \ work[t].draft.set]
  <2>4. plan \in Plans
    BY <2>3 DEF Plans
  <2>5. work' = [work EXCEPT ![t].pc = "judge", ![t].todo = plan]
    BY <1>10 DEF ReadCurrent
  <2> HIDE DEF plan
  <2>8. plan \in Todo
    BY <2>4 DEF Todo
  <2> DEFINE u == [work[t] EXCEPT !.pc = "judge", !.todo = plan]
  <2>6. /\ u \in TaskState /\ u.job = work[t].job /\ u.pc = "judge" /\ u.key = work[t].key
        /\ u.draft = work[t].draft /\ u.todo = plan
    BY <1>2, <2>8 DEF TaskState, EvalPc, Promoting
  <2>7. work' = [work EXCEPT ![t] = u]
    BY <2>5
  <2> HIDE DEF u
  <2> QED
    BY <1>5, <2>2, <2>4, <2>6, <2>7 DEF Promoting
<1>11. CASE Judges(t) /\ Goes(t, "apply")
  <2>1. "apply" \in EvalPc
    BY DEF EvalPc, Promoting
  <2>2. WorkAt(t, "judge") /\ PlanInv(t)
    BY <1>2, <1>11 DEF Judges, TaskInv, Promoting, WorkAt
  <2>3. PICK u \in TaskState :
          /\ u.pc = "apply" /\ u.job = work[t].job /\ u.key = work[t].key
          /\ u.todo = work[t].todo /\ u.draft = work[t].draft
          /\ work' = [work EXCEPT ![t] = u]
    <3> DEFINE u == [work[t] EXCEPT !.pc = "apply"]
    <3>1. /\ u \in TaskState /\ u.pc = "apply" /\ u.job = work[t].job /\ u.key = work[t].key
          /\ u.todo = work[t].todo /\ u.draft = work[t].draft
      BY <1>2, <2>1 DEF TaskState
    <3>2. work' = [work EXCEPT ![t] = u]
      BY <1>11 DEF Goes
    <3> HIDE DEF u
    <3> QED
      BY <3>1, <3>2
  <2> QED
    BY <1>5, <2>2, <2>3 DEF PlanInv, WorkAt, Promoting
<1> QED
  BY <1>4, <1>7, <1>8, <1>9, <1>10, <1>11 DEF Judges, AppliesPlan, Refuses

LEMMA StoreInit == EvalInit => StoreInv
<1> SUFFICES ASSUME EvalInit PROVE StoreInv
  OBVIOUS
<1>1. \A t \in Task : work[t] = NoWork
  BY DEF EvalInit
<1>2. NoWork \in TaskState
  BY DEF NoWork, TaskState, EvalPc, Todo, Drafts
<1>3. work \in [Task -> TaskState]
  BY <1>1, <1>2 DEF EvalInit
<1>4. \A t \in Task : TaskInv(t)
  BY <1>1 DEF TaskInv, NoWork, WorkAt, Job, Writing, Promoting
<1>5. /\ evalRow \in [EvalKey -> EvalRecord \cup {None}]
      /\ \A k \in EvalKey : evalRow[k] # None => evalRow[k] \in AtFirst /\ evalRow[k] \in EvalRecord
  BY EvaluationBounds DEF EvalInit, AtFirst
<1>6. ASSUME NEW k \in EvalKey
      PROVE  /\ evalHist[k] \in Seq(EvalRecord)
             /\ evalRow[k] # None => Len(evalHist[k]) = 1 /\ evalHist[k][1] = evalRow[k]
  <2>1. evalHist[k] = IF evalRow[k] = None THEN <<>> ELSE <<evalRow[k]>>
    BY DEF EvalInit
  <2>2. <<>> \in Seq(EvalRecord)
    OBVIOUS
  <2>3. ASSUME NEW r \in EvalRecord PROVE <<r>> \in Seq(EvalRecord) /\ Len(<<r>>) = 1 /\ <<r>>[1] = r
    OBVIOUS
  <2> QED
    BY <1>5, <2>1, <2>2, <2>3
<1>7. evalHist \in [EvalKey -> Seq(EvalRecord)]
  <2>1. evalHist = [k \in EvalKey |-> evalHist[k]]
    BY DEF EvalInit
  <2> QED
    BY <1>6, <2>1
<1>8. /\ Nothing \in [mark : Marks, cases : SUBSET Cases]
      /\ Nothing.mark = None /\ Nothing.cases = {}
  BY DEF Nothing, Marks
<1>9. /\ acked \in [EvalKey -> [mark : Marks, cases : SUBSET Cases]]
      /\ \A k \in EvalKey : acked[k].mark = None /\ acked[k].cases = {}
  BY <1>8 DEF EvalInit
<1>10. ASSUME NEW k \in EvalKey PROVE RowInv(k)
  <2>1. ASSUME evalRow[k] # None PROVE Told(k, evalRow[k]) /\ evalRow[k].ext <= Len(evalHist[k])
    <3>1. Len(evalHist[k]) = 1 /\ evalHist[k][1] = evalRow[k] /\ evalHist[k] \in Seq(EvalRecord)
      BY <1>6, <2>1
    <3>2. evalRow[k].ext <= 1
      BY <1>5, <2>1, EvaluationBounds
    <3>3. 1 \in DOMAIN evalHist[k]
      BY <3>1
    <3> QED
      BY <3>1, <3>2, <3>3 DEF Told
  <2> QED
    BY <1>9, <2>1 DEF RowInv
<1> QED
  BY <1>3, <1>4, <1>5, <1>7, <1>9, <1>10 DEF StoreInv, TablesInv, EvalInit

LEMMA StoreStep == StoreInv /\ live \subseteq Member /\ [EvalNext]_evalVars => StoreInv'
<1> SUFFICES ASSUME StoreInv, live \subseteq Member, [EvalNext]_evalVars PROVE StoreInv'
  OBVIOUS
<1>1. ASSUME NEW t \in Task,
             \/ Begins(t) \/ LookOverride(t) \/ ReadRun(t) \/ ListRuns(t) \/ NumberRevision(t)
             \/ InsertRevision(t) \/ WriteRow(t) \/ AfterWrite(t) \/ Slips(t)
      PROVE  StoreInv'
  BY <1>1, BeginsStore, LookStore, ReadStore, ListStore, NumberStore, InsertStore, WriteStore,
     AfterStore, SlipStore
<1>2. ASSUME NEW t \in Task,
             \/ CheckApproval(t) \/ PickSource(t) \/ ReadPlan(t) \/ ReadCurrent(t)
             \/ Judges(t) \/ AppliesPlan(t)
      PROVE  StoreInv'
  BY <1>2, PromoteStore
<1>3. CASE UNCHANGED <<evalRow, evalHist, acked, mixed, work>>
  <2>1. ASSUME NEW t \in Task PROVE TaskInv(t)'
    BY <1>3 DEF StoreInv, TaskInv, DraftInv, PlanInv, Told, Draft, Pending, Job, WorkAt
  <2>2. TablesInv'
    BY <1>3 DEF StoreInv, TablesInv, RowInv, Told
  <2> QED
    BY <1>3, <2>1, <2>2 DEF StoreInv
<1> QED
  BY <1>1, <1>2, <1>3 DEF EvalNext, CooldownEnds, evalVars, StoreSame, GhostsSame

-----------------------------------------------------------------------------
(* Decisions *)

\* The decisions are of the strategies that are known.
LEMMA LiveStep ==
    ASSUME StoreInv, live \subseteq Member, [EvalNext]_evalVars
    PROVE  live' \subseteq Member
<1>1. ASSUME NEW t \in Task, AppliesPlan(t) PROVE live' \subseteq Member
  <2>1. work[t].todo \in Plans
    BY <1>1 DEF AppliesPlan, StoreInv, TaskInv, PlanInv, WorkAt, Promoting
  <2>2. work[t].todo.activate \subseteq Member
    BY <2>1 DEF Plans
  <2> QED
    BY <1>1, <2>2 DEF AppliesPlan
<1>2. ASSUME NEW t \in Task,
             \/ Begins(t) \/ LookOverride(t) \/ ReadRun(t) \/ ListRuns(t) \/ NumberRevision(t)
             \/ InsertRevision(t) \/ WriteRow(t) \/ AfterWrite(t) \/ Slips(t)
             \/ CheckApproval(t) \/ PickSource(t) \/ ReadPlan(t) \/ ReadCurrent(t) \/ Judges(t)
      PROVE  UNCHANGED live
  BY <1>2 DEF Begins, LookOverride, ReadRun, ListRuns, NumberRevision, InsertRevision, WriteRow,
     AfterWrite, Slips, CheckApproval, PickSource, ReadPlan, ReadCurrent, Judges, WorldSame
<1> QED
  BY <1>1, <1>2 DEF EvalNext, CooldownEnds, evalVars

-----------------------------------------------------------------------------
(* Writers that come one after the other *)

\* A draft that, once written, is new or has all that was answered for.
Fresh(t, k) ==
    \/ Job(t).op = "evaluate" /\ work[t].draft[k] = Evaluated(Job(t))
    \/ /\ evalRow[k] # None /\ evalRow[k].cases \subseteq work[t].draft[k].cases
       /\ Job(t).op # "override" => work[t].draft[k].mark = evalRow[k].mark

Carries(t) ==
    /\ acked[work[t].key].cases \subseteq Draft(t).cases
    /\ Job(t).op # "override" => acked[work[t].key].mark \in {None, Draft(t).mark}

\* The only writer of a run has the draft that the row waits for.
SerialTask(t) ==
    /\ work[t].pc \in Writing => \A k \in Pending(t) \ mixed : Fresh(t, k)
    /\ WorkAt(t, "row") /\ work[t].key \notin mixed =>
         Last(evalHist[work[t].key]) = Draft(t) /\ (Anew(t) \/ Carries(t))
    /\ WorkAt(t, "audit") /\ work[t].key \notin mixed =>
         /\ Last(evalHist[work[t].key]) = Draft(t) /\ evalRow[work[t].key] = Draft(t)
         /\ Carries(t)

Resting(k) == \A t \in Task : work[t].pc \notin {"row", "audit"} \/ work[t].key # k

Kept(k) ==
    \/ evalRow[k] = None
    \/ /\ evalRow[k] = Last(evalHist[k])
       /\ acked[k].mark \in {None, evalRow[k].mark}
       /\ acked[k].cases \subseteq evalRow[k].cases

WritesTo(t, k) == Busy(t) /\ k \in Writes(Job(t))

OneWriter ==
    \A t, u \in Task, k \in EvalKey : WritesTo(t, k) /\ WritesTo(u, k) => t = u \/ k \in mixed

SerialInv ==
    /\ OneWriter
    /\ \A k \in EvalKey \ mixed : Resting(k) => Kept(k)
    /\ \A t \in Task : SerialTask(t)

LEMMA SerialKeeps == SerialInv => SerialWritesKept
BY DEF SerialInv, Resting, Kept, SerialWritesKept

\* What a task has in hand, it writes.
LEMMA HandWrites ==
    ASSUME StoreInv, NEW t \in Task, work[t].pc \in Writing
    PROVE  /\ \A k \in Pending(t) : k \in EvalKey /\ WritesTo(t, k)
           /\ work[t].pc \in {"row", "audit"} => work[t].key \in EvalKey /\ WritesTo(t, work[t].key)
<1>1. DraftInv(t) /\ Busy(t) /\ Job(t) \in Jobs
  BY DEF StoreInv, TaskInv, TaskState, WorkAt, Job, Writing, Busy
<1>2. DOMAIN work[t].draft \subseteq Writes(Job(t)) /\ Writes(Job(t)) \subseteq EvalKey
  BY <1>1, JobShape DEF DraftInv
<1>3. Pending(t) \subseteq DOMAIN work[t].draft
  BY <1>1 DEF DraftInv, Pending, WorkAt
<1>4. work[t].pc \in {"row", "audit"} => work[t].key \in DOMAIN work[t].draft
  BY <1>1 DEF DraftInv, WorkAt
<1> QED
  BY <1>1, <1>2, <1>3, <1>4 DEF WritesTo

\* Only t moves, and what it does to a run that it is not the only writer of is in mixed.
Disturbs(t) ==
    /\ mixed \subseteq mixed'
    /\ \A v \in Task \ {t} : work'[v] = work[v]
    /\ \A k \in EvalKey : \/ k \in mixed' \/ WritesTo(t, k)
                          \/ UNCHANGED <<evalRow[k], evalHist[k], acked[k]>>

LEMMA OthersSerial ==
    ASSUME StoreInv, SerialInv, NEW t \in Task, Disturbs(t), NEW v \in Task \ {t}
    PROVE  SerialTask(v)'
<1>1. /\ work'[v] = work[v] /\ SerialTask(v)
      /\ Job(v)' = Job(v) /\ Draft(v)' = Draft(v) /\ Pending(v)' = Pending(v)
      /\ \A pc : WorkAt(v, pc)' = WorkAt(v, pc)
      /\ Anew(v)' = Anew(v)
  BY DEF Disturbs, SerialInv, Job, Draft, Pending, WorkAt, Anew
<1>2. ASSUME NEW k \in EvalKey, WritesTo(v, k), k \notin mixed'
      PROVE  k \notin mixed /\ UNCHANGED <<evalRow[k], evalHist[k], acked[k]>>
  <2>1. k \notin mixed
    BY <1>2 DEF Disturbs
  <2>2. ~WritesTo(t, k)
    BY <1>2, <2>1 DEF SerialInv, OneWriter
  <2> QED
    BY <1>2, <2>1, <2>2 DEF Disturbs
<1>3. ASSUME work[v].pc \in Writing, NEW k \in Pending(v) \ mixed' PROVE Fresh(v, k)'
  <2>1. k \notin mixed /\ evalRow'[k] = evalRow[k]
    BY <1>2, <1>3, HandWrites
  <2>2. Fresh(v, k)
    BY <1>1, <1>3, <2>1 DEF SerialTask
  <2> QED
    BY <1>1, <2>1, <2>2 DEF Fresh
<1>4. ASSUME work[v].pc \in {"row", "audit"}, work[v].key \notin mixed'
      PROVE  /\ work[v].key \notin mixed
             /\ UNCHANGED <<evalRow[work[v].key], evalHist[work[v].key], acked[work[v].key]>>
  <2>1. PICK k \in EvalKey : k = work[v].key /\ WritesTo(v, k)
    BY <1>4, HandWrites DEF Writing
  <2>2. k \notin mixed /\ UNCHANGED <<evalRow[k], evalHist[k], acked[k]>>
    BY <1>2, <1>4, <2>1
  <2> QED
    BY <1>1, <2>1, <2>2
<1>5. ASSUME work[v].pc \in {"row", "audit"}, work[v].key \notin mixed'
      PROVE  Carries(v)' = Carries(v)
  BY <1>1, <1>4, <1>5 DEF Carries
<1> QED
  BY <1>1, <1>3, <1>4, <1>5 DEF SerialTask, WorkAt

\* A run that nobody writes a row of, and that t is not about.
LEMMA OtherRuns ==
    ASSUME StoreInv, SerialInv, NEW t \in Task, Disturbs(t), NEW k \in EvalKey \ mixed',
           ~WritesTo(t, k), Resting(k)'
    PROVE  Kept(k)'
<1>1. k \notin mixed /\ UNCHANGED <<evalRow[k], evalHist[k], acked[k]>>
  BY DEF Disturbs
<1>2. work[t].pc \in {"row", "audit"} => work[t].key # k
  BY HandWrites DEF Writing
<1>3. Resting(k)
  BY <1>2 DEF Resting, Disturbs
<1>4. Kept(k)
  BY <1>1, <1>3 DEF SerialInv
<1> QED
  BY <1>1, <1>4 DEF Kept

\* A run that only t writes, and of which it does not write the row.
LEMMA OwnRun ==
    ASSUME SerialInv, StoreInv, NEW t \in Task, NEW k \in EvalKey \ mixed, WritesTo(t, k),
           work[t].pc \notin {"row", "audit"} \/ work[t].key # k
    PROVE  Kept(k)
<1>1. ASSUME NEW v \in Task PROVE work[v].pc \notin {"row", "audit"} \/ work[v].key # k
  BY HandWrites DEF SerialInv, OneWriter, Writing
<1> QED
  BY <1>1 DEF SerialInv, Resting

\* A task that keeps its job, or ends, leaves the runs with one writer each.
LEMMA SerialMove ==
    ASSUME StoreInv, SerialInv, NEW t \in Task, Disturbs(t), SerialTask(t)',
           Busy(t)' => Busy(t) /\ Job(t)' = Job(t),
           \A k \in EvalKey \ mixed' : WritesTo(t, k) /\ Resting(k)' => Kept(k)'
    PROVE  SerialInv'
<1>1. \A v \in Task, k \in EvalKey : WritesTo(v, k)' => WritesTo(v, k)
  BY DEF Disturbs, WritesTo, Busy, WorkAt, Job
<1>2. OneWriter'
  BY <1>1 DEF SerialInv, OneWriter, Disturbs
<1> QED
  BY <1>2, OthersSerial, OtherRuns DEF SerialInv

-----------------------------------------------------------------------------
LEMMA SerialInit == EvalInit => SerialInv
<1> SUFFICES ASSUME EvalInit PROVE SerialInv
  OBVIOUS
<1>1. \A t \in Task : work[t] = NoWork /\ ~Busy(t) /\ work[t].pc = "idle"
  BY DEF EvalInit, NoWork, Busy, WorkAt
<1>2. OneWriter
  BY <1>1 DEF OneWriter, WritesTo
<1>3. \A t \in Task : SerialTask(t)
  BY <1>1 DEF SerialTask, WorkAt, Writing
<1>4. ASSUME NEW k \in EvalKey PROVE Kept(k)
  <2>1. acked[k].mark = None /\ acked[k].cases = {}
    BY DEF EvalInit, Nothing
  <2>2. evalRow[k] # None => evalHist[k] = <<evalRow[k]>>
    BY DEF EvalInit
  <2>3. evalRow[k] # None => Last(evalHist[k]) = evalRow[k]
    BY <2>2 DEF Last
  <2> QED
    BY <2>1, <2>3 DEF Kept
<1> QED
  BY <1>2, <1>3, <1>4 DEF SerialInv

LEMMA BeginsSerial ==
    ASSUME StoreInv, SerialInv, NEW t \in Task, Begins(t)
    PROVE  SerialInv'
<1>1. /\ \A v \in Task \ {t} : work'[v] = work[v]
      /\ work'[t].pc \notin {"insert", "row", "audit"} \cup Promoting
      /\ WorkAt(t, "number")' =>
           Job(t)'.op = "evaluate"
             /\ \A k \in work'[t].todo : work'[t].draft[k] = Evaluated(Job(t)')
      /\ mixed' = mixed \cup {k \in Writes(Job(t)') :
                                    \E u \in Task : Busy(u) /\ k \in Writes(Job(u))}
  BY BeginsStore
<1>2. UNCHANGED <<evalRow, evalHist, acked>> /\ work[t].pc = "idle"
  BY DEF Begins, StoreSame, WorkAt
<1>3. Disturbs(t)
  BY <1>1, <1>2 DEF Disturbs
<1>4. SerialTask(t)'
  <2>1. Pending(t)' = work'[t].todo
    BY <1>1 DEF Pending, WorkAt
  <2>2. work'[t].pc \in Writing => WorkAt(t, "number")'
    BY <1>1 DEF Writing, WorkAt
  <2>3. work'[t].pc \in Writing => \A k \in Pending(t)' : Fresh(t, k)'
    BY <1>1, <2>1, <2>2 DEF Fresh
  <2> QED
    BY <1>1, <2>3 DEF SerialTask, WorkAt
<1>5. OneWriter'
  <2>1. ASSUME NEW v \in Task \ {t}, NEW k \in EvalKey
        PROVE  WritesTo(v, k)' = WritesTo(v, k)
    BY <1>1 DEF WritesTo, Busy, WorkAt, Job
  <2>2. ASSUME NEW v \in Task \ {t}, NEW k \in EvalKey, WritesTo(v, k)', WritesTo(t, k)'
        PROVE  k \in mixed'
    BY <1>1, <2>1, <2>2 DEF WritesTo
  <2> QED
    BY <1>1, <2>1, <2>2 DEF SerialInv, OneWriter
<1>6. ASSUME NEW k \in EvalKey \ mixed', Resting(k)' PROVE Kept(k)'
  <2>1. Resting(k)
    BY <1>1, <1>2, <1>6 DEF Resting
  <2>2. Kept(k)
    BY <1>1, <2>1 DEF SerialInv
  <2> QED
    BY <1>2, <2>2 DEF Kept
<1> QED
  BY <1>3, <1>4, <1>5, <1>6, OthersSerial DEF SerialInv

\* A step of a task that leaves the tables as they are, before or after it writes.
LEMMA QuietSerial ==
    ASSUME StoreInv, SerialInv, UNCHANGED <<evalRow, evalHist, acked, mixed>>, NEW t \in Task,
           \A v \in Task \ {t} : work'[v] = work[v],
           Busy(t)' => Busy(t) /\ Job(t)' = Job(t),
           work[t].pc \notin {"row", "audit"}, work'[t].pc \notin {"row", "audit"},
           work'[t].pc \in Writing => \A k \in Pending(t)' \ mixed : Fresh(t, k)'
    PROVE  SerialInv'
<1>1. Disturbs(t)
  BY DEF Disturbs
<1>2. SerialTask(t)'
  BY DEF SerialTask, WorkAt
<1>3. ASSUME NEW k \in EvalKey \ mixed, WritesTo(t, k) PROVE Kept(k)'
  BY <1>3, OwnRun DEF Kept
<1> QED
  BY <1>1, <1>2, <1>3, SerialMove

\* A request that is over.
LEMMA QuitSerial ==
    ASSUME StoreInv, SerialInv, UNCHANGED <<evalRow, evalHist, acked, mixed>>, NEW t \in Task,
           Quits(t), work[t].pc \notin {"row", "audit"}
    PROVE  SerialInv'
<1>1. /\ \A v \in Task \ {t} : work'[v] = work[v]
      /\ work'[t].pc = "idle" /\ ~Busy(t)'
  BY QuitState DEF Moves, NoWork, Busy, WorkAt
<1> QED
  BY <1>1, QuietSerial DEF Writing

LEMMA LookSerial ==
    ASSUME StoreInv, SerialInv, NEW t \in Task, LookOverride(t)
    PROVE  SerialInv'
<1>1. PICK k \in EvalKey : k = OneOf(t) /\ k \in Writes(Job(t))
  BY NamesOne DEF LookOverride, WorkAt
<1>2. UNCHANGED <<evalRow, evalHist, mixed>> /\ work[t].pc = "look" /\ Busy(t)
  BY DEF LookOverride, StoreSame, WorkAt, Busy
<1>3. CASE Quits(t) /\ UNCHANGED acked
  BY <1>2, <1>3, QuitSerial
<1>4. CASE Goes(t, "read") /\ UNCHANGED acked
  <2>1. "read" \in EvalPc
    BY DEF EvalPc
  <2>2. /\ \A v \in Task \ {t} : work'[v] = work[v]
        /\ work'[t].pc = "read" /\ Job(t)' = Job(t)
    BY <1>4, <2>1, GoState DEF Moves, Job
  <2> QED
    BY <1>2, <1>4, <2>2, QuietSerial DEF Writing
<1>5. CASE /\ evalRow[k] # None /\ Quits(t)
           /\ acked' = [acked EXCEPT ![k].mark = evalRow[k].mark]
  <2>1. /\ \A v \in Task \ {t} : work'[v] = work[v]
        /\ work'[t].pc = "idle" /\ ~Busy(t)'
    BY <1>5, QuitState DEF Moves, NoWork, Busy, WorkAt
  <2>2. /\ acked'[k].mark = evalRow[k].mark /\ acked'[k].cases = acked[k].cases
        /\ \A x \in EvalKey \ {k} : acked'[x] = acked[x]
    BY <1>1, <1>5 DEF StoreInv, TablesInv
  <2>3. Disturbs(t)
    BY <1>1, <1>2, <2>1, <2>2 DEF Disturbs, WritesTo
  <2>4. SerialTask(t)'
    BY <2>1 DEF SerialTask, WorkAt, Writing
  <2>5. ASSUME NEW x \in EvalKey \ mixed, WritesTo(t, x) PROVE Kept(x)'
    <3>1. Kept(x)
      BY <1>2, <2>5, OwnRun
    <3>2. CASE x = k
      BY <1>2, <2>2, <3>1, <3>2 DEF Kept
    <3>3. CASE x # k
      BY <1>2, <2>2, <3>1, <3>3 DEF Kept
    <3> QED
      BY <3>2, <3>3
  <2> QED
    BY <1>2, <2>1, <2>3, <2>4, <2>5, SerialMove
<1> QED
  BY <1>1, <1>3, <1>4, <1>5 DEF LookOverride

\* An override keeps the failures of the row, and a failure its override.
LEMMA ReadSerial ==
    ASSUME StoreInv, SerialInv, NEW t \in Task, ReadRun(t)
    PROVE  SerialInv'
<1>1. PICK k \in EvalKey : k = OneOf(t) /\ Job(t) \in JobsOf({"override", "failure"})
  BY NamesOne DEF ReadRun, WorkAt
<1>2. UNCHANGED <<evalRow, evalHist, acked, mixed>> /\ work[t].pc = "read" /\ Busy(t)
  BY DEF ReadRun, StoreSame, GhostsSame, WorkAt, Busy
<1>3. CASE Quits(t)
  BY <1>2, <1>3, QuitSerial
<1>4. CASE /\ evalRow[k] # None
           /\ work' = [work EXCEPT ![t].pc = "number", ![t].todo = {k},
                         ![t].draft = [x \in {k} |-> Revised(evalRow[k], Job(t))]]
  <2>1. work[t] \in TaskState
    BY DEF StoreInv
  <2>2. /\ \A v \in Task \ {t} : work'[v] = work[v]
        /\ work'[t].pc = "number" /\ work'[t].todo = {k} /\ work'[t].job = work[t].job
        /\ work'[t].draft[k] = Revised(evalRow[k], Job(t))
    BY <1>4, <2>1 DEF StoreInv, TaskState
  <2>3. evalRow[k] \in EvalRecord
    BY <1>4 DEF StoreInv, TablesInv
  <2>4. Job(t) \in JobsOf({"override"}) \/ Job(t) \in JobsOf({"failure"})
    BY <1>1 DEF JobsOf
  <2>5. /\ evalRow[k].cases \subseteq Revised(evalRow[k], Job(t)).cases
        /\ Job(t).op # "override" => Revised(evalRow[k], Job(t)).mark = evalRow[k].mark
    BY <2>3, <2>4, RecordChanged DEF JobsOf
  <2>6. Fresh(t, k)' /\ Pending(t)' = {k} /\ Job(t)' = Job(t)
    BY <1>2, <1>4, <2>2, <2>5 DEF Fresh, Pending, WorkAt, Job
  <2> QED
    BY <1>2, <2>2, <2>6, QuietSerial DEF Writing
<1> QED
  BY <1>1, <1>3, <1>4 DEF ReadRun

LEMMA ListSerial ==
    ASSUME StoreInv, SerialInv, NEW t \in Task, ListRuns(t)
    PROVE  SerialInv'
<1>1. Job(t) \in Jobs /\ Job(t).op \in {"evaluate", "extend"} /\ Job(t).scope \subseteq EvalKey
  <2>1. Job(t) \in Jobs /\ Job(t).op \in {"evaluate", "extend"}
    BY JobShape DEF ListRuns, StoreInv, TaskInv, TaskState, WorkAt, Job
  <2> QED
    BY <2>1, JobShape
<1>2. UNCHANGED <<evalRow, evalHist, acked, mixed>> /\ work[t].pc = "list" /\ Busy(t)
  BY DEF ListRuns, StoreSame, GhostsSame, WorkAt, Busy
<1>3. CASE Quits(t)
  BY <1>2, <1>3, QuitSerial
<1>4. ASSUME NEW found \in SUBSET {k \in Job(t).scope :
                             evalRow[k] # None /\ evalRow[k].stage = Job(t).stage},
             work' = [work EXCEPT ![t].pc = "number", ![t].todo = found,
                           ![t].draft = [k \in found |-> Extended(evalRow[k])]]
      PROVE  SerialInv'
  <2>1. work[t] \in TaskState
    BY DEF StoreInv
  <2>2. /\ \A v \in Task \ {t} : work'[v] = work[v]
        /\ work'[t].pc = "number" /\ work'[t].todo = found /\ work'[t].job = work[t].job
        /\ work'[t].draft = [k \in found |-> Extended(evalRow[k])]
    BY <1>4, <2>1 DEF StoreInv, TaskState
  <2>3. Pending(t)' = found /\ Job(t)' = Job(t)
    BY <2>2 DEF Pending, WorkAt, Job
  <2>4. ASSUME NEW k \in found PROVE Fresh(t, k)'
    <3>1. k \in EvalKey /\ evalRow[k] # None /\ evalRow[k] \in EvalRecord
      BY <1>1, <1>4 DEF StoreInv, TablesInv
    <3>2. /\ evalRow[k].cases \subseteq Extended(evalRow[k]).cases
          /\ Extended(evalRow[k]).mark = evalRow[k].mark
      BY <3>1, RecordChanged
    <3>3. work'[t].draft[k] = Extended(evalRow[k])
      BY <2>2
    <3> QED
      BY <1>2, <3>1, <3>2, <3>3 DEF Fresh
  <2> QED
    BY <1>2, <2>2, <2>3, <2>4, QuietSerial DEF Writing
<1> QED
  BY <1>3, <1>4 DEF ListRuns

LEMMA NumberSerial ==
    ASSUME StoreInv, SerialInv, NEW t \in Task, NumberRevision(t)
    PROVE  SerialInv'
<1>1. PICK k \in work[t].todo :
        work' = [work EXCEPT ![t].pc = "insert", ![t].key = k, ![t].todo = work[t].todo \ {k},
                             ![t].rev = Len(evalHist[k]) + 1]
  BY DEF NumberRevision
<1>2. /\ UNCHANGED <<evalRow, evalHist, acked, mixed>> /\ work[t].pc = "number" /\ Busy(t)
      /\ work[t] \in TaskState /\ SerialTask(t)
  BY DEF NumberRevision, StoreSame, GhostsSame, WorkAt, Busy, StoreInv, SerialInv
<1>3. /\ \A v \in Task \ {t} : work'[v] = work[v]
      /\ work'[t].pc = "insert" /\ work'[t].key = k /\ work'[t].todo = work[t].todo \ {k}
      /\ work'[t].job = work[t].job /\ work'[t].draft = work[t].draft
  BY <1>1, <1>2 DEF StoreInv, TaskState
<1>4. Pending(t)' = work[t].todo /\ Pending(t) = work[t].todo /\ Job(t)' = Job(t)
  BY <1>2, <1>3 DEF Pending, WorkAt, Job
<1>5. ASSUME NEW x \in Pending(t)' \ mixed PROVE Fresh(t, x)'
  <2>1. Fresh(t, x)
    BY <1>2, <1>4, <1>5 DEF SerialTask, Writing
  <2> QED
    BY <1>2, <1>3, <1>4, <2>1 DEF Fresh
<1> QED
  BY <1>2, <1>3, <1>4, <1>5, QuietSerial

\* The revision that the only writer adds is made from the row, or anew.
LEMMA InsertSerial ==
    ASSUME StoreInv, SerialInv, NEW t \in Task, InsertRevision(t)
    PROVE  SerialInv'
<1>1. UNCHANGED <<evalRow, acked, mixed>> /\ WorkAt(t, "insert") /\ work[t].pc = "insert" /\ Busy(t)
  BY DEF InsertRevision, GhostsSame, WorkAt, Busy
<1>2. CASE Quits(t) /\ UNCHANGED evalHist
  BY <1>1, <1>2, QuitSerial
<1>3. CASE Appended(t) /\ Goes(t, "row")
  <2>1. "row" \in EvalPc
    BY DEF EvalPc, Writing
  <2>2. /\ \A v \in Task \ {t} : work'[v] = work[v]
        /\ work'[t].pc = "row" /\ work'[t].job = work[t].job /\ work'[t].key = work[t].key
        /\ work'[t].todo = work[t].todo /\ work'[t].draft = work[t].draft
    BY <1>3, <2>1, GoState DEF Moves
  <2>3. PICK k \in EvalKey : k = work[t].key /\ k \in Writes(Job(t))
    BY <1>1, InHand
  <2>4. /\ evalHist'[k][Len(evalHist'[k])] = Draft(t)
        /\ \A x \in EvalKey \ {k} : evalHist'[x] = evalHist[x]
    <3>1. mixed' \subseteq EvalKey
      BY <1>1 DEF StoreInv, TablesInv
    <3> QED
      BY <1>1, <1>3, <2>3, <3>1, AppendStore
  <2>5. k \notin work[t].todo /\ work[t].todo \subseteq EvalKey
    BY <1>1, <2>3, InHand
  <2>6. /\ Job(t)' = Job(t) /\ Draft(t)' = Draft(t) /\ Anew(t)' = Anew(t)
        /\ Pending(t)' = work[t].todo /\ Pending(t) = work[t].todo \cup {k} /\ Busy(t)'
    BY <1>1, <2>2, <2>3 DEF Job, Draft, Anew, Pending, WorkAt, Busy
  <2>7. Last(evalHist'[k]) = Draft(t)
    BY <2>4 DEF Last
  <2>8. Disturbs(t)
    BY <1>1, <2>2, <2>3, <2>4 DEF Disturbs, WritesTo
  <2>9. SerialTask(t)
    BY DEF SerialInv
  <2>10. ASSUME NEW x \in Pending(t)' \ mixed PROVE Fresh(t, x)'
    <3>1. Fresh(t, x)
      BY <1>1, <2>6, <2>9, <2>10 DEF SerialTask, Writing
    <3> QED
      BY <1>1, <2>2, <2>6, <3>1 DEF Fresh
  <2>11. ASSUME k \notin mixed PROVE Anew(t)' \/ Carries(t)'
    <3>1. Fresh(t, k)
      BY <1>1, <2>6, <2>9, <2>11 DEF SerialTask, Writing
    <3>2. Kept(k)
      BY <1>1, <2>3, <2>11, OwnRun DEF WritesTo
    <3>3. CASE Job(t).op = "evaluate" /\ work[t].draft[k] = Evaluated(Job(t))
      BY <2>3, <2>6, <3>3 DEF Anew, Draft
    <3>4. CASE /\ evalRow[k] # None /\ evalRow[k].cases \subseteq work[t].draft[k].cases
               /\ Job(t).op # "override" => work[t].draft[k].mark = evalRow[k].mark
      <4>1. acked[k].mark \in {None, evalRow[k].mark} /\ acked[k].cases \subseteq evalRow[k].cases
        BY <3>2, <3>4 DEF Kept
      <4>2. Draft(t) = work[t].draft[k]
        BY <2>3 DEF Draft
      <4> QED
        BY <1>1, <2>2, <2>3, <2>6, <3>4, <4>1, <4>2 DEF Carries
    <3> QED
      BY <3>1, <3>3, <3>4 DEF Fresh
  <2>12. SerialTask(t)'
    BY <1>1, <2>2, <2>3, <2>6, <2>7, <2>10, <2>11 DEF SerialTask, WorkAt
  <2>13. ASSUME NEW x \in EvalKey \ mixed, WritesTo(t, x), Resting(x)' PROVE Kept(x)'
    <3>1. x # k
      BY <2>2, <2>3, <2>13 DEF Resting
    <3>2. Kept(x)
      BY <1>1, <2>13, OwnRun
    <3> QED
      BY <1>1, <2>4, <3>1, <3>2 DEF Kept
  <2> QED
    BY <1>1, <2>6, <2>8, <2>12, <2>13, SerialMove
<1> QED
  BY <1>2, <1>3 DEF InsertRevision

LEMMA WriteSerial ==
    ASSUME StoreInv, SerialInv, NEW t \in Task, WriteRow(t)
    PROVE  SerialInv'
<1>1. UNCHANGED <<evalHist, mixed>> /\ Goes(t, "audit") /\ work[t].pc = "row" /\ Busy(t)
  BY DEF WriteRow, WorkAt, Busy
<1>2. "audit" \in EvalPc
  BY DEF EvalPc, Writing
<1>3. /\ \A v \in Task \ {t} : work'[v] = work[v]
      /\ work'[t].pc = "audit" /\ work'[t].job = work[t].job /\ work'[t].key = work[t].key
      /\ work'[t].todo = work[t].todo /\ work'[t].draft = work[t].draft
  BY <1>1, <1>2, GoState DEF Moves
<1>4. PICK k \in EvalKey : k = work[t].key /\ k \in Writes(Job(t)) /\ k \notin work[t].todo
  BY <1>1, InHand
<1>5. /\ evalRow'[k] = Draft(t) /\ \A x \in EvalKey \ {k} : evalRow'[x] = evalRow[x]
  BY <1>4 DEF WriteRow, StoreInv, TablesInv
<1>6. /\ acked'[k] = IF Anew(t) THEN Nothing ELSE acked[k]
      /\ \A x \in EvalKey \ {k} : acked'[x] = acked[x]
  BY <1>4 DEF WriteRow, StoreInv, TablesInv
<1>7. Disturbs(t)
  BY <1>1, <1>3, <1>4, <1>5, <1>6 DEF Disturbs, WritesTo
<1>8. /\ Job(t)' = Job(t) /\ Draft(t)' = Draft(t) /\ Pending(t)' = work[t].todo
      /\ Pending(t) = work[t].todo /\ Busy(t)'
  BY <1>1, <1>3 DEF Job, Draft, Pending, WorkAt, Busy
<1>9. SerialTask(t) /\ work[t].todo \subseteq EvalKey
  BY <1>1, InHand DEF SerialInv
<1>10. ASSUME NEW x \in Pending(t)' \ mixed PROVE Fresh(t, x)'
  <2>1. Fresh(t, x) /\ evalRow'[x] = evalRow[x]
    BY <1>1, <1>4, <1>5, <1>8, <1>9, <1>10 DEF SerialTask, Writing
  <2> QED
    BY <1>3, <1>8, <2>1 DEF Fresh
<1>11. ASSUME k \notin mixed PROVE Last(evalHist[k]) = Draft(t) /\ Carries(t)'
  <2>1. Last(evalHist[k]) = Draft(t) /\ (Anew(t) \/ Carries(t))
    BY <1>1, <1>4, <1>9, <1>11 DEF SerialTask, WorkAt
  <2>2. CASE Anew(t)
    <3>1. acked'[k].mark = None /\ acked'[k].cases = {} /\ work'[t].key = k
      BY <1>3, <1>4, <1>6, <2>2 DEF Nothing
    <3>2. acked'[work'[t].key].mark = None /\ acked'[work'[t].key].cases = {}
      BY <3>1
    <3> QED
      BY <2>1, <3>2 DEF Carries
  <2>3. CASE ~Anew(t)
    BY <1>3, <1>4, <1>6, <1>8, <2>1, <2>3 DEF Carries
  <2> QED
    BY <2>1, <2>2, <2>3
<1>12. SerialTask(t)'
  BY <1>1, <1>3, <1>4, <1>5, <1>8, <1>10, <1>11 DEF SerialTask, WorkAt
<1>13. ASSUME NEW x \in EvalKey \ mixed, WritesTo(t, x), Resting(x)' PROVE Kept(x)'
  <2>1. x # k
    BY <1>3, <1>4, <1>13 DEF Resting
  <2>2. Kept(x)
    BY <1>4, <1>13, <2>1, OwnRun
  <2> QED
    BY <1>1, <1>5, <1>6, <2>1, <2>2 DEF Kept
<1> QED
  BY <1>1, <1>7, <1>8, <1>12, <1>13, SerialMove

\* The answer is what the row has.
LEMMA AfterSerial ==
    ASSUME StoreInv, SerialInv, NEW t \in Task, AfterWrite(t)
    PROVE  SerialInv'
<1>1. UNCHANGED <<evalRow, evalHist, mixed>> /\ work[t].pc = "audit" /\ Busy(t)
  BY DEF AfterWrite, StoreSame, WorkAt, Busy
<1>2. PICK k \in EvalKey : k = work[t].key /\ k \in Writes(Job(t)) /\ k \notin work[t].todo
  BY <1>1, InHand
<1>3. /\ acked[k].mark = acked'[k].mark \/ acked'[k].mark = Draft(t).mark
      /\ acked'[k].cases \subseteq acked[k].cases \cup Draft(t).cases
      /\ Job(t).op = "override" => acked'[k].mark = Draft(t).mark
      /\ \A x \in EvalKey \ {k} : acked'[x] = acked[x]
  <2>1. acked \in [EvalKey -> [mark : Marks, cases : SUBSET Cases]]
    BY DEF StoreInv, TablesInv
  <2>2. /\ Job(t).op = "override" => Draft(t).mark = Job(t).mark
        /\ Job(t).op = "failure" => Job(t).case \in Draft(t).cases
    BY <1>1, InHand
  <2>3. CASE Job(t).op = "override"
    <3>1. acked' = [acked EXCEPT ![k].mark = Job(t).mark]
      BY <1>2, <2>3 DEF AfterWrite
    <3> QED
      BY <2>1, <2>2, <2>3, <3>1
  <2>4. CASE Job(t).op = "failure"
    <3>1. acked' = [acked EXCEPT ![k].cases = acked[k].cases \cup {Job(t).case}]
      BY <1>2, <2>4 DEF AfterWrite
    <3> QED
      BY <2>1, <2>2, <2>4, <3>1
  <2>5. CASE Job(t).op \notin {"override", "failure"}
    <3>1. acked' = acked
      BY <2>5 DEF AfterWrite
    <3> QED
      BY <2>5, <3>1
  <2> QED
    BY <2>3, <2>4, <2>5
<1>4. ASSUME k \notin mixed PROVE Kept(k)'
  <2>1. /\ Last(evalHist[k]) = Draft(t) /\ evalRow[k] = Draft(t) /\ acked[k].cases \subseteq Draft(t).cases
        /\ Job(t).op # "override" => acked[k].mark \in {None, Draft(t).mark}
    BY <1>1, <1>2, <1>4 DEF SerialInv, SerialTask, Carries, WorkAt
  <2> QED
    BY <1>1, <1>3, <2>1 DEF Kept
<1>5. ASSUME NEW x \in EvalKey \ mixed, WritesTo(t, x) PROVE Kept(x)'
  <2>1. CASE x = k
    BY <1>4, <1>5, <2>1
  <2>2. CASE x # k
    <3>1. Kept(x)
      BY <1>2, <1>5, <2>2, OwnRun
    <3> QED
      BY <1>1, <1>3, <2>2, <3>1 DEF Kept
  <2> QED
    BY <2>1, <2>2
<1>6. /\ \A v \in Task \ {t} : work'[v] = work[v]
      /\ Busy(t)' => Job(t)' = Job(t)
      /\ work'[t].pc \in {"idle", "list", "number"}
      /\ work'[t].pc = "number" => work'[t].todo = work[t].todo /\ work'[t].draft = work[t].draft
                                    /\ Job(t)' = Job(t)
  <2>1. CASE Quits(t)
    BY <2>1, QuitState DEF Moves, NoWork, Busy, WorkAt
  <2>2. ASSUME NEW p \in {"list", "number"}, Goes(t, p)
        PROVE  /\ \A v \in Task \ {t} : work'[v] = work[v]
               /\ Job(t)' = Job(t) /\ work'[t].pc = p /\ work'[t].todo = work[t].todo
               /\ work'[t].draft = work[t].draft
    <3>1. p \in EvalPc
      BY DEF EvalPc, Writing
    <3> QED
      BY <2>2, <3>1, GoState DEF Moves, Job
  <2> QED
    BY <2>1, <2>2 DEF AfterWrite
<1>7. Disturbs(t)
  BY <1>1, <1>2, <1>3, <1>6 DEF Disturbs, WritesTo
<1>8. SerialTask(t)'
  <2>1. CASE work'[t].pc \in {"idle", "list"}
    BY <2>1 DEF SerialTask, WorkAt, Writing
  <2>2. CASE work'[t].pc = "number"
    <3>1. Pending(t)' = work[t].todo /\ Pending(t) = work[t].todo
      BY <1>1, <1>6, <2>2 DEF Pending, WorkAt
    <3>2. ASSUME NEW x \in Pending(t)' \ mixed PROVE Fresh(t, x)'
      <4>1. Fresh(t, x)
        BY <1>1, <3>1, <3>2 DEF SerialInv, SerialTask, Writing
      <4> QED
        BY <1>1, <1>6, <2>2, <4>1 DEF Fresh
    <3> QED
      BY <1>1, <2>2, <3>2 DEF SerialTask, WorkAt
  <2> QED
    BY <1>6, <2>1, <2>2
<1> QED
  BY <1>1, <1>5, <1>6, <1>7, <1>8, SerialMove

\* The runs of a failing call are no longer of interest.
LEMMA SlipSerial ==
    ASSUME StoreInv, SerialInv, NEW t \in Task, Slips(t)
    PROVE  SerialInv'
<1>1. /\ work[t].pc \in {"insert", "row", "audit"} /\ Quits(t) /\ UNCHANGED acked
      /\ mixed' = mixed \cup Writes(Job(t))
  BY DEF Slips
<1>2. /\ \A v \in Task \ {t} : work'[v] = work[v]
      /\ work'[t].pc = "idle" /\ ~Busy(t)'
  BY <1>1, QuitState DEF Moves, NoWork, Busy, WorkAt
<1>3. PICK k \in EvalKey : k = work[t].key /\ k \in Writes(Job(t))
  BY <1>1, InHand
<1>4. \A x \in EvalKey \ {k} : evalRow'[x] = evalRow[x] /\ evalHist'[x] = evalHist[x]
  BY <1>3 DEF Slips, StoreSame, Appended, StoreInv, TablesInv
<1>5. Disturbs(t)
  BY <1>1, <1>2, <1>3, <1>4 DEF Disturbs
<1>6. SerialTask(t)'
  BY <1>2 DEF SerialTask, WorkAt, Writing
<1>7. \A x \in EvalKey \ mixed' : ~WritesTo(t, x)
  BY <1>1 DEF WritesTo
<1> QED
  BY <1>2, <1>5, <1>6, <1>7, SerialMove

\* A promotion writes no run.
LEMMA PromoteSerial ==
    ASSUME StoreInv, SerialInv, NEW t \in Task,
           CheckApproval(t) \/ PickSource(t) \/ ReadPlan(t) \/ ReadCurrent(t) \/ Judges(t)
             \/ AppliesPlan(t)
    PROVE  SerialInv'
<1>1. UNCHANGED <<evalRow, evalHist, acked, mixed>>
  BY DEF CheckApproval, PickSource, ReadPlan, ReadCurrent, Judges, AppliesPlan, StoreSame, GhostsSame
<1>2. work[t].pc \in {"check", "pick"} \cup Promoting /\ work[t] \in TaskState /\ Busy(t)
  BY DEF CheckApproval, PickSource, ReadPlan, ReadCurrent, Judges, AppliesPlan, StoreInv,
     WorkAt, Promoting, Busy
<1>3. CASE Quits(t)
  BY <1>1, <1>2, <1>3, QuitSerial DEF Promoting
<1>4. CASE /\ \A v \in Task \ {t} : work'[v] = work[v]
           /\ work'[t].pc \in Promoting /\ work'[t].job = work[t].job
  BY <1>1, <1>2, <1>4, QuietSerial DEF Promoting, Writing, Job
<1>5. CASE CheckApproval(t)
  <2>1. Quits(t) \/ work' = [work EXCEPT ![t].pc = "plan", ![t].key = OneOf(t)]
    BY <1>5 DEF CheckApproval, Refuses
  <2> QED
    BY <1>2, <1>3, <1>4, <2>1 DEF StoreInv, TaskState, Promoting
<1>6. CASE PickSource(t)
  <2>1. Quits(t) \/ \E k \in EvalKey : work' = [work EXCEPT ![t].pc = "plan", ![t].key = k]
    BY <1>6 DEF PickSource, Refuses
  <2> QED
    BY <1>2, <1>3, <1>4, <2>1 DEF StoreInv, TaskState, Promoting
<1>7. CASE ReadPlan(t)
  <2>1. work' = [work EXCEPT ![t].pc = "current", ![t].draft = evalRow[work[t].key]]
    BY <1>7 DEF ReadPlan
  <2> QED
    BY <1>2, <1>4, <2>1 DEF StoreInv, TaskState, Promoting
<1>8. CASE ReadCurrent(t)
  <2>1. PICK plan : work' = [work EXCEPT ![t].pc = "judge", ![t].todo = plan]
    BY <1>8 DEF ReadCurrent
  <2> QED
    BY <1>2, <1>4, <2>1 DEF StoreInv, TaskState, Promoting
<1>9. CASE Judges(t)
  <2>1. Quits(t) \/ work' = [work EXCEPT ![t].pc = "apply"]
    BY <1>9 DEF Judges, Refuses, Goes
  <2> QED
    BY <1>2, <1>3, <1>4, <2>1 DEF StoreInv, TaskState, Promoting
<1> QED
  BY <1>3, <1>5, <1>6, <1>7, <1>8, <1>9 DEF AppliesPlan

LEMMA SerialStep == StoreInv /\ SerialInv /\ [EvalNext]_evalVars => SerialInv'
<1> SUFFICES ASSUME StoreInv, SerialInv, [EvalNext]_evalVars PROVE SerialInv'
  OBVIOUS
<1>1. ASSUME NEW t \in Task,
             \/ Begins(t) \/ LookOverride(t) \/ ReadRun(t) \/ ListRuns(t) \/ NumberRevision(t)
             \/ InsertRevision(t) \/ WriteRow(t) \/ AfterWrite(t) \/ Slips(t)
      PROVE  SerialInv'
  BY <1>1, BeginsSerial, LookSerial, ReadSerial, ListSerial, NumberSerial, InsertSerial,
     WriteSerial, AfterSerial, SlipSerial
<1>2. ASSUME NEW t \in Task,
             \/ CheckApproval(t) \/ PickSource(t) \/ ReadPlan(t) \/ ReadCurrent(t)
             \/ Judges(t) \/ AppliesPlan(t)
      PROVE  SerialInv'
  BY <1>2, PromoteSerial
<1>3. CASE UNCHANGED <<evalRow, evalHist, acked, mixed, work>>
  <2>1. \A t \in Task : SerialTask(t)'
    BY <1>3 DEF SerialInv, SerialTask, Fresh, Carries, Draft, Pending, Job, WorkAt, Anew
  <2>2. OneWriter'
    BY <1>3 DEF SerialInv, OneWriter, WritesTo, Busy, WorkAt, Job
  <2>3. \A k \in EvalKey \ mixed : Resting(k)' => Kept(k)'
    BY <1>3 DEF SerialInv, Resting, Kept
  <2> QED
    BY <1>3, <2>1, <2>2, <2>3 DEF SerialInv
<1> QED
  BY <1>1, <1>2, <1>3 DEF EvalNext, CooldownEnds, evalVars, StoreSame, GhostsSame

-----------------------------------------------------------------------------
(* Live promotion *)

LEMMA HistoryStep ==
    ASSUME StoreInv, [EvalNext]_evalVars
    PROVE  HistoryGrows /\ governance' = governance
<1>1. ASSUME StoreSame PROVE HistoryGrows
  BY <1>1, HistorySame DEF StoreSame, StoreInv, TablesInv
<1>2. ASSUME NEW t \in Task, InsertRevision(t) \/ WriteRow(t) \/ Slips(t) PROVE HistoryGrows
  <2>1. mixed' \subseteq EvalKey
    <3>1. StoreInv'
      BY <1>2, InsertStore, WriteStore, SlipStore
    <3> QED
      BY <3>1 DEF StoreInv, TablesInv
  <2>2. CASE StoreSame
    BY <1>1, <2>2
  <2>3. CASE WorkAt(t, "insert") /\ Appended(t) /\ UNCHANGED <<evalRow, acked>>
    BY <2>1, <2>3, AppendStore
  <2>4. CASE /\ WorkAt(t, "row") /\ evalRow' = [evalRow EXCEPT ![work[t].key] = Draft(t)]
             /\ acked' \in {acked, [acked EXCEPT ![work[t].key] = Nothing]}
             /\ UNCHANGED evalHist
    BY <2>1, <2>4, RowStore
  <2> QED
    BY <1>2, <2>2, <2>3, <2>4 DEF InsertRevision, WriteRow, Slips, StoreSame, GhostsSame
<1>3. ASSUME NEW t \in Task,
             \/ Begins(t) \/ LookOverride(t) \/ ReadRun(t) \/ ListRuns(t) \/ NumberRevision(t)
             \/ AfterWrite(t) \/ CheckApproval(t) \/ PickSource(t) \/ ReadPlan(t)
             \/ ReadCurrent(t) \/ Judges(t) \/ AppliesPlan(t)
      PROVE  StoreSame
  BY <1>3 DEF Begins, LookOverride, ReadRun, ListRuns, NumberRevision, AfterWrite, CheckApproval,
     PickSource, ReadPlan, ReadCurrent, Judges, AppliesPlan
<1>4. HistoryGrows
  BY <1>1, <1>2, <1>3 DEF EvalNext, CooldownEnds, evalVars, StoreSame
<1>5. governance' = governance
  BY DEF EvalNext, CooldownEnds, evalVars, Begins, LookOverride, ReadRun, ListRuns, NumberRevision,
     InsertRevision, WriteRow, AfterWrite, Slips, CheckApproval, PickSource, ReadPlan, ReadCurrent,
     Judges, AppliesPlan, WorldSame
<1> QED
  BY <1>4, <1>5

\* The run of a promotion was of the paper stage, or approved where it must be; the plan is
\* of a revision, and one that is not blocked when it is applied.
PaperOnce(k) == \E i \in DOMAIN evalHist[k] : evalHist[k][i].stage = "paper"
ApprovedOnce(k) == \E i \in DOMAIN evalHist[k] : evalHist[k][i].mark = "approved"
Forced(t) == Job(t).op = "promote" /\ Job(t).force

SourceInv(t) ==
    LET k == work[t].key
        rec == work[t].draft
    IN
    /\ Job(t).op = "auto" => PaperOnce(k)
    /\ Job(t).op = "promote" /\ governance = "manual_approval" /\ ~Forced(t) => ApprovedOnce(k)
    /\ ~WorkAt(t, "plan") => Told(k, rec)
    /\ WorkAt(t, "apply") =>
         /\ Job(t).op = "promote" => rec.stage = "paper"
         /\ rec.status \in {"pass", "warn"} \/ Forced(t)
         /\ Cardinality(rec.set) <= MaxLiveSlots

PromoterInv(t) ==
    /\ Busy(t) /\ Job(t).op = "auto" => governance = "auto_apply"
    /\ work[t].pc \in Promoting => SourceInv(t)

PromotedInv(p) ==
    /\ p.key \in EvalKey
    /\ \E i \in DOMAIN evalHist[p.key] : /\ evalHist[p.key][i].set = p.set
                                         /\ p.auto \/ evalHist[p.key][i].stage = "paper"
                                         /\ p.force \/ evalHist[p.key][i].status \in {"pass", "warn"}
    /\ PaperOnce(p.key)
    /\ Cardinality(p.set) <= MaxLiveSlots
    /\ governance = "manual_approval" /\ ~p.force => ApprovedOnce(p.key)

\* While promotions do not overlap, a plan is from the decisions as they are.
Promoter(t) == Busy(t) /\ Promotes(Job(t))
SlotsInv ==
    \/ tangled
    \/ /\ Cardinality(live) <= MaxLiveSlots
       /\ \A t, u \in Task : Promoter(t) /\ Promoter(u) => t = u
       /\ \A t \in Task : work[t].pc \in {"judge", "apply"} =>
            /\ work[t].todo.activate = work[t].draft.set \ live
            /\ work[t].todo.deactivate = live \ work[t].draft.set

PromotionInv ==
    /\ \A t \in Task : PromoterInv(t)
    /\ \A p \in promoted : PromotedInv(p)
    /\ SlotsInv

LEMMA PromotionTells == PromotionInv => PromotionsGoverned
BY DEF PromotionInv, PromotedInv, SlotsInv, PaperOnce, ApprovedOnce, PromotionsGoverned, InHistory

LEMMA PromotionInit == EvalInit => PromotionInv
<1> SUFFICES ASSUME EvalInit PROVE PromotionInv
  OBVIOUS
<1>1. \A t \in Task : ~Busy(t) /\ work[t].pc = "idle"
  BY DEF EvalInit, NoWork, Busy, WorkAt
<1>2. SlotsInv
  BY <1>1, EvaluationBounds DEF EvalInit, SlotsInv, Promoter
<1>3. \A t \in Task : PromoterInv(t)
  BY <1>1 DEF PromoterInv, Promoting
<1> QED
  BY <1>2, <1>3 DEF EvalInit, PromotionInv

LEMMA OnceStays ==
    ASSUME HistoryGrows, NEW k \in EvalKey
    PROVE  (PaperOnce(k) => PaperOnce(k)') /\ (ApprovedOnce(k) => ApprovedOnce(k)')
BY DEF HistoryGrows, PaperOnce, ApprovedOnce

LEMMA PromotedStays ==
    ASSUME HistoryGrows, governance' = governance, NEW p, PromotedInv(p)
    PROVE  PromotedInv(p)'
<1>1. PICK k \in EvalKey : k = p.key
  BY DEF PromotedInv
<1>2. PaperOnce(p.key)' /\ (governance = "manual_approval" /\ ~p.force => ApprovedOnce(p.key)')
  BY <1>1, OnceStays DEF PromotedInv
<1>3. PICK i \in DOMAIN evalHist[k] :
        /\ evalHist[k][i].set = p.set
        /\ p.auto \/ evalHist[k][i].stage = "paper"
        /\ p.force \/ evalHist[k][i].status \in {"pass", "warn"}
  BY <1>1 DEF PromotedInv
<1>4. i \in DOMAIN evalHist'[k] /\ evalHist'[k][i] = evalHist[k][i]
  BY <1>3 DEF HistoryGrows
<1>5. \E x \in DOMAIN evalHist'[p.key] :
        /\ evalHist'[p.key][x].set = p.set
        /\ p.auto \/ evalHist'[p.key][x].stage = "paper"
        /\ p.force \/ evalHist'[p.key][x].status \in {"pass", "warn"}
  BY <1>1, <1>3, <1>4
<1> QED
  BY <1>1, <1>2, <1>5 DEF PromotedInv

LEMMA OtherPromoters ==
    ASSUME StoreInv, HistoryGrows, governance' = governance, NEW v \in Task,
           work'[v] = work[v], PromoterInv(v)
    PROVE  PromoterInv(v)'
<1>1. /\ Job(v)' = Job(v) /\ Busy(v)' = Busy(v) /\ Forced(v)' = Forced(v)
      /\ \A pc : WorkAt(v, pc)' = WorkAt(v, pc)
  BY DEF Job, Busy, Forced, WorkAt
<1>2. ASSUME work[v].pc \in Promoting PROVE SourceInv(v)'
  <2>1. PICK k \in EvalKey : k = work[v].key
    BY <1>2 DEF StoreInv, TaskInv, PlanInv
  <2>2. (PaperOnce(k) => PaperOnce(k)') /\ (ApprovedOnce(k) => ApprovedOnce(k)')
    BY OnceStays
  <2>3. ASSUME NEW r, Told(k, r) PROVE Told(k, r)'
    BY <2>3 DEF Told, HistoryGrows
  <2>4. SourceInv(v)
    BY <1>2 DEF PromoterInv
  <2>5. work'[v].key = k
    BY <2>1
  <2>6. (PaperOnce(work[v].key) => PaperOnce(work[v].key)') /\ (ApprovedOnce(work[v].key) => ApprovedOnce(work[v].key)')
        /\ (Told(work[v].key, work[v].draft) => Told(work[v].key, work[v].draft)')
    BY <2>1, <2>2, <2>3, <2>5 DEF PaperOnce, ApprovedOnce, Told
  <2> QED
    BY <1>1, <2>4, <2>6 DEF SourceInv
<1> QED
  BY <1>1, <1>2 DEF PromoterInv

\* A task moves and the world stays as it is.
LEMMA PromotionMove ==
    ASSUME StoreInv, PromotionInv, HistoryGrows, NEW t \in Task,
           \A v \in Task \ {t} : work'[v] = work[v],
           UNCHANGED <<governance, live, promoted, tangled>>,
           Busy(t)' => Busy(t) /\ Job(t)' = Job(t),
           PromoterInv(t)',
           tangled \/ (work'[t].pc \in {"judge", "apply"} =>
                         /\ work'[t].todo.activate = work'[t].draft.set \ live
                         /\ work'[t].todo.deactivate = live \ work'[t].draft.set)
    PROVE  PromotionInv'
<1>1. \A v \in Task : PromoterInv(v)'
  BY OtherPromoters DEF PromotionInv
<1>2. \A p \in promoted' : PromotedInv(p)'
  BY PromotedStays DEF PromotionInv
<1>3. \A v \in Task : Promoter(v)' => Promoter(v)
  BY DEF Promoter, Busy, WorkAt, Job
<1>4. SlotsInv'
  BY <1>3 DEF PromotionInv, SlotsInv
<1> QED
  BY <1>1, <1>2, <1>4 DEF PromotionInv

\* A request arrives.
LEMMA BeginsPromotion ==
    ASSUME StoreInv, PromotionInv, HistoryGrows, governance' = governance, NEW t \in Task, Begins(t)
    PROVE  PromotionInv'
<1>1. PICK j \in Jobs :
        /\ j.op = "auto" => governance = "auto_apply"
        /\ work' = [work EXCEPT ![t] =
              [NoWork EXCEPT !.pc = FirstStep(j), !.job = j,
                             !.todo = IF j.op = "evaluate" THEN j.keys ELSE {},
                             !.draft = IF j.op = "evaluate"
                                         THEN [k \in j.keys |-> Evaluated(j)] ELSE None]]
        /\ tangled' = \/ tangled
                      \/ Promotes(j) /\ \E u \in Task : Busy(u) /\ Promotes(Job(u))
  BY DEF Begins
<1>2. Job(t)' = j
  BY <1>1 DEF StoreInv, NoWork, Job
<1>3. /\ \A v \in Task \ {t} : work'[v] = work[v]
      /\ work'[t].pc \notin {"insert", "row", "audit"} \cup Promoting
  BY BeginsStore
<1>4. UNCHANGED <<live, promoted>>
  BY DEF Begins
<1>5. PromoterInv(t)'
  BY <1>1, <1>2, <1>3 DEF PromoterInv
<1>6. \A v \in Task : PromoterInv(v)'
  BY <1>3, <1>5, OtherPromoters DEF PromotionInv
<1>7. \A p \in promoted' : PromotedInv(p)'
  BY <1>4, PromotedStays DEF PromotionInv
<1>8. ASSUME ~tangled' PROVE SlotsInv'
  <2>1. /\ ~tangled
        /\ Promotes(j) => \A u \in Task : ~Promoter(u)
    BY <1>1, <1>8 DEF Promoter
  <2>2. \A v \in Task \ {t} : Promoter(v)' = Promoter(v)
    BY <1>3 DEF Promoter, Busy, WorkAt, Job
  <2>3. Promoter(t)' => Promotes(j)
    BY <1>2 DEF Promoter
  <2>4. \A v, u \in Task : Promoter(v)' /\ Promoter(u)' => v = u
    BY <2>1, <2>2, <2>3 DEF PromotionInv, SlotsInv
  <2>5. ASSUME NEW v \in Task, work'[v].pc \in {"judge", "apply"}
        PROVE  /\ work'[v].todo.activate = work'[v].draft.set \ live
               /\ work'[v].todo.deactivate = live \ work'[v].draft.set
    <3>1. v # t
      BY <1>3, <2>5 DEF Promoting
    <3> QED
      BY <1>3, <2>1, <2>5, <3>1 DEF PromotionInv, SlotsInv
  <2> QED
    BY <1>4, <2>1, <2>4, <2>5 DEF PromotionInv, SlotsInv
<1> QED
  BY <1>6, <1>7, <1>8 DEF PromotionInv, SlotsInv

\* The steps of the writers are none of a promotion.
LEMMA WriterPromotion ==
    ASSUME StoreInv, PromotionInv, HistoryGrows, NEW t \in Task,
           \/ LookOverride(t) \/ ReadRun(t) \/ ListRuns(t) \/ NumberRevision(t)
           \/ InsertRevision(t) \/ WriteRow(t) \/ AfterWrite(t) \/ Slips(t)
    PROVE  PromotionInv'
<1>1. UNCHANGED <<governance, live, promoted, tangled>>
  BY DEF LookOverride, ReadRun, ListRuns, NumberRevision, InsertRevision, WriteRow, AfterWrite,
     Slips, WorldSame
<1>2. work \in [Task -> TaskState] /\ work[t] \in TaskState /\ Busy(t)
  BY DEF LookOverride, ReadRun, ListRuns, NumberRevision, InsertRevision, WriteRow, AfterWrite,
     Slips, StoreInv, WorkAt, Busy
<1> DEFINE StaysApart ==
      /\ \A v \in Task \ {t} : work'[v] = work[v]
      /\ work'[t].pc \notin Promoting
      /\ ~Busy(t)' \/ Job(t)' = Job(t)
<1>3. StaysApart
  <2>1. CASE Quits(t)
    BY <1>2, <2>1, QuitState DEF Moves, NoWork, Busy, WorkAt, Promoting
  <2>2. ASSUME NEW p \in {"read", "row", "audit", "list", "number"}, Goes(t, p)
        PROVE  StaysApart
    BY <1>2, <2>2 DEF Goes, TaskState, Promoting, Job
  <2>3. ASSUME NEW x, NEW y, work' = [work EXCEPT ![t].pc = "number", ![t].todo = x, ![t].draft = y]
        PROVE  StaysApart
    BY <1>2, <2>3 DEF TaskState, Promoting, Job
  <2>4. ASSUME NumberRevision(t)
        PROVE  StaysApart
    <3>1. PICK k \in work[t].todo :
            work' = [work EXCEPT ![t].pc = "insert", ![t].key = k, ![t].todo = work[t].todo \ {k},
                                 ![t].rev = Len(evalHist[k]) + 1]
      BY <2>4 DEF NumberRevision
    <3> QED
      BY <1>2, <3>1 DEF TaskState, Promoting, Job
  <2>5. CASE ReadRun(t) \/ ListRuns(t)
    BY <2>1, <2>3, <2>5 DEF ReadRun, ListRuns
  <2> QED
    BY <2>1, <2>2, <2>4, <2>5 DEF LookOverride, InsertRevision, WriteRow, AfterWrite, Slips
<1>4. PromoterInv(t)'
  BY <1>1, <1>2, <1>3 DEF PromotionInv, PromoterInv
<1> QED
  BY <1>1, <1>2, <1>3, <1>4, PromotionMove DEF Promoting

\* Before the plan is carried out: the reads and the judgement.
LEMMA PlanningPromotion ==
    ASSUME StoreInv, PromotionInv, HistoryGrows, NEW t \in Task,
           CheckApproval(t) \/ PickSource(t) \/ ReadPlan(t) \/ ReadCurrent(t) \/ Judges(t)
    PROVE  PromotionInv'
<1>1. UNCHANGED <<evalRow, evalHist, governance, live, promoted, tangled>>
  BY DEF CheckApproval, PickSource, ReadPlan, ReadCurrent, Judges, StoreSame, WorldSame
<1>2. /\ work \in [Task -> TaskState] /\ work[t] \in TaskState /\ Busy(t) /\ TaskInv(t)
      /\ PromoterInv(t)
  BY DEF CheckApproval, PickSource, ReadPlan, ReadCurrent, Judges, StoreInv, WorkAt, Busy,
     PromotionInv
<1>3. CASE Quits(t)
  <2>1. (\A v \in Task \ {t} : work'[v] = work[v]) /\ work'[t].pc = "idle" /\ ~Busy(t)'
    BY <1>3, QuitState DEF Moves, NoWork, Busy, WorkAt
  <2>2. PromoterInv(t)'
    BY <2>1 DEF PromoterInv, Promoting
  <2> QED
    BY <1>1, <2>1, <2>2, PromotionMove
<1>4. ASSUME NEW k \in EvalKey, work' = [work EXCEPT ![t].pc = "plan", ![t].key = k],
             Job(t).op = "auto" => PaperOnce(k),
             Job(t).op = "promote" /\ governance = "manual_approval" /\ ~Forced(t) => ApprovedOnce(k)
      PROVE  PromotionInv'
  <2>1. /\ \A v \in Task \ {t} : work'[v] = work[v]
        /\ work'[t].pc = "plan" /\ work'[t].key = k /\ work'[t].job = work[t].job
    BY <1>2, <1>4 DEF TaskState
  <2>2. Job(t)' = Job(t) /\ Forced(t)' = Forced(t)
    BY <2>1 DEF Job, Forced
  <2>3. SourceInv(t)'
    BY <1>1, <1>4, <2>1, <2>2 DEF SourceInv, WorkAt, PaperOnce, ApprovedOnce
  <2>4. PromoterInv(t)'
    BY <1>1, <1>2, <2>2, <2>3 DEF PromoterInv
  <2> QED
    BY <1>1, <1>2, <2>1, <2>2, <2>4, PromotionMove
<1>5. CASE CheckApproval(t) /\ ~Quits(t)
  <2>1. Job(t).op = "promote" /\ Job(t) \in Jobs
    BY <1>2, <1>5, JobShape DEF CheckApproval, TaskInv, TaskState, WorkAt, Job
  <2>2. PICK k \in EvalKey : k = OneOf(t)
    BY <2>1, JobShape DEF OneOf
  <2>3. /\ work' = [work EXCEPT ![t].pc = "plan", ![t].key = k]
        /\ evalRow[k] # None
        /\ governance = "manual_approval" => evalRow[k].mark = "approved" \/ Job(t).force
    BY <1>5, <2>2 DEF CheckApproval, Refuses
  <2>4. \E i \in DOMAIN evalHist[k] : evalHist[k][i] = evalRow[k]
    BY <2>3 DEF StoreInv, TablesInv, RowInv, Told
  <2>5. governance = "manual_approval" /\ ~Forced(t) => ApprovedOnce(k)
    BY <2>1, <2>3, <2>4 DEF Forced, ApprovedOnce
  <2> QED
    BY <1>4, <2>1, <2>3, <2>5
<1>6. CASE PickSource(t) /\ ~Quits(t)
  <2>1. Job(t).op = "auto"
    BY <1>2, <1>6 DEF PickSource, TaskInv
  <2>2. PICK k \in EvalKey : /\ evalRow[k] # None /\ evalRow[k].stage = "paper"
                             /\ work' = [work EXCEPT ![t].pc = "plan", ![t].key = k]
    BY <1>6 DEF PickSource, Refuses
  <2>3. PaperOnce(k)
    BY <2>2 DEF StoreInv, TablesInv, RowInv, Told, PaperOnce
  <2> QED
    BY <1>4, <2>1, <2>2, <2>3
<1>7. CASE ReadPlan(t)
  <2>1. WorkAt(t, "plan") /\ PlanInv(t) /\ SourceInv(t)
    BY <1>2, <1>7 DEF ReadPlan, TaskInv, PromoterInv, WorkAt, Promoting
  <2>2. PICK k \in EvalKey : k = work[t].key /\ evalRow[k] # None
    BY <2>1 DEF PlanInv
  <2>3. work' = [work EXCEPT ![t].pc = "current", ![t].draft = evalRow[k]]
    BY <1>7, <2>2 DEF ReadPlan
  <2>4. /\ \A v \in Task \ {t} : work'[v] = work[v]
        /\ work'[t].pc = "current" /\ work'[t].key = k /\ work'[t].job = work[t].job
        /\ work'[t].draft = evalRow[k]
    BY <1>2, <2>2, <2>3 DEF TaskState
  <2>5. Job(t)' = Job(t) /\ Forced(t)' = Forced(t)
    BY <2>4 DEF Job, Forced
  <2>6. Told(k, evalRow[k])
    BY <2>2 DEF StoreInv, TablesInv, RowInv
  <2>7. SourceInv(t)'
    BY <1>1, <2>1, <2>2, <2>4, <2>5, <2>6 DEF SourceInv, WorkAt, PaperOnce, ApprovedOnce, Told
  <2>8. PromoterInv(t)'
    BY <1>1, <1>2, <2>5, <2>7 DEF PromoterInv
  <2> QED
    BY <1>1, <1>2, <2>4, <2>5, <2>8, PromotionMove
<1>8. CASE ReadCurrent(t)
  <2>1. WorkAt(t, "current") /\ SourceInv(t)
    BY <1>2, <1>8 DEF ReadCurrent, PromoterInv, WorkAt, Promoting
  <2> DEFINE plan == [activate |-> work[t].draft.set \ live, deactivate |-> live \ work[t].draft.set]
  <2>2. work' = [work EXCEPT ![t].pc = "judge", ![t].todo = plan]
    BY <1>8 DEF ReadCurrent
  <2>3. plan.activate = work[t].draft.set \ live /\ plan.deactivate = live \ work[t].draft.set
    OBVIOUS
  <2> HIDE DEF plan
  <2>4. /\ \A v \in Task \ {t} : work'[v] = work[v]
        /\ work'[t].pc = "judge" /\ work'[t].key = work[t].key /\ work'[t].job = work[t].job
        /\ work'[t].draft = work[t].draft /\ work'[t].todo = plan
    BY <1>2, <2>2 DEF TaskState
  <2>5. Job(t)' = Job(t) /\ Forced(t)' = Forced(t)
    BY <2>4 DEF Job, Forced
  <2>6. SourceInv(t)'
    BY <1>1, <2>1, <2>4, <2>5 DEF SourceInv, WorkAt, PaperOnce, ApprovedOnce, Told
  <2>7. PromoterInv(t)'
    BY <1>1, <1>2, <2>5, <2>6 DEF PromoterInv
  <2> QED
    BY <1>1, <1>2, <2>3, <2>4, <2>5, <2>7, PromotionMove
<1>9. CASE Judges(t) /\ ~Quits(t)
  <2>1. /\ WorkAt(t, "judge") /\ SourceInv(t) /\ ~Blocked(t) /\ Goes(t, "apply")
        /\ Job(t).op \in {"promote", "auto"}
    BY <1>2, <1>9 DEF Judges, Refuses, PromoterInv, TaskInv, PlanInv, WorkAt, Promoting
  <2>2. "apply" \in EvalPc
    BY DEF EvalPc, Promoting
  <2>3. /\ \A v \in Task \ {t} : work'[v] = work[v]
        /\ work'[t].pc = "apply" /\ work'[t].key = work[t].key /\ work'[t].job = work[t].job
        /\ work'[t].draft = work[t].draft /\ work'[t].todo = work[t].todo
    BY <2>1, <2>2, GoState DEF Moves
  <2>4. Job(t)' = Job(t) /\ Forced(t)' = Forced(t)
    BY <2>3 DEF Job, Forced
  <2>5. /\ Job(t).op = "promote" => work[t].draft.stage = "paper"
        /\ work[t].draft.status \in {"pass", "warn"} \/ Forced(t)
    BY <2>1 DEF Blocked, BlockedBy, Forced
  <2>6. Cardinality(work[t].draft.set) <= MaxLiveSlots
    <3>1. ~(Cardinality(work[t].draft.set) > MaxLiveSlots)
      BY <2>1 DEF Blocked, BlockedBy
    <3>2. work[t].draft \in EvalRecord
      BY <1>2, <2>1 DEF TaskInv, PlanInv, WorkAt, Promoting
    <3>3. work[t].draft.set \in {j.set : j \in JobsOf({"evaluate"})} \cup {r.set : r \in AtFirst}
      BY <3>2 DEF EvalRecord
    <3>4. Cardinality(work[t].draft.set) \in Nat
      BY <3>3, EvaluationBounds, FS_CardinalityType
    <3> QED
      BY <3>1, <3>4, EvaluationBounds
  <2>7. SourceInv(t)'
    BY <1>1, <2>1, <2>3, <2>4, <2>5, <2>6 DEF SourceInv, WorkAt, PaperOnce, ApprovedOnce, Told
  <2>8. PromoterInv(t)'
    BY <1>1, <1>2, <2>4, <2>7 DEF PromoterInv
  <2>9. tangled \/ /\ work'[t].todo.activate = work'[t].draft.set \ live
                   /\ work'[t].todo.deactivate = live \ work'[t].draft.set
    BY <2>1, <2>3 DEF PromotionInv, SlotsInv, WorkAt
  <2> QED
    BY <1>1, <1>2, <2>3, <2>4, <2>8, <2>9, PromotionMove
<1> QED
  BY <1>3, <1>5, <1>6, <1>7, <1>8, <1>9

\* The plan is carried out, or its run rolled back.
LEMMA AppliesPromotion ==
    ASSUME StoreInv, PromotionInv, HistoryGrows, NEW t \in Task, AppliesPlan(t)
    PROVE  PromotionInv'
<1>1. UNCHANGED <<evalRow, evalHist, governance, tangled>> /\ Quits(t)
  BY DEF AppliesPlan, StoreSame
<1>2. (\A v \in Task \ {t} : work'[v] = work[v]) /\ work'[t].pc = "idle" /\ ~Busy(t)'
  BY <1>1, QuitState DEF Moves, NoWork, Busy, WorkAt
<1>3. PromoterInv(t)'
  BY <1>2 DEF PromoterInv, Promoting
<1>4. CASE UNCHANGED <<live, promoted>>
  BY <1>1, <1>2, <1>3, <1>4, PromotionMove
<1> DEFINE p == [key |-> work[t].key, set |-> work[t].draft.set, auto |-> Job(t).op = "auto",
                 force |-> Job(t).op = "promote" /\ Job(t).force]
<1>5. CASE /\ live' = (live \ work[t].todo.deactivate) \cup work[t].todo.activate
           /\ promoted' = promoted \cup {p}
  <2>1. /\ WorkAt(t, "apply") /\ work[t].pc = "apply" /\ SourceInv(t) /\ PlanInv(t)
        /\ Job(t).op \in {"promote", "auto"} /\ Busy(t)
        /\ Job(t).op = "auto" => governance = "auto_apply"
    BY DEF AppliesPlan, PromotionInv, PromoterInv, StoreInv, TaskInv, PlanInv, WorkAt, Promoting, Busy
  <2>2. PICK k \in EvalKey : k = work[t].key
    BY <2>1 DEF PlanInv
  <2>3. PICK i \in DOMAIN evalHist[k] : evalHist[k][i] = work[t].draft
    BY <2>1, <2>2 DEF SourceInv, Told, WorkAt
  <2>4. p.key = k /\ p.set = work[t].draft.set /\ (p.auto <=> Job(t).op = "auto") /\ (p.force <=> Forced(t))
    BY <2>2 DEF Forced
  <2> HIDE DEF p
  <2>5. /\ Job(t).op = "auto" => PaperOnce(k)
        /\ Job(t).op = "promote" /\ governance = "manual_approval" /\ ~Forced(t) => ApprovedOnce(k)
        /\ Job(t).op = "promote" => evalHist[k][i].stage = "paper"
        /\ evalHist[k][i].status \in {"pass", "warn"} \/ Forced(t)
        /\ Cardinality(work[t].draft.set) <= MaxLiveSlots
    BY <2>1, <2>2, <2>3 DEF SourceInv
  <2>6. PaperOnce(k)
    BY <2>1, <2>3, <2>5 DEF PaperOnce
  <2>7. governance = "manual_approval" /\ ~p.force => ApprovedOnce(k)
    BY <2>1, <2>4, <2>5
  <2>8. /\ evalHist[k][i].set = p.set
        /\ p.auto \/ evalHist[k][i].stage = "paper"
        /\ p.force \/ evalHist[k][i].status \in {"pass", "warn"}
    BY <2>1, <2>3, <2>4, <2>5
  <2>9. PromotedInv(p)
    BY <2>3, <2>4, <2>5, <2>6, <2>7, <2>8 DEF PromotedInv
  <2>10. \A q \in promoted' : PromotedInv(q)'
    BY <1>1, <1>5, <2>9, PromotedStays DEF PromotionInv
  <2>11. \A v \in Task : PromoterInv(v)'
    BY <1>1, <1>2, <1>3, OtherPromoters DEF PromotionInv
  <2>12. ASSUME ~tangled PROVE SlotsInv'
    <3>1. live' = work[t].draft.set
      BY <1>5, <2>1, <2>12 DEF PromotionInv, SlotsInv
    <3>2. Promoter(t)
      BY <2>1 DEF Promoter, Promotes
    <3>3. ASSUME NEW v \in Task, work'[v].pc \in {"judge", "apply"} PROVE FALSE
      <4>1. v # t /\ work[v].pc \in {"judge", "apply"}
        BY <1>2, <3>3
      <4>2. Promoter(v)
        BY <4>1 DEF StoreInv, TaskInv, PlanInv, Promoter, Promotes, Busy, WorkAt, Promoting
      <4> QED
        BY <2>12, <3>2, <4>1, <4>2 DEF PromotionInv, SlotsInv
    <3>4. \A v \in Task : Promoter(v)' => Promoter(v)
      BY <1>2 DEF Promoter, Busy, WorkAt, Job
    <3> QED
      BY <2>5, <2>12, <3>1, <3>3, <3>4 DEF PromotionInv, SlotsInv
  <2> QED
    BY <1>1, <2>10, <2>11, <2>12 DEF PromotionInv, SlotsInv
<1> QED
  BY <1>4, <1>5 DEF AppliesPlan

LEMMA PromotionStep == StoreInv /\ PromotionInv /\ [EvalNext]_evalVars => PromotionInv'
<1> SUFFICES ASSUME StoreInv, PromotionInv, [EvalNext]_evalVars PROVE PromotionInv'
  OBVIOUS
<1>1. HistoryGrows /\ governance' = governance
  BY HistoryStep
<1>2. ASSUME NEW t \in Task, Begins(t) PROVE PromotionInv'
  BY <1>1, <1>2, BeginsPromotion
<1>3. ASSUME NEW t \in Task,
             \/ LookOverride(t) \/ ReadRun(t) \/ ListRuns(t) \/ NumberRevision(t)
             \/ InsertRevision(t) \/ WriteRow(t) \/ AfterWrite(t) \/ Slips(t)
      PROVE  PromotionInv'
  BY <1>1, <1>3, WriterPromotion
<1>4. ASSUME NEW t \in Task,
             CheckApproval(t) \/ PickSource(t) \/ ReadPlan(t) \/ ReadCurrent(t) \/ Judges(t)
      PROVE  PromotionInv'
  BY <1>1, <1>4, PlanningPromotion
<1>5. ASSUME NEW t \in Task, AppliesPlan(t) PROVE PromotionInv'
  BY <1>1, <1>5, AppliesPromotion
<1>6. CASE UNCHANGED <<evalRow, evalHist, work, live, promoted, tangled>>
  <2>1. \A t \in Task : PromoterInv(t)'
    BY <1>1, <1>6, OtherPromoters DEF PromotionInv
  <2>2. \A p \in promoted' : PromotedInv(p)'
    BY <1>1, <1>6, PromotedStays DEF PromotionInv
  <2>3. SlotsInv'
    BY <1>6 DEF PromotionInv, SlotsInv, Promoter, Busy, WorkAt, Job
  <2> QED
    BY <2>1, <2>2, <2>3 DEF PromotionInv
<1> QED
  BY <1>2, <1>3, <1>4, <1>5, <1>6 DEF EvalNext, CooldownEnds, evalVars, StoreSame

-----------------------------------------------------------------------------
LEMMA EvalInvariant == EvalSpec => [](StoreInv /\ live \subseteq Member /\ SerialInv /\ PromotionInv)
<1> DEFINE Inv == StoreInv /\ live \subseteq Member /\ SerialInv /\ PromotionInv
<1>1. EvalInit => Inv
  BY StoreInit, SerialInit, PromotionInit DEF EvalInit, Member
<1>2. Inv /\ [EvalNext]_evalVars => Inv'
  BY StoreStep, LiveStep, SerialStep, PromotionStep
<1> QED
  BY <1>1, <1>2, PTL DEF EvalSpec

\* The store keeps what it has answered for: the history tells everything that was answered
\* with success, whatever overlaps or fails, and the row of a run whose writers came one
\* after the other is its last revision.
THEOREM RevisionsAlwaysKept == EvalSpec => []RevisionsKept
<1>1. StoreInv /\ SerialInv => RevisionsKept
  BY StoreTells, SerialKeeps DEF RevisionsKept
<1> QED
  BY <1>1, EvalInvariant, PTL

\* What is promoted is one revision that passed, fits the slots and was approved where it
\* must be, although approval, plan and reasons come from reads of their own.
THEOREM PromotionsAlwaysGoverned == EvalSpec => []PromotionsGoverned
<1>1. PromotionInv => PromotionsGoverned
  BY PromotionTells
<1> QED
  BY <1>1, EvalInvariant, PTL
=============================================================================
