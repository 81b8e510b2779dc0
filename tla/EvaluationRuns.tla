--------------------------- MODULE EvaluationRuns ----------------------------
(***************************************************************************)
(* The evaluation store of WorldService and the live promotion that reads   *)
(* it: the tables evaluation_runs (one row per run) and                     *)
(* evaluation_run_history (a row per revision), what evaluations,           *)
(* overrides, ex-post failures and the extended validation write to them,   *)
(* and the promotion endpoints.                                             *)
(*                                                                          *)
(* Nothing of this takes a lock.  An action is the code between two awaits, *)
(* a call of the database with what follows its answer.  A run is its key;  *)
(* of a record are kept the stage, the status of its summary, the active    *)
(* set, the override, the ex-post failures and the extended revision.       *)
(* Timestamps are left out: clients supply those of overrides and failures, *)
(* so any paper run may be the freshest.                                    *)
(***************************************************************************)
EXTENDS Naturals, Sequences, SequencesExt, FiniteSets, Optional

CONSTANTS EvalKey,           \* evaluation runs of one world
          Task,          \* concurrent requests and workers
          Jobs,          \* what they may be asked to do
          StoredRuns,      \* the rows at the start: a record or None for each key
          PromotionModes,         \* values of governance.live_promotion.mode
          LiveAtFirst,   \* decisions at the start
          MaxLiveSlots,  \* governance.live_promotion.max_live_slots
          EventDriven,   \* the production profile: the bus starts the extended validation
          MaxJobs, MaxSlips

JobsOf(ops) == {j \in Jobs : j.op \in ops}
AtFirst == {StoredRuns[k] : k \in EvalKey} \ {None}

\* What is kept of a record.
EvalRecord ==
    [stage : {j.stage : j \in JobsOf({"evaluate"})} \cup {r.stage : r \in AtFirst},
     status : {j.status : j \in JobsOf({"evaluate"})} \cup {r.status : r \in AtFirst},
     set : {j.set : j \in JobsOf({"evaluate"})} \cup {r.set : r \in AtFirst},
     mark : {j.mark : j \in JobsOf({"evaluate", "override"})} \cup {r.mark : r \in AtFirst} \cup {None},
     cases : SUBSET ({j.case : j \in JobsOf({"failure"})} \cup UNION {r.cases : r \in AtFirst}),
     ext : Nat]

\* Overrides, failures and promotions name a run; a row at the start has one revision;
\* an active set is a list of strategies.
ASSUME EvaluationBounds ==
    /\ MaxJobs \in Nat /\ MaxSlips \in Nat /\ MaxLiveSlots \in Nat
    /\ EventDriven \in BOOLEAN
    /\ Cardinality(LiveAtFirst) <= MaxLiveSlots
    /\ \A j \in Jobs : /\ j.op \in {"evaluate", "override", "failure", "extend", "promote", "auto"}
                      /\ j.keys \subseteq EvalKey
    /\ \A j \in JobsOf({"override", "failure", "promote"}) : j.keys # {}
    /\ \A j \in JobsOf({"evaluate", "extend"}) : j.scope \subseteq EvalKey
    /\ StoredRuns \in [EvalKey -> EvalRecord \cup {None}]
    /\ \A r \in AtFirst : r.ext <= 1 /\ IsFiniteSet(r.set)
    /\ \A j \in JobsOf({"evaluate"}) : IsFiniteSet(j.set)
    /\ None \notin Jobs \cup EvalRecord

VARIABLES evalRow,      \* evaluation_runs
          evalHist,     \* evaluation_run_history: revision i is element i
          work,        \* where each request is
          governance,   \* the mode of the world's policy
          live,         \* decisions of the world
          cooling,      \* an apply has completed within the cooldown
          acked,        \* override and failures answered since the last evaluation
          promoted,     \* promotions that were applied
          mixed,        \* runs that two writers had in hand at once, or a failing call
          tangled,      \* two promotions were under way at once
          jobs, slips

evalVars == <<evalRow, evalHist, work, governance, live, cooling, acked, promoted,
              mixed, tangled, jobs, slips>>

NoWork == [pc |-> "idle", job |-> None, key |-> None, todo |-> {}, draft |-> None, rev |-> 0]
Nothing == [mark |-> None, cases |-> {}]

EvalInit ==
    /\ evalRow = StoredRuns
    /\ evalHist = [k \in EvalKey |-> IF StoredRuns[k] = None THEN <<>> ELSE <<StoredRuns[k]>>]
    /\ work = [t \in Task |-> NoWork]
    /\ governance \in PromotionModes
    /\ live = LiveAtFirst /\ cooling = FALSE
    /\ acked = [k \in EvalKey |-> Nothing] /\ promoted = {}
    /\ mixed = {} /\ tangled = FALSE /\ jobs = 0 /\ slips = 0

WorkAt(t, pc) == work[t].pc = pc
Job(t) == work[t].job
Goes(t, pc) == work' = [work EXCEPT ![t].pc = pc]
Quits(t) == work' = [work EXCEPT ![t] = NoWork]

\* The runs a job may write.
Writes(j) == IF j.op \in {"evaluate", "extend"} THEN j.keys \cup j.scope
             ELSE IF j.op \in {"override", "failure"} THEN j.keys ELSE {}
Promotes(j) == j.op \in {"promote", "auto"}
Busy(t) == ~WorkAt(t, "idle")

StoreSame == UNCHANGED <<evalRow, evalHist>>
WorldSame == UNCHANGED <<governance, live, cooling, promoted, tangled>>
GhostsSame == UNCHANGED <<acked, mixed, jobs, slips>>

FirstStep(j) == CASE j.op = "evaluate" -> "number" [] j.op = "override" -> "look"
                  [] j.op = "failure" -> "read"    [] j.op = "extend" -> "list"
                  [] j.op = "promote" -> "check"   [] j.op = "auto" -> "pick"

\* _record_evaluation_run_for_strategy: the summary is made anew, without the failures of an
\* earlier evaluation of the same run and with the override the request carries, if any.
Evaluated(j) == [stage |-> j.stage, status |-> j.status, set |-> j.set,
                 mark |-> j.mark, cases |-> {}, ext |-> 0]

\* What a job takes of the bound: one for each run it names.
Cost(j) == IF j.keys = {} THEN 1 ELSE Cardinality(j.keys)

\* A request arrives, or a worker begins.  The mode of the policy admits a promotion.
Begins(t) ==
    /\ WorkAt(t, "idle")
    /\ \E j \in Jobs :
         /\ jobs + Cost(j) <= MaxJobs /\ jobs' = jobs + Cost(j)
         /\ j.op = "promote" => governance # "disabled"
         /\ j.op = "auto" => governance = "auto_apply"
         /\ work' = [work EXCEPT ![t] =
              [NoWork EXCEPT !.pc = FirstStep(j), !.job = j,
                             !.todo = IF j.op = "evaluate" THEN j.keys ELSE {},
                             !.draft = IF j.op = "evaluate"
                                         THEN [k \in j.keys |-> Evaluated(j)] ELSE None]]
         /\ mixed' = mixed \cup
              {k \in Writes(j) : \E u \in Task : Busy(u) /\ k \in Writes(Job(u))}
         /\ tangled' = \/ tangled
                       \/ Promotes(j) /\ \E u \in Task : Busy(u) /\ Promotes(Job(u))
    /\ StoreSame /\ UNCHANGED <<governance, live, cooling, acked, promoted, slips>>

-----------------------------------------------------------------------------
\* Writing.  An override and a failure are of one run; its key:
OneOf(t) == CHOOSE k \in Job(t).keys : TRUE

\* The first look of record_evaluation_override: 404, or the override is there already
\* and the request is answered with the row, or the store is called.
LookOverride(t) ==
    LET row == evalRow[OneOf(t)] IN
    /\ WorkAt(t, "look")
    /\ \/ row = None /\ Quits(t) /\ UNCHANGED acked
       \/ /\ row # None /\ row.mark = Job(t).mark /\ Quits(t)
          /\ acked' = [acked EXCEPT ![OneOf(t)].mark = row.mark]
       \/ row # None /\ row.mark # Job(t).mark /\ Goes(t, "read") /\ UNCHANGED acked
    /\ StoreSame /\ WorldSame /\ UNCHANGED <<mixed, jobs, slips>>

\* The new record, from the one that was read: summary.update with the override, or the
\* log of failures with one more.
Revised(row, j) ==
    CASE j.op = "override" -> [row EXCEPT !.mark = j.mark]
      [] j.op = "failure" -> [row EXCEPT !.cases = @ \cup {j.case}]

\* The record with the results of the extended layers.
Extended(row) == [row EXCEPT !.ext = @ + 1]

\* The read of record_evaluation_override and record_ex_post_failure.
ReadRun(t) ==
    LET k == OneOf(t) IN
    /\ WorkAt(t, "read")
    /\ \/ evalRow[k] = None /\ Quits(t)
       \/ /\ evalRow[k] # None
          /\ work' = [work EXCEPT ![t].pc = "number", ![t].todo = {k},
                         ![t].draft = [x \in {k} |-> Revised(evalRow[k], Job(t))]]
    /\ StoreSame /\ WorldSame /\ GhostsSame

\* ExtendedValidationWorker.run: the rows of the stage, all read at once, of the run that
\* was evaluated or, for a cohort, of the world (the scope), as far as the policy has
\* layers for them; these are evaluated and the results stored one after the other.
ListRuns(t) ==
    /\ WorkAt(t, "list")
    /\ \E found \in SUBSET {k \in Job(t).scope :
                             evalRow[k] # None /\ evalRow[k].stage = Job(t).stage} :
         \/ found = {} /\ Quits(t)
         \/ /\ found # {}
            /\ work' = [work EXCEPT ![t].pc = "number", ![t].todo = found,
                           ![t].draft = [k \in found |-> Extended(evalRow[k])]]
    /\ StoreSame /\ WorldSame /\ GhostsSame

\* upsert: SELECT MAX(revision).  What record_evaluation_run reads before it is kept for
\* the time of creation only.
NumberRevision(t) ==
    /\ WorkAt(t, "number")
    /\ \E k \in work[t].todo :
         work' = [work EXCEPT ![t].pc = "insert", ![t].key = k, ![t].todo = @ \ {k},
                                ![t].rev = Len(evalHist[k]) + 1]
    /\ StoreSame /\ WorldSame /\ GhostsSame

Draft(t) == work[t].draft[work[t].key]
Appended(t) == evalHist' = [evalHist EXCEPT ![work[t].key] = Append(@, Draft(t))]
Numbered(t) == work[t].rev = Len(evalHist[work[t].key]) + 1

\* Defect variant of InsertRevision: INSERT OR IGNORE.
InsertRevisionIgnoring(t) ==
    /\ WorkAt(t, "insert") /\ Goes(t, "row")
    /\ IF Numbered(t) THEN Appended(t) ELSE UNCHANGED evalHist
    /\ UNCHANGED evalRow /\ WorldSame /\ GhostsSame

\* INSERT into the history: the revision is part of its key, and the one of a writer that
\* was faster is a conflict, which ends the request or the worker.
InsertRevision(t) ==
    /\ WorkAt(t, "insert")
    /\ \/ Numbered(t) /\ Appended(t) /\ Goes(t, "row")
       \/ ~Numbered(t) /\ Quits(t) /\ UNCHANGED evalHist
    /\ UNCHANGED evalRow /\ WorldSame /\ GhostsSame

\* The new evaluation takes back what was said of the earlier one.
Anew(t) == Job(t).op = "evaluate" /\ Draft(t) = Evaluated(Job(t))

\* INSERT ... ON CONFLICT DO UPDATE of the row.
WriteRow(t) ==
    /\ WorkAt(t, "row") /\ Goes(t, "audit")
    /\ evalRow' = [evalRow EXCEPT ![work[t].key] = Draft(t)]
    /\ acked' = IF Anew(t) THEN [acked EXCEPT ![work[t].key] = Nothing] ELSE acked
    /\ UNCHANGED evalHist /\ WorldSame /\ UNCHANGED <<mixed, jobs, slips>>

\* The audit entries and the event, best effort, and what comes next: the answer, the
\* next run of the worker, or, outside production, the extended validation of the run
\* that was just evaluated.
AfterWrite(t) ==
    LET k == work[t].key
        more == work[t].todo # {}
        extends == Anew(t) /\ ~more /\ ~EventDriven
    IN
    /\ WorkAt(t, "audit")
    /\ \/ more /\ Goes(t, "number")
       \/ extends /\ Goes(t, "list")
       \/ ~more /\ ~extends /\ Quits(t)
    /\ acked' = CASE Job(t).op = "override" -> [acked EXCEPT ![k].mark = Job(t).mark]
                  [] Job(t).op = "failure" -> [acked EXCEPT ![k].cases = @ \cup {Job(t).case}]
                  [] OTHER -> acked
    /\ StoreSame /\ WorldSame /\ UNCHANGED <<mixed, jobs, slips>>

\* A call that writes fails, before or after it took effect: the request is answered with
\* an error, and an evaluation, which only logs it, as if the run were recorded.  A read
\* that fails ends the request where it has no effect, as a refusal does.
Slips(t) ==
    /\ work[t].pc \in {"insert", "row", "audit"}
    /\ slips < MaxSlips /\ slips' = slips + 1 /\ Quits(t)
    /\ \/ StoreSame
       \/ WorkAt(t, "insert") /\ Numbered(t) /\ Appended(t) /\ UNCHANGED evalRow
       \/ WorkAt(t, "row") /\ evalRow' = [evalRow EXCEPT ![work[t].key] = Draft(t)]
                       /\ UNCHANGED evalHist
    /\ mixed' = mixed \cup Writes(Job(t))
    /\ WorldSame /\ UNCHANGED <<acked, jobs>>

-----------------------------------------------------------------------------
\* Live promotion.
Refuses(t) == Quits(t)

\* post_live_promotion_apply: the record is read for its override alone.
CheckApproval(t) ==
    LET row == evalRow[OneOf(t)]
        passes == row # None /\ (governance = "manual_approval" =>
                                   row.mark = "approved" \/ Job(t).force)
    IN
    /\ WorkAt(t, "check")
    /\ \/ ~passes /\ Refuses(t)
       \/ passes /\ work' = [work EXCEPT ![t].pc = "plan", ![t].key = OneOf(t)]
    /\ StoreSame /\ WorldSame /\ GhostsSame

\* post_live_promotion_auto_apply: the freshest paper run, of the list as it is now.
PickSource(t) ==
    LET paper == {k \in EvalKey : evalRow[k] # None /\ evalRow[k].stage = "paper"} IN
    /\ WorkAt(t, "pick")
    /\ \/ paper = {} /\ Refuses(t)
       \/ \E k \in paper : work' = [work EXCEPT ![t].pc = "plan", ![t].key = k]
    /\ StoreSame /\ WorldSame /\ GhostsSame

\* get_live_promotion_plan reads the record again ...
ReadPlan(t) ==
    LET k == work[t].key IN
    /\ WorkAt(t, "plan")
    /\ work' = [work EXCEPT ![t].pc = "current", ![t].draft = evalRow[k]]
    /\ StoreSame /\ WorldSame /\ GhostsSame

\* ... and the decisions; the plan is the difference.
ReadCurrent(t) ==
    LET target == work[t].draft.set IN
    /\ WorkAt(t, "current")
    /\ work' = [work EXCEPT ![t].pc = "judge",
                   ![t].todo = [activate |-> target \ live, deactivate |-> live \ target]]
    /\ StoreSame /\ WorldSame /\ GhostsSame

\* The reasons that block a promotion, of the record the plan was made from.
BlockedBy(t, rec) ==
    \/ rec.stage # "paper" /\ Job(t).op = "promote"
    \/ rec.status \notin {"pass", "warn"} /\ (Job(t).op = "auto" \/ ~Job(t).force)
    \/ cooling
    \/ Cardinality(rec.set) > MaxLiveSlots

\* Defect variant of Blocked: of the record as it is now.
BlockedNow(t) == BlockedBy(t, evalRow[work[t].key])
Blocked(t) == BlockedBy(t, work[t].draft)

\* The risk snapshot may be missing, and the canary may leave an automatic promotion out.
Judges(t) ==
    /\ WorkAt(t, "judge")
    /\ Refuses(t) \/ (~Blocked(t) /\ Goes(t, "apply"))
    /\ StoreSame /\ WorldSame /\ GhostsSame

\* WorldService.apply with the plan, under the lock of the world: see ApplyFlow for its
\* steps.  _apply_plan starts from the decisions it finds; the run may be rolled back.
AppliesPlan(t) ==
    LET plan == work[t].todo
        p == [key |-> work[t].key, set |-> work[t].draft.set, auto |-> Job(t).op = "auto",
              force |-> Job(t).op = "promote" /\ Job(t).force]
    IN
    /\ WorkAt(t, "apply") /\ Quits(t)
    /\ \/ /\ live' = (live \ plan.deactivate) \cup plan.activate
          /\ cooling' = TRUE /\ promoted' = promoted \cup {p}
       \/ UNCHANGED <<live, cooling, promoted>>
    /\ StoreSame /\ GhostsSame /\ UNCHANGED <<governance, tangled>>

CooldownEnds ==
    /\ cooling /\ cooling' = FALSE
    /\ StoreSame /\ GhostsSame /\ UNCHANGED <<work, governance, live, promoted, tangled>>

EvalNext ==
    \/ \E t \in Task :
         \/ Begins(t) \/ LookOverride(t) \/ ReadRun(t) \/ ListRuns(t) \/ NumberRevision(t)
         \/ InsertRevision(t) \/ WriteRow(t) \/ AfterWrite(t) \/ Slips(t)
         \/ CheckApproval(t) \/ PickSource(t) \/ ReadPlan(t) \/ ReadCurrent(t)
         \/ Judges(t) \/ AppliesPlan(t)
    \/ CooldownEnds

EvalSpec == EvalInit /\ [][EvalNext]_evalVars

-----------------------------------------------------------------------------
InHistory(k, Test(_)) == \E i \in DOMAIN evalHist[k] : Test(evalHist[k][i])

EvalTypeOK ==
    /\ \A k \in EvalKey : evalRow[k] # None => evalRow[k].ext <= Len(evalHist[k])
    /\ \A t \in Task : WorkAt(t, "idle") <=> Job(t) = None
    /\ mixed \subseteq EvalKey

\* The row is a revision, and an override or a failure that was answered with success is in
\* one, even where the row has lost it.
HistoryTellsAll ==
    \A k \in EvalKey :
        /\ evalRow[k] # None => InHistory(k, LAMBDA h : h = evalRow[k])
        /\ acked[k].mark # None => InHistory(k, LAMBDA h : h.mark = acked[k].mark)
        /\ \A c \in acked[k].cases : InHistory(k, LAMBDA h : c \in h.cases)

\* A run whose writers came one after the other has its latest revision as row, with the
\* override last answered and every failure since the evaluation.
SerialWritesKept ==
    \A k \in EvalKey \ mixed :
        \/ evalRow[k] = None
        \/ \E t \in Task : work[t].pc \in {"row", "audit"} /\ work[t].key = k
        \/ /\ evalRow[k] = Last(evalHist[k])
           /\ acked[k].mark \in {None, evalRow[k].mark}
           /\ acked[k].cases \subseteq evalRow[k].cases

\* The evaluation store keeps what it has answered for: however the writers of a run
\* overtake each other or fail between the two tables, its history tells everything, and
\* its row too when they came one after the other.
RevisionsKept == EvalTypeOK /\ HistoryTellsAll /\ SerialWritesKept

\* What is promoted is the active set of one revision that had passed (unless forced) and
\* fits the slots, of a run that was of the paper stage and, where approval is manual, was
\* approved, although record, decisions and reasons are read in separate calls; and the
\* world keeps to its slots while promotions do not overlap.
PromotionsGoverned ==
    /\ \A p \in promoted :
         /\ InHistory(p.key, LAMBDA h : /\ h.set = p.set
                                        /\ p.auto \/ h.stage = "paper"
                                        /\ p.force \/ h.status \in {"pass", "warn"})
         /\ InHistory(p.key, LAMBDA h : h.stage = "paper")
         /\ Cardinality(p.set) <= MaxLiveSlots
         /\ governance = "manual_approval" /\ ~p.force =>
              InHistory(p.key, LAMBDA h : h.mark = "approved")
    /\ tangled \/ Cardinality(live) <= MaxLiveSlots
=============================================================================
