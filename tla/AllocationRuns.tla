--------------------------- MODULE AllocationRuns ----------------------------
(***************************************************************************)
(* POST /allocations of WorldService: WorldService.upsert_allocations with  *)
(* the tables allocation_runs and world_allocations behind it.              *)
(*                                                                          *)
(* One process; an action is the code between two awaits, so a call of the  *)
(* database and what follows its answer are one action.  A call that raises *)
(* may have been executed.  Worlds are numbers, in the order of their ids;  *)
(* a payload's content is its etag, which determines its worlds.  The       *)
(* figures of the plan are left out: what it was computed from is kept.     *)
(***************************************************************************)
EXTENDS Naturals, FiniteSets, FiniteSetsExt, Optional

CONSTANTS Caller,       \* concurrent POST requests
          Payloads,     \* what may be posted: [run, etag, worlds, execute]
          MaxAllocations,     \* requests altogether
          MaxMishaps    \* failing calls and crashes

Run == {p.run : p \in Payloads}
World == UNION {p.worlds : p \in Payloads}

\* A row of allocation_runs.
RunRow == [etag : {p.etag : p \in Payloads}, executed : BOOLEAN]

\* An empty world_allocations is refused.
ASSUME AllocationBounds ==
    /\ MaxAllocations \in Nat /\ MaxMishaps \in Nat
    /\ World \subseteq Nat /\ IsFiniteSet(World)
    /\ \A p \in Payloads : p.worlds # {}
    /\ \A p, q \in Payloads : p.etag = q.etag => p.worlds = q.worlds
    /\ None \notin Caller \cup RunRow

VARIABLES runTable,     \* allocation_runs: [etag, executed] of a run
          held,         \* world_allocations: run and etag that set a world's share
          worldLock,    \* _allocation_locks
          calls,        \* where each request is
          executed,     \* how often the executor has carried out a run
          doubtful,     \* runs of which an execution may be repeated, see below
          allocations, mishaps

allocVars == <<runTable, held, worldLock, calls, executed, doubtful, allocations, mishaps>>

NoCall == [pc |-> "idle", want |-> None, todo |-> {}, before |-> None]

AllocInit ==
    /\ runTable = [r \in Run |-> None]
    /\ held = [w \in World |-> None]
    /\ worldLock = [w \in World |-> None]
    /\ calls = [c \in Caller |-> NoCall]
    /\ executed = [r \in Run |-> 0]
    /\ doubtful = {} /\ allocations = 0 /\ mishaps = 0

CallAt(c, pc) == calls[c].pc = pc
Want(c) == calls[c].want
RunOf(c) == Want(c).run
Own(c) == [run |-> RunOf(c), etag |-> Want(c).etag]

Proceeds(c, pc) == calls' = [calls EXCEPT ![c].pc = pc] /\ UNCHANGED worldLock

\* The request is answered, or an exception leaves it: the exit stack gives its locks back.
Leaves(c) ==
    /\ calls' = [calls EXCEPT ![c] = NoCall]
    /\ worldLock' = [w \in World |-> IF worldLock[w] = c THEN None ELSE worldLock[w]]

Smooth == UNCHANGED <<mishaps, doubtful>>
Mishap(runs) == /\ mishaps < MaxMishaps /\ mishaps' = mishaps + 1
                /\ doubtful' = doubtful \cup runs

-----------------------------------------------------------------------------
\* A valid payload; the others are answered with 422 or 501 at once.  A run is in
\* doubt from here on if another request for it is under way.
PostAllocations(c) ==
    /\ CallAt(c, "idle") /\ allocations < MaxAllocations /\ allocations' = allocations + 1
    /\ \E p \in Payloads :
         /\ calls' = [calls EXCEPT ![c] = [NoCall EXCEPT !.pc = "look", !.want = p]]
         /\ doubtful' = doubtful \cup
              (IF \E d \in Caller : ~CallAt(d, "idle") /\ RunOf(d) = p.run THEN {p.run} ELSE {})
    /\ UNCHANGED <<runTable, held, worldLock, executed, mishaps>>

\* Defect variant of FindRun: a known run is executed whenever that is asked for.
FindRunUnread(c) ==
    LET row == runTable[RunOf(c)] IN
    /\ CallAt(c, "look") /\ Smooth
    /\ IF row = None THEN calls' = [calls EXCEPT ![c].pc = "lock", ![c].todo = Want(c).worlds]
                          /\ UNCHANGED worldLock
       ELSE IF row.etag = Want(c).etag /\ Want(c).execute THEN Proceeds(c, "execute")
       ELSE Leaves(c)
    /\ UNCHANGED <<runTable, held, executed, allocations>>

\* get_allocation_run.  A known run is planned already: another payload is a conflict,
\* otherwise it is executed if that is asked for and has not been done.  None of this
\* takes a lock.
FindRun(c) ==
    LET row == runTable[RunOf(c)]
        pending == row # None /\ row.etag = Want(c).etag /\ Want(c).execute /\ ~row.executed
    IN
    /\ CallAt(c, "look")
    /\ \/ /\ row = None /\ Smooth
          /\ calls' = [calls EXCEPT ![c].pc = "lock", ![c].todo = Want(c).worlds]
          /\ UNCHANGED worldLock
       \/ pending /\ Proceeds(c, "execute") /\ Smooth
       \/ row # None /\ ~pending /\ Leaves(c) /\ Smooth
       \/ Leaves(c) /\ Mishap({})
    /\ UNCHANGED <<runTable, held, executed, allocations>>

\* Defect variant of LockWorld: in the order of the payload.
LockWorldUnsorted(c) ==
    /\ CallAt(c, "lock") /\ Smooth
    /\ \E w \in calls[c].todo :
         /\ worldLock[w] = None
         /\ worldLock' = [worldLock EXCEPT ![w] = c]
         /\ calls' = [calls EXCEPT ![c].todo = @ \ {w},
                                   ![c].pc = IF calls[c].todo = {w} THEN "context" ELSE "lock"]
    /\ UNCHANGED <<runTable, held, executed, allocations>>

\* _lock_worlds: one lock per world, in the order of sorted(world_allocations).
LockWorld(c) ==
    /\ CallAt(c, "lock")
    /\ LET w == Min(calls[c].todo) IN
         /\ worldLock[w] = None
         /\ worldLock' = [worldLock EXCEPT ![w] = c]
         /\ calls' = [calls EXCEPT ![c].todo = @ \ {w},
                                   ![c].pc = IF calls[c].todo = {w} THEN "context" ELSE "lock"]
    /\ Smooth /\ UNCHANGED <<runTable, held, executed, allocations>>

\* _build_allocation_context, one SELECT, and the plan made from it; a plan that cannot be
\* made is a 422.
ReadContext(c) ==
    /\ CallAt(c, "context")
    /\ \/ /\ calls' = [calls EXCEPT ![c].pc = "record", ![c].todo = Want(c).worlds,
                                    ![c].before = [w \in Want(c).worlds |-> held[w]]]
          /\ UNCHANGED worldLock /\ Smooth
       \/ Leaves(c) /\ Mishap({})
    /\ UNCHANGED <<runTable, held, executed, allocations>>

\* record_allocation_run: an upsert that also takes an executed flag back.
Recorded(c) == [runTable EXCEPT ![RunOf(c)] = [etag |-> Want(c).etag, executed |-> FALSE]]

RecordRun(c) ==
    /\ CallAt(c, "record")
    /\ \/ runTable' = Recorded(c) /\ Proceeds(c, "store") /\ Smooth
       \/ runTable' \in {runTable, Recorded(c)} /\ Leaves(c) /\ Mishap({})
    /\ UNCHANGED <<held, executed, allocations>>

\* set_world_allocations: world after world, each with its audit record.
StoreWorld(c) ==
    /\ CallAt(c, "store")
    /\ \E w \in calls[c].todo :
         LET stored == [held EXCEPT ![w] = Own(c)] IN
         \/ /\ held' = stored /\ Smooth /\ UNCHANGED worldLock
            /\ calls' = [calls EXCEPT ![c].todo = @ \ {w},
                                      ![c].pc = IF calls[c].todo = {w} THEN "announce" ELSE "store"]
         \/ held' \in {held, stored} /\ Leaves(c) /\ Mishap({})
    /\ UNCHANGED <<runTable, executed, allocations>>

\* record_rebalance_plan may raise; the publication of the plans is best effort and raises
\* nothing.  Then the plan is executed if that is asked for.
AnnouncePlan(c) ==
    /\ CallAt(c, "announce")
    /\ \/ Want(c).execute /\ Proceeds(c, "execute") /\ Smooth
       \/ ~Want(c).execute /\ Leaves(c) /\ Smooth
       \/ Leaves(c) /\ Mishap({})
    /\ UNCHANGED <<runTable, held, executed, allocations>>

\* _execute_rebalance: an executor that raises may have traded.
Execute(c) ==
    LET once == [executed EXCEPT ![RunOf(c)] = @ + 1] IN
    /\ CallAt(c, "execute")
    /\ \/ executed' = once /\ Proceeds(c, "mark") /\ Smooth
       \/ executed' = executed /\ Leaves(c) /\ Mishap({})
       \/ executed' = once /\ Leaves(c) /\ Mishap({RunOf(c)})
    /\ UNCHANGED <<runTable, held, allocations>>

\* mark_allocation_run_executed
MarkExecuted(c) ==
    LET marked == [runTable EXCEPT ![RunOf(c)].executed = TRUE] IN
    /\ CallAt(c, "mark")
    /\ \/ runTable' = marked /\ Leaves(c) /\ Smooth
       \/ runTable' = marked /\ Leaves(c) /\ Mishap({})
       \/ runTable' = runTable /\ Leaves(c) /\ Mishap({RunOf(c)})
    /\ UNCHANGED <<held, executed, allocations>>

\* The process ends: requests and locks are gone, the tables are not.
CrashService ==
    /\ Mishap({RunOf(c) : c \in {d \in Caller : CallAt(d, "mark")}})
    /\ calls' = [c \in Caller |-> NoCall]
    /\ worldLock' = [w \in World |-> None]
    /\ UNCHANGED <<runTable, held, executed, allocations>>

CallStep(c) ==
    \/ FindRun(c) \/ LockWorld(c) \/ ReadContext(c) \/ RecordRun(c) \/ StoreWorld(c)
    \/ AnnouncePlan(c) \/ Execute(c) \/ MarkExecuted(c)

AllocNext ==
    \/ \E c \in Caller : PostAllocations(c) \/ CallStep(c)
    \/ CrashService

AllocSpec == AllocInit /\ [][AllocNext]_allocVars

-----------------------------------------------------------------------------
AllocTypeOK ==
    /\ runTable \in [Run -> RunRow \cup {None}]
    /\ worldLock \in [World -> Caller \cup {None}]
    /\ doubtful \subseteq Run

\* From the reading of the context to the end of a request the worlds it plans for are as
\* it has read them or as it has stored them itself: no other request plans from shares
\* that are about to change, or changes shares that are about to be executed.
PlanIsCurrent ==
    \A c \in Caller : calls[c].before # None =>
        \A w \in Want(c).worlds :
            held[w] = IF w \in calls[c].todo THEN calls[c].before[w] ELSE Own(c)

Waits(c) == CallAt(c, "lock") /\ worldLock[Min(calls[c].todo)] # None
Blocker(c) == worldLock[Min(calls[c].todo)]

\* No set of requests waits for each other's locks.
NoCircularWait ==
    \A C \in (SUBSET Caller) \ {{}} : \E c \in C : ~Waits(c) \/ Blocker(c) \notin C

\* Requests for overlapping sets of worlds follow one another (upsert_allocations): plans
\* are made from shares that stay, and the locks of several worlds block nobody for ever.
AllocationsInTurn == AllocTypeOK /\ PlanIsCurrent /\ NoCircularWait

\* A run is carried out at most once, and marked only then, whatever calls failed on the
\* way, how often it was posted again and whether the first post asked for execution.  In
\* doubt is a run with two requests under way at the same time, and one of which the
\* answer of the executor or the mark was lost.
ExecutedInTurn ==
    \A r \in Run \ doubtful :
        /\ executed[r] <= 1
        /\ runTable[r] # None /\ runTable[r].executed => executed[r] = 1

\* A run is carried out at most once (_handle_existing_allocation_run answers a repeated
\* run_id), whenever its requests arrive.
ExecutedOnce == \A r \in Run : executed[r] <= 1
=============================================================================
