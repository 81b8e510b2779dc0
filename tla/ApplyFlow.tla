------------------------------ MODULE ApplyFlow ------------------------------
(***************************************************************************)
(* The two-phase apply of the WorldService, for one world.                  *)
(*                                                                         *)
(* POST /worlds/{w}/apply takes the world's asyncio.Lock and then runs      *)
(* ApplyCoordinator.apply: read a context, freeze every activation entry,   *)
(* switch the decisions, unfreeze, and on an exception roll back and freeze *)
(* again.  Every await of the coroutine is a point where other coroutines   *)
(* of the service run: PUT /activation and POST /decisions do not take the  *)
(* lock.  The activation document lives in Redis and is updated by a GET    *)
(* followed by a SET, so the two halves are two steps here.                 *)
(*                                                                         *)
(* Worlds do not share state (registry, lock, document and decisions are    *)
(* all keyed by world), so the module is about one of them.                 *)
(***************************************************************************)
EXTENDS Naturals, Sequences, FiniteSets, Optional

CONSTANTS
    Strategy,    \* strategy ids
    Side,        \* sides an activation entry can have, "long" among them
    RunId,       \* run ids clients put into apply requests
    Domain,      \* execution domains an edge override can name
    PreDisable,  \* gating policy: domains disabled before the promotion
    PostEnable,  \* gating policy: domains enabled after it
    PutId,       \* PUT /activation requests
    PostLists,   \* lists of strategies that POST /decisions may carry
    FailAt,      \* values of pc at which an await may raise
    InitialDocs, \* activation documents the service may find in Redis when it starts
    MaxRequests, MaxFails, MaxCrashes, MaxPosts    \* bounds

Key == Strategy \X Side

Stage == {"requested", "freeze", "switch", "unfreeze", "completed", "rolled_back"}

\* Program counter of the coroutine that holds the lock; "idle" is a free lock.
BodyPC == {"pre", "freeze", "switch", "switched", "policy", "unfreeze", "post", "complete"}
UndoPC == {"restore_edges", "restore_act", "restore_dec", "restore_rec", "refreeze"}
PC == {"idle", "context", "requested"} \cup BodyPC \cup UndoPC

\* The phases that walk over activation entries, and the steps for one entry.
EntryPC == {"freeze", "unfreeze", "refreeze"}
EntryStep == {"pick", "store", "publish"}

ASSUME ConstantsAssumption ==
    /\ "long" \in Side
    /\ PreDisable \subseteq Domain
    /\ PostEnable \subseteq Domain
    /\ PostLists \subseteq SUBSET Strategy
    /\ FailAt \subseteq PC
    /\ MaxRequests \in Nat /\ MaxFails \in Nat /\ MaxCrashes \in Nat /\ MaxPosts \in Nat
    /\ None \notin RunId

\* An activation entry.  `frozen' stands for the freeze and drain flags, which
\* this service always sets together and which gate orders alike; `ver' is the
\* document version that the entry's etag ends with.
Entry == [active : BOOLEAN, frozen : BOOLEAN, run : RunId \cup {None}, ver : Nat]

Document == [version : Nat, state : [Key -> Entry \cup {None}]]

VARIABLES
    run,        \* the registry's entry for the world (ApplyRunRegistry._runs)
    pc,         \* where the coroutine holding the lock is
    ctx,        \* its ApplyContext
    todo,       \* entries (or domains) its current loop has still to visit
    cur,        \* the entry it is updating
    step,       \* which part of that update comes next
    loaded,     \* the document it read with GET and has not yet SET
    undo,       \* EdgeOverrideManager._restore
    doc,        \* the activation document in Redis
    decisions,  \* the world's active strategies in the database
    edges,      \* edge overrides in the database
    audit,      \* apply_stage records in the audit log
    bus,        \* events published to the ControlBus topic, in order
    put,        \* PUT /activation coroutines
    reqs, fails, crashes, posts   \* what has been spent of each bound

handler == <<pc, ctx, todo, cur, step, loaded, undo>>
store   == <<doc, decisions, edges, audit>>
bounds  == <<reqs, fails, crashes, posts>>
vars    == <<run, handler, store, bus, put, bounds>>

-----------------------------------------------------------------------------
EdgeState == {"unset", "on", "off"}
RunState == [id : RunId, active : SUBSET Strategy, stage : Stage,
             completed : BOOLEAN, seq : Nat]
Context == [run : RunId, target : SUBSET Strategy, prev : SUBSET Strategy,
            snap : Document]
Phase == {"freeze", "unfreeze", "put", "policy"}
Event == [phase : Phase, key : Key \cup {None}, active : BOOLEAN,
          frozen : BOOLEAN, run : RunId \cup {None}, ver : Nat, seq : Nat]
PutState == [pc : {"new", "store", "publish", "done"}, key : Key \cup {None},
             active : BOOLEAN, frozen : BOOLEAN, ver : Nat,
             loaded : Document \cup {None}]

ASSUME NoneAssumption ==
    /\ None \notin Entry
    /\ None \notin Key
    /\ None \notin Document
    /\ None \notin RunState
    /\ InitialDocs \subseteq Document

Present(d) == {k \in Key : d.state[k] # None}

\* PersistentActivationRepository.update: the document that the SET writes,
\* computed from the one that the GET returned.
Updated(d, k, active, frozen, r) ==
    [version |-> d.version + 1,
     state   |-> [d.state EXCEPT ![k] =
                    [active |-> active, frozen |-> frozen, run |-> r,
                     ver |-> d.version + 1]]]

EmptyDoc == [version |-> 0, state |-> [k \in Key |-> None]]

\* Defect variant of UnfreezeKeys: strategies that are new to the world are forgotten.
UnfreezeKnownOnly(d, target) == Present(d)

\* unfreeze_world: the entries of the snapshot, and a long entry for every
\* target strategy that the snapshot does not mention.
UnfreezeKeys(d, target) ==
    Present(d) \cup
      {<<s, "long">> : s \in {t \in target : \A k \in Present(d) : k[1] # t}}

-----------------------------------------------------------------------------
Init ==
    /\ run = None
    /\ pc = "idle" /\ ctx = None /\ todo = {} /\ cur = None
    /\ step = "pick" /\ loaded = None
    /\ undo = [d \in Domain |-> None]
    /\ doc \in InitialDocs
    /\ decisions = {}
    /\ edges \in [Domain -> {"unset", "off"}]
    /\ audit = <<>>
    /\ bus = <<>>
    /\ put = [p \in PutId |-> [pc |-> "new", key |-> None, active |-> FALSE,
                               frozen |-> FALSE, ver |-> 0, loaded |-> None]]
    /\ reqs = 0 /\ fails = 0 /\ crashes = 0 /\ posts = 0

\* Effects on the audit log and the bus.
Record(stage) == audit' = Append(audit, [run |-> ctx.run, stage |-> stage])

Publish(e) == bus' = Append(bus, e)

Mark(stage) == run' = [run EXCEPT !.stage = stage]

\* Control moves on, nothing else of the coroutine's frame changes.
Goto(l) == pc' = l /\ UNCHANGED <<ctx, cur, step, loaded, undo>>
-----------------------------------------------------------------------------
(***************************************************************************)
(* The request, under the lock.                                             *)
(***************************************************************************)

\* A new request spends one unit of the request bound.
Arrives == pc = "idle" /\ reqs < MaxRequests /\ reqs' = reqs + 1

\* _ack_for_existing: the registry's run has the request's run id.
AckExisting(r) ==
    /\ Arrives
    /\ run # None /\ run.id = r
    /\ UNCHANGED <<run, handler, store, bus, put, fails, crashes, posts>>

\* _ack_for_existing: another run is neither completed nor rolled back (409).
Conflict(r) ==
    /\ Arrives
    /\ run # None /\ run.id # r /\ ~run.completed /\ run.stage # "rolled_back"
    /\ UNCHANGED <<run, handler, store, bus, put, fails, crashes, posts>>

\* Otherwise the request goes on; a rolled back run is dropped from the registry.
Begin(r) ==
    /\ Arrives
    /\ \/ run = None /\ UNCHANGED run
       \/ run # None /\ run.id # r /\ run.completed /\ UNCHANGED run
       \/ run # None /\ run.id # r /\ ~run.completed
          /\ run.stage = "rolled_back" /\ run' = None
    /\ pc' = "context"
    /\ ctx' = [run |-> r, target |-> {}, prev |-> {}, snap |-> EmptyDoc]
    /\ UNCHANGED <<todo, cur, step, loaded, undo, store, bus, put, fails, crashes, posts>>

\* _build_context and ApplyRunRegistry.start.  The target comes from the
\* evaluator or from the plan of the request.
BuildContext(target) ==
    /\ pc = "context"
    /\ pc' = "requested"
    /\ ctx' = [ctx EXCEPT !.target = target, !.prev = decisions, !.snap = doc]
    /\ run' = [id |-> ctx.run, active |-> target, stage |-> "requested",
               completed |-> FALSE, seq |-> 0]
    /\ UNCHANGED <<todo, cur, step, loaded, undo, store, bus, put, bounds>>

\* _record_requested, then a fresh EdgeOverrideManager.
RecordRequested ==
    /\ pc = "requested"
    /\ Record("requested")
    /\ pc' = "pre"
    /\ todo' = PreDisable
    /\ undo' = [d \in Domain |-> None]
    /\ UNCHANGED <<run, ctx, cur, step, loaded, doc, decisions, edges, bus, put, bounds>>

-----------------------------------------------------------------------------
(***************************************************************************)
(* Edge overrides around the promotion (EdgeOverrideManager).               *)
(***************************************************************************)

\* _set_edge_override: remember the first previous value, then upsert.
SetEdge(d) ==
    /\ pc \in {"pre", "post"}
    /\ d \in todo
    /\ todo' = todo \ {d}
    /\ undo' = [undo EXCEPT ![d] = IF undo[d] = None THEN edges[d] ELSE undo[d]]
    /\ edges' = [edges EXCEPT ![d] = IF pc = "pre" THEN "off" ELSE "on"]
    /\ UNCHANGED <<run, pc, ctx, cur, step, loaded, doc, decisions, audit, bus, put, bounds>>

\* EdgeOverrideManager.restore: "unset" deletes the override.
RestoreEdge(d) ==
    /\ pc = "restore_edges"
    /\ d \in todo
    /\ todo' = todo \ {d}
    /\ edges' = [edges EXCEPT ![d] = undo[d]]
    /\ UNCHANGED <<run, pc, ctx, cur, step, loaded, undo, doc, decisions, audit, bus, put, bounds>>

-----------------------------------------------------------------------------
(***************************************************************************)
(* The loops over activation entries: freeze_world and unfreeze_world call   *)
(* update_activation_state once per entry.                                   *)
(***************************************************************************)

EntryValue ==
    [active |-> pc = "unfreeze" /\ cur[1] \in ctx.target,
     frozen |-> pc # "unfreeze"]

\* Defect variant of PickEntry: each phase numbers its entries from one again.
PickEntryRestart(k) ==
    /\ pc \in EntryPC /\ step = "pick"
    /\ k \in todo
    /\ cur' = k
    /\ run' = [run EXCEPT !.seq = Cardinality({x \in Present(ctx.snap) : x \notin todo}) + 1]
    /\ loaded' = doc
    /\ step' = "store"
    /\ UNCHANGED <<pc, ctx, todo, undo, store, bus, put, bounds>>

\* next_sequence, then the GET of ActivationRepository.update.
PickEntry(k) ==
    /\ pc \in EntryPC /\ step = "pick"
    /\ k \in todo
    /\ cur' = k
    /\ run' = [run EXCEPT !.seq = run.seq + 1]
    /\ loaded' = doc
    /\ step' = "store"
    /\ UNCHANGED <<pc, ctx, todo, undo, store, bus, put, bounds>>

\* The SET of ActivationRepository.update.
StoreEntry ==
    /\ pc \in EntryPC /\ step = "store"
    /\ doc' = Updated(loaded, cur, EntryValue.active, EntryValue.frozen, ctx.run)
    /\ step' = "publish"
    /\ UNCHANGED <<run, pc, ctx, todo, cur, loaded, undo, decisions, edges, audit, bus, put, bounds>>

\* publish_activation_update with requires_ack; the payload is the entry just
\* written, not what the document holds by now.
PublishEntry ==
    /\ pc \in EntryPC /\ step = "publish"
    /\ Publish([phase |-> IF pc = "unfreeze" THEN "unfreeze" ELSE "freeze",
                key |-> cur, active |-> EntryValue.active,
                frozen |-> EntryValue.frozen, run |-> ctx.run,
                ver |-> loaded.version + 1, seq |-> run.seq])
    /\ todo' = todo \ {cur}
    /\ cur' = None /\ loaded' = None /\ step' = "pick"
    /\ UNCHANGED <<run, pc, ctx, undo, store, put, bounds>>

LoopDone == todo = {} /\ step = "pick"

-----------------------------------------------------------------------------
(***************************************************************************)
(* The stages of apply.                                                     *)
(***************************************************************************)

\* Defect variant of EnterFreeze: only active entries are frozen.
EnterFreezeActiveOnly ==
    /\ pc = "pre" /\ LoopDone
    /\ Mark("freeze")
    /\ Goto("freeze")
    /\ todo' = {k \in Present(ctx.snap) : ctx.snap.state[k].active}
    /\ UNCHANGED <<store, bus, put, bounds>>

\* The mark at the head of _enter_freeze; freeze_world walks over the snapshot.
EnterFreeze ==
    /\ pc = "pre" /\ LoopDone
    /\ Mark("freeze")
    /\ Goto("freeze")
    /\ todo' = Present(ctx.snap)
    /\ UNCHANGED <<store, bus, put, bounds>>

FreezeDone ==
    /\ pc = "freeze" /\ LoopDone
    /\ Record("freeze")
    /\ Goto("switch")
    /\ UNCHANGED <<run, todo, doc, decisions, edges, bus, put, bounds>>

SwitchDecisions ==
    /\ pc = "switch"
    /\ decisions' = ctx.target
    /\ Goto("switched")
    /\ UNCHANGED <<run, todo, doc, edges, audit, bus, put, bounds>>

RecordSwitch ==
    /\ pc = "switched"
    /\ Mark("switch")
    /\ Record("switch")
    /\ Goto("policy")
    /\ UNCHANGED <<todo, doc, decisions, edges, bus, put, bounds>>

\* _notify_policy_update, then the mark at the head of _exit_freeze.
NotifyPolicyUpdate ==
    /\ pc = "policy"
    /\ Publish([phase |-> "policy", key |-> None, active |-> FALSE,
                frozen |-> FALSE, run |-> None, ver |-> 0, seq |-> 0])
    /\ Mark("unfreeze")
    /\ Goto("unfreeze")
    /\ todo' = UnfreezeKeys(ctx.snap, ctx.target)
    /\ UNCHANGED <<store, put, bounds>>

UnfreezeDone ==
    /\ pc = "unfreeze" /\ LoopDone
    /\ Record("unfreeze")
    /\ Goto("post")
    /\ todo' = PostEnable
    /\ UNCHANGED <<run, doc, decisions, edges, bus, put, bounds>>

MarkCompleted ==
    /\ pc = "post" /\ LoopDone
    /\ run' = [run EXCEPT !.stage = "completed", !.completed = TRUE]
    /\ Goto("complete")
    /\ UNCHANGED <<todo, store, bus, put, bounds>>

RecordCompleted ==
    /\ pc = "complete"
    /\ Record("completed")
    /\ Goto("idle")
    /\ UNCHANGED <<run, todo, doc, decisions, edges, bus, put, bounds>>

-----------------------------------------------------------------------------
(***************************************************************************)
(* Failure of an await.  Inside the try block the edge overrides are         *)
(* restored and _handle_failure runs; before it, or while it runs, the       *)
(* exception leaves apply and releases the lock.                             *)
(***************************************************************************)

FailsNow == pc \in FailAt /\ fails < MaxFails /\ fails' = fails + 1

\* Defect variant of BodyFails: the cursor of the interrupted loop stays set.
BodyFailsMidEntry ==
    /\ FailsNow
    /\ pc \in BodyPC
    /\ pc' = "restore_edges"
    /\ todo' = {d \in Domain : undo[d] # None}
    /\ UNCHANGED <<run, ctx, cur, step, loaded, undo, store, bus, put, reqs, crashes, posts>>

BodyFails ==
    /\ FailsNow
    /\ pc \in BodyPC
    /\ pc' = "restore_edges"
    /\ todo' = {d \in Domain : undo[d] # None}
    /\ cur' = None /\ loaded' = None /\ step' = "pick"
    /\ UNCHANGED <<run, ctx, undo, store, bus, put, reqs, crashes, posts>>

Escapes ==
    /\ FailsNow
    /\ pc \in {"context", "requested"} \cup UndoPC
    /\ pc' = "idle"
    /\ todo' = {} /\ cur' = None /\ loaded' = None /\ step' = "pick"
    /\ UNCHANGED <<run, ctx, undo, store, bus, put, reqs, crashes, posts>>

EdgesRestored ==
    /\ pc = "restore_edges" /\ LoopDone
    /\ Goto("restore_act")
    /\ UNCHANGED <<run, todo, store, bus, put, bounds>>

RestoreActivation ==
    /\ pc = "restore_act"
    /\ doc' = ctx.snap
    /\ Goto("restore_dec")
    /\ UNCHANGED <<run, todo, decisions, edges, audit, bus, put, bounds>>

RestoreDecisions ==
    /\ pc = "restore_dec"
    /\ decisions' = ctx.prev
    /\ Goto("restore_rec")
    /\ UNCHANGED <<run, todo, doc, edges, audit, bus, put, bounds>>

\* Defect variant of RecordRolledBack: the restored entries stay as they were.
RecordRolledBackThawed ==
    /\ pc = "restore_rec"
    /\ Record("rolled_back")
    /\ Goto("refreeze")
    /\ todo' = {}
    /\ UNCHANGED <<run, doc, decisions, edges, bus, put, bounds>>

\* record_apply_stage(ROLLED_BACK), then the snapshot that is frozen again.
RecordRolledBack ==
    /\ pc = "restore_rec"
    /\ Record("rolled_back")
    /\ Goto("refreeze")
    /\ todo' = Present(doc)
    /\ UNCHANGED <<run, doc, decisions, edges, bus, put, bounds>>

\* Defect variant of RollbackDone: the run is left in the stage it failed in.
RollbackUnmarked ==
    /\ pc = "refreeze" /\ LoopDone
    /\ Goto("idle")
    /\ UNCHANGED <<run, todo, store, bus, put, bounds>>

RollbackDone ==
    /\ pc = "refreeze" /\ LoopDone
    /\ run' = [run EXCEPT !.stage = "rolled_back", !.completed = FALSE,
                          !.active = ctx.prev]
    /\ Goto("idle")
    /\ UNCHANGED <<todo, store, bus, put, bounds>>

-----------------------------------------------------------------------------
(***************************************************************************)
(* Coroutines that do not take the lock, and the loss of the process.        *)
(***************************************************************************)

\* PUT /activation: the GET of the update.
PutLoad(p, k, active, frozen) ==
    /\ put[p].pc = "new"
    /\ put' = [put EXCEPT ![p] = [pc |-> "store", key |-> k, active |-> active,
                                  frozen |-> frozen, ver |-> 0, loaded |-> doc]]
    /\ UNCHANGED <<run, handler, store, bus, bounds>>

\* PUT /activation: the SET of the update.
PutStore(p) ==
    /\ put[p].pc = "store"
    /\ doc' = Updated(put[p].loaded, put[p].key, put[p].active, put[p].frozen, None)
    /\ put' = [put EXCEPT ![p].pc = "publish", ![p].ver = put[p].loaded.version + 1,
                          ![p].loaded = None]
    /\ UNCHANGED <<run, handler, decisions, edges, audit, bus, bounds>>

\* PUT /activation: the event, without sequence or acknowledgement.
PutPublish(p) ==
    /\ put[p].pc = "publish"
    /\ Publish([phase |-> "put", key |-> put[p].key, active |-> put[p].active,
                frozen |-> put[p].frozen, run |-> None, ver |-> put[p].ver, seq |-> 0])
    /\ put' = [put EXCEPT ![p].pc = "done"]
    /\ UNCHANGED <<run, handler, store, bounds>>

\* POST /decisions replaces the list.
PostDecisions(s) ==
    /\ posts < MaxPosts /\ posts' = posts + 1
    /\ decisions' = s
    /\ UNCHANGED <<run, handler, doc, edges, audit, bus, put, reqs, fails, crashes>>

\* The process dies: the registry and every coroutine are lost, the stores and
\* the bus stay.
Crash ==
    /\ crashes < MaxCrashes /\ crashes' = crashes + 1
    /\ run' = None
    /\ pc' = "idle" /\ ctx' = None /\ todo' = {} /\ cur' = None
    /\ step' = "pick" /\ loaded' = None
    /\ undo' = [d \in Domain |-> None]
    /\ put' = [p \in PutId |-> IF put[p].pc = "new" THEN put[p]
                               ELSE [put[p] EXCEPT !.pc = "done", !.loaded = None]]
    /\ UNCHANGED <<store, bus, reqs, fails, posts>>

-----------------------------------------------------------------------------
Request == \E r \in RunId : AckExisting(r) \/ Conflict(r) \/ Begin(r)

\* Steps of the coroutine that holds the lock when nothing fails.
Handler ==
    \/ \E target \in SUBSET Strategy : BuildContext(target)
    \/ RecordRequested
    \/ \E d \in Domain : SetEdge(d) \/ RestoreEdge(d)
    \/ \E k \in Key : PickEntry(k)
    \/ StoreEntry \/ PublishEntry
    \/ EnterFreeze \/ FreezeDone \/ SwitchDecisions \/ RecordSwitch
    \/ NotifyPolicyUpdate \/ UnfreezeDone \/ MarkCompleted \/ RecordCompleted
    \/ EdgesRestored \/ RestoreActivation \/ RestoreDecisions
    \/ RecordRolledBack \/ RollbackDone

Puts(p) ==
    \/ \E k \in Key, active, frozen \in BOOLEAN : PutLoad(p, k, active, frozen)
    \/ PutStore(p)
    \/ PutPublish(p)

Next ==
    \/ Request
    \/ Handler
    \/ BodyFails \/ Escapes
    \/ \E p \in PutId : Puts(p)
    \/ \E s \in PostLists : PostDecisions(s)
    \/ Crash

Spec == Init /\ [][Next]_vars

\* asyncio runs a coroutine whose await has completed; requests, failures and
\* crashes may never come.
FairSpec == Spec /\ WF_vars(Handler)

-----------------------------------------------------------------------------
(***************************************************************************)
(* Properties.                                                              *)
(***************************************************************************)

\* The run and its context exist while a coroutine works on them.
RunTypeOK ==
    /\ run \in RunState \cup {None}
    /\ pc \in PC
    /\ ctx \in Context \cup {None}
    /\ pc # "idle" => ctx \in Context
    /\ pc \notin {"idle", "context"} => run \in RunState

\* The cursor is set exactly between the halves of one entry's update.
FrameTypeOK ==
    /\ todo \in SUBSET Key \/ todo \in SUBSET Domain
    /\ cur \in Key \cup {None}
    /\ step \in EntryStep
    /\ loaded \in Document \cup {None}
    /\ undo \in [Domain -> EdgeState \cup {None}]
    /\ pc \in EntryPC => todo \in SUBSET Key
    /\ pc \in {"pre", "post", "restore_edges"} => todo \in SUBSET Domain
    /\ pc = "restore_edges" => \A d \in todo : undo[d] # None
    /\ step = "pick" <=> cur = None
    /\ step # "pick" => pc \in EntryPC /\ cur \in todo /\ loaded \in Document

StoreTypeOK ==
    /\ doc \in Document
    /\ decisions \in SUBSET Strategy
    /\ edges \in [Domain -> EdgeState]
    /\ audit \in Seq([run : RunId, stage : Stage])
    /\ bus \in Seq(Event)

PutTypeOK ==
    /\ put \in [PutId -> PutState]
    /\ \A p \in PutId : put[p].pc = "store" => put[p].key \in Key /\ put[p].loaded \in Document

BoundsTypeOK ==
    /\ reqs \in 0..MaxRequests /\ fails \in 0..MaxFails
    /\ crashes \in 0..MaxCrashes /\ posts \in 0..MaxPosts

\* Every variable has its type, and the parts of the coroutine's frame that are
\* used together are set together.
TypeOK == RunTypeOK /\ FrameTypeOK /\ StoreTypeOK /\ PutTypeOK /\ BoundsTypeOK

Gated(e) == e.frozen /\ ~e.active

\* While the decisions are switched no activation entry lets orders through:
\* _enter_freeze has gated every entry and nothing reopens one before
\* _exit_freeze.  Holds as long as PUT /activation is not used meanwhile.
GatedWhileSwitching ==
    pc \in {"switch", "switched", "policy"} =>
        \A k \in Present(doc) : Gated(doc.state[k])

Settled == run = None \/ run.completed \/ run.stage = "rolled_back"

\* A run that the registry shows as completed has taken effect as a whole: the
\* decisions are its target, every entry is unfrozen and active exactly when its
\* strategy is in the target, every target strategy has an active entry, and the
\* post-promotion edges are on.
CompletedIsApplied ==
    pc = "idle" /\ run # None /\ run.completed =>
        /\ decisions = run.active
        /\ \A k \in Present(doc) : ~doc.state[k].frozen
                                  /\ doc.state[k].active = (k[1] \in run.active)
        /\ \A s \in run.active : \E k \in Present(doc) : k[1] = s
        /\ \A d \in Domain : /\ d \in PostEnable => edges[d] = "on"
                             /\ d \in PreDisable \ PostEnable => edges[d] = "off"

\* A run that _handle_failure has rolled back leaves the world as it found it but
\* for the gates: previous decisions, previous edge overrides, and every entry
\* frozen ("roll back to the previous Activation snapshot and remain frozen").
RolledBackIsFrozen ==
    pc = "idle" /\ run # None /\ run.stage = "rolled_back" =>
        /\ decisions = ctx.prev /\ run.active = ctx.prev
        /\ Present(doc) = Present(ctx.snap)
        /\ \A k \in Present(doc) : Gated(doc.state[k])
        /\ \A d \in Domain : undo[d] # None => edges[d] = undo[d]

\* A run whose first audit record could not be written: the error escapes ahead of the
\* try block of apply.
Abandoned == run # None /\ run.stage = "requested"

\* When the world's lock is free the last run is over: completed or rolled back.  The
\* one that is not, and that _ack_for_existing answers every other request with a 409
\* for, was abandoned ahead of the try block and has not touched the world.
SettledWhenIdle ==
    pc = "idle" => \/ Settled
                   \/ Abandoned /\ decisions = ctx.prev /\ doc = ctx.snap

\* Whoever reads an unfreeze event from the bus finds the switch of that run in
\* the audit log: publication in unfreeze_world comes after _switch_decisions.
UnfreezeFollowsSwitch ==
    \A i \in DOMAIN bus : bus[i].phase = "unfreeze" =>
        \E j \in DOMAIN audit : audit[j] = [run |-> bus[i].run, stage |-> "switch"]

StageOrder ==
    {<<"requested", "freeze">>, <<"freeze", "switch">>, <<"switch", "unfreeze">>,
     <<"unfreeze", "completed">>}
    \cup ({"requested", "freeze", "switch", "unfreeze"} \X {"rolled_back"})

\* The audit log is a concatenation of run timelines "requested -> freeze ->
\* switch -> unfreeze -> completed/rolled_back", perhaps cut short, and the
\* records of two runs never interleave (single flight per world).
AuditTimeline ==
    \A i \in DOMAIN audit : audit[i].stage # "requested" =>
        /\ i > 1
        /\ audit[i - 1].run = audit[i].run
        /\ <<audit[i - 1].stage, audit[i].stage>> \in StageOrder

\* Events that ask for an acknowledgement carry a sequence that grows with every
\* event of a run, as the Gateway's per-run resequencer takes for granted.
SequencePerRun ==
    \A i, j \in DOMAIN bus :
        i < j /\ bus[i].seq > 0 /\ bus[j].seq > 0 /\ bus[i].run = bus[j].run
            => bus[i].seq < bus[j].seq

\* No run id has been started twice, which the registry prevents only while it
\* remembers the run: it forgets it when another run starts, and in a crash.
StartedOnce ==
    \A i, j \in DOMAIN audit :
        audit[i].stage = "requested" /\ audit[i] = audit[j] => i = j

\* Apply is "idempotent with run_id": a run that has completed starts again only after
\* another run has started, or after a crash.
CompletedIsRemembered ==
    crashes = 0 => \A i, j \in DOMAIN audit :
        /\ i < j
        /\ audit[i].stage = "completed"
        /\ audit[j] = [run |-> audit[i].run, stage |-> "requested"]
        => \E k \in i..j : audit[k].stage = "requested" /\ audit[k].run # audit[i].run

\* What is recorded and published of runs that compete for a world tells them apart:
\* neither the records of the audit log nor, while no run id is started twice, the numbers
\* of the events mix, an event that unfreezes belongs to a run that has switched, and a
\* completed run that is requested again does not take effect again.
RunsKeptApart ==
    /\ AuditTimeline /\ UnfreezeFollowsSwitch
    /\ CompletedIsRemembered
    /\ StartedOnce => SequencePerRun

\* An apply that took the lock gives it back with its run completed or rolled back, or
\* abandoned ahead of the try block: no await order leaves the handler stuck in a phase.
EveryRunSettles == pc # "idle" ~> (pc = "idle" /\ (Settled \/ Abandoned))

=============================================================================
