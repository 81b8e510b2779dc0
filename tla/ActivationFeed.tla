--------------------------- MODULE ActivationFeed ---------------------------
(***************************************************************************)
(* How the activation of a strategy reaches its order gate.                   *)
(*                                                                         *)
(* WorldService keeps the document.  A change is published on the ControlBus  *)
(* and relayed to the WebSocket of the strategy's SDK process; GET /activation *)
(* goes through the Gateway's WorldServiceClient with its cache and circuit   *)
(* breaker.  The SDK's ActivationManager polls that route, receives the       *)
(* snapshot a new WebSocket starts with and the relayed events, and lets      *)
(* orders through or not.                                                     *)
(*                                                                         *)
(* freeze stands for freeze and drain, which every line treats alike.         *)
(***************************************************************************)
EXTENDS Naturals, Sequences, FiniteSets, Optional

CONSTANTS
    Strategy, Own,      \* the strategies of the world, and the one of this process
    Scripts,            \* what WorldService may write, in order: <<strategy, side, entry>>
    MaxFailures,        \* failures that open the breaker
    MaxOutages, MaxDisconnects, MaxDenials      \* bounds

Sides == <<"long", "short">>
Side  == {"long", "short"}
Entry == [active : BOOLEAN, freeze : BOOLEAN]

ASSUME FeedConstants ==
    /\ Own \in Strategy
    /\ Scripts \subseteq Seq(Strategy \X Side \X Entry)
    /\ MaxFailures \in Nat \ {0}
    /\ MaxOutages \in Nat /\ MaxDisconnects \in Nat /\ MaxDenials \in Nat

\* Who calls WorldServiceClient.get_activation: GET /activation, polled by the SDK,
\* and the snapshot of a new WebSocket.
Caller == {"poll", "snap"}

VARIABLES
    script,     \* what WorldService has still to write
    doc,        \* the activation document: version and entries
    bus,        \* events on their way to the Gateway's hub
    cache,      \* ActivationCache of the Gateway, for the strategy of this process
    breaker,    \* failures in a row, and whether the circuit is open
    call,       \* the calls in progress: get_activation per caller
    socket,     \* whether the WebSocket is up, and the messages in it
    mgr,        \* ActivationManager: where start() is, and its state
    used        \* how much of each bound has been used

feedVars == <<script, doc, bus, cache, breaker, call, socket, mgr, used>>

\* todo: the sides still to be asked for.  pc: between two sides, waiting for
\* WorldService, or with its answer on the way.  cached: the cache entry that was
\* read before the request.  answer: an entry, or None for 404.
CallState ==
    [todo : {<<>>, <<"short">>, Sides}, pc : {"idle", "sent", "answered"},
     cached : Entry \cup {None}, answer : Entry \cup {None}]

NoCall == [todo |-> <<>>, pc |-> "idle", cached |-> None, answer |-> None]
NewCall   == [NoCall EXCEPT !.todo = Sides]

FeedBounds ==
    [outages |-> MaxOutages, disconnects |-> MaxDisconnects, denials |-> MaxDenials]

UseFeed(b) == used[b] < FeedBounds[b] /\ used' = [used EXCEPT ![b] = @ + 1]

-----------------------------------------------------------------------------
FeedInit ==
    /\ script \in Scripts
    /\ doc = [ver |-> 0, entry |-> [s \in Strategy |-> [x \in Side |-> None]]]
    /\ bus = <<>>
    /\ cache = [x \in Side |-> None]
    /\ breaker = [failures |-> 0, open |-> FALSE]
    /\ call = [k \in Caller |-> NoCall]
    /\ socket = [up |-> FALSE, msgs |-> <<>>]
    /\ mgr = [pc |-> "new", stale |-> TRUE,
              view |-> [x \in Side |-> [active |-> FALSE, freeze |-> FALSE]]]
    /\ used = [b \in DOMAIN FeedBounds |-> 0]

(* WorldService *)

\* ActivationRepository.update, and the publication with the document's version.
WriteEntry ==
    /\ script # <<>>
    /\ script' = Tail(script)
    /\ LET s == Head(script)[1]
           x == Head(script)[2]
           e == Head(script)[3]
       IN /\ doc' = [ver |-> doc.ver + 1, entry |-> [doc.entry EXCEPT ![s][x] = e]]
          /\ bus' = Append(bus, [ver |-> doc.ver + 1, side |-> x, entry |-> e])
    /\ UNCHANGED <<cache, breaker, call, socket, mgr, used>>

\* The Gateway relays an event of version 1 to the sockets of the world, whatever
\* its strategy; _dispatch_generic_message drops every other version.
RelayEvent ==
    /\ bus # <<>>
    /\ bus' = Tail(bus)
    /\ socket' = IF socket.up /\ Head(bus).ver = 1
                 THEN [socket EXCEPT !.msgs =
                         Append(@, [side |-> Head(bus).side, entry |-> Head(bus).entry])]
                 ELSE socket
    /\ UNCHANGED <<script, doc, cache, breaker, call, mgr, used>>

-----------------------------------------------------------------------------
(* ActivationManager *)

\* _apply_activation_update: the flags of the side are taken over as they come,
\* without a look at etag, version or strategy.
Applied(x, e) == [mgr EXCEPT !.view[x] = e, !.stale = FALSE]

\* allow_side: closed while stale, while any side is frozen, and unless active.
Allowed(x) ==
    /\ ~mgr.stale
    /\ \A y \in Side : ~mgr.view[y].freeze
    /\ mgr.view[x].active

\* start: the activation is reconciled first ...
StartManager ==
    /\ mgr.pc = "new"
    /\ mgr' = [mgr EXCEPT !.pc = "reconcile"]
    /\ call' = [call EXCEPT !["poll"] = NewCall]
    /\ UNCHANGED <<script, doc, bus, cache, breaker, socket, used>>

\* ... then POST /events/subscribe.  Without a descriptor nothing more is started.
SubscribeEvents ==
    /\ mgr.pc = "reconcile"
    /\ call["poll"].todo = <<>>
    /\ \/ mgr' = [mgr EXCEPT !.pc = "running"] /\ UNCHANGED used
       \/ mgr' = [mgr EXCEPT !.pc = "denied"] /\ UseFeed("denials")
    /\ UNCHANGED <<script, doc, bus, cache, breaker, call, socket>>

\* Defect variant of PollActivation: the loop ends once an activation is known.
PollOnce ==
    /\ mgr.pc = "running" /\ mgr.stale
    /\ call["poll"].todo = <<>>
    /\ call' = [call EXCEPT !["poll"] = NewCall]
    /\ UNCHANGED <<script, doc, bus, cache, breaker, socket, mgr, used>>

\* _poll_loop begins another _reconcile_activation.
PollActivation ==
    /\ mgr.pc = "running"
    /\ call["poll"].todo = <<>>
    /\ call' = [call EXCEPT !["poll"] = NewCall]
    /\ UNCHANGED <<script, doc, bus, cache, breaker, socket, mgr, used>>

\* WebSocketClient._listen connects; ws_evt_endpoint registers the socket with the
\* hub and begins its snapshot.
ConnectSocket ==
    /\ mgr.pc = "running"
    /\ ~socket.up
    /\ socket' = [up |-> TRUE, msgs |-> <<>>]
    /\ call' = [call EXCEPT !["snap"] = NewCall]
    /\ UNCHANGED <<script, doc, bus, cache, breaker, mgr, used>>

\* The connection is lost with what was in it.
LoseSocket ==
    /\ socket.up
    /\ UseFeed("disconnects")
    /\ socket' = [up |-> FALSE, msgs |-> <<>>]
    /\ call' = [call EXCEPT !["snap"] = NoCall]
    /\ UNCHANGED <<script, doc, bus, cache, breaker, mgr>>

\* A message of the socket is handled.
ReceiveUpdate ==
    /\ socket.msgs # <<>>
    /\ mgr' = Applied(Head(socket.msgs).side, Head(socket.msgs).entry)
    /\ socket' = [socket EXCEPT !.msgs = Tail(@)]
    /\ UNCHANGED <<script, doc, bus, cache, breaker, call, used>>

-----------------------------------------------------------------------------
(* WorldServiceClient.get_activation *)

CallAt(k, pc) == call[k].pc = pc

\* The call of k for its next side is over.
NextSide(k) == [NoCall EXCEPT !.todo = Tail(call[k].todo)]

\* A 200 for k with entry e: GET /activation answers the SDK, the snapshot goes
\* into the socket.
AnswerCall(k, x, e) ==
    /\ call' = [call EXCEPT ![k] = NextSide(k)]
    /\ IF k = "poll"
       THEN mgr' = Applied(x, e) /\ UNCHANGED socket
       ELSE /\ socket' = [socket EXCEPT !.msgs = Append(@, [side |-> x, entry |-> e])]
            /\ UNCHANGED mgr

\* An error for k: the SDK goes on with the next side, a snapshot ends.
RefuseCall(k) ==
    /\ call' = [call EXCEPT ![k] = IF k = "poll" THEN NextSide(k) ELSE NoCall]
    /\ UNCHANGED <<socket, mgr>>

\* _build_stale_activation_failsafe.
Failsafe(e) == [e EXCEPT !.active = FALSE]

\* What k gets when WorldService does not answer: the cached entry made inactive.
FallBack(k, x, e) ==
    IF e # None THEN AnswerCall(k, x, Failsafe(e)) ELSE RefuseCall(k)

\* The request is made, or refused by the breaker.
AskActivation(k) ==
    /\ CallAt(k, "idle") /\ call[k].todo # <<>>
    /\ LET x == Head(call[k].todo) IN
       IF breaker.open
       THEN FallBack(k, x, cache[x])
       ELSE /\ call' = [call EXCEPT ![k] = [call[k] EXCEPT !.pc = "sent", !.cached = cache[x]]]
            /\ UNCHANGED <<socket, mgr>>
    /\ UNCHANGED <<script, doc, bus, cache, breaker, used>>

\* WorldService reads its document.
ServeActivation(k) ==
    /\ CallAt(k, "sent")
    /\ call' = [call EXCEPT ![k] =
         [call[k] EXCEPT !.pc = "answered", !.answer = doc.entry[Own][Head(call[k].todo)]]]
    /\ UNCHANGED <<script, doc, bus, cache, breaker, socket, mgr, used>>

BreakerReset == [failures |-> 0, open |-> FALSE]

\* The answer arrives: the breaker is reset, the cache set.
ReturnActivation(k) ==
    /\ CallAt(k, "answered")
    /\ LET x == Head(call[k].todo)
           e == call[k].answer
       IN IF e = None
          THEN RefuseCall(k) /\ UNCHANGED cache
          ELSE AnswerCall(k, x, e) /\ cache' = [cache EXCEPT ![x] = e]
    /\ breaker' = BreakerReset
    /\ UNCHANGED <<script, doc, bus, used>>

\* Every attempt has failed: one failure for the breaker.
LoseRequest(k) ==
    /\ CallAt(k, "sent") /\ UseFeed("outages")
    /\ breaker' = [failures |-> breaker.failures + 1,
                   open |-> breaker.open \/ breaker.failures + 1 >= MaxFailures]
    /\ FallBack(k, Head(call[k].todo), call[k].cached)
    /\ UNCHANGED <<script, doc, bus, cache>>

\* WorldService answers 5xx, 408 or 429: no failure for the breaker.
AnswerUnwell(k) ==
    /\ CallAt(k, "sent") /\ UseFeed("outages")
    /\ breaker' = BreakerReset
    /\ FallBack(k, Head(call[k].todo), call[k].cached)
    /\ UNCHANGED <<script, doc, bus, cache>>

CallStep(k) == AskActivation(k) \/ ServeActivation(k) \/ ReturnActivation(k) \/ LoseRequest(k) \/ AnswerUnwell(k)

FeedNext ==
    \/ WriteEntry \/ RelayEvent
    \/ StartManager \/ SubscribeEvents \/ PollActivation
    \/ ConnectSocket \/ LoseSocket \/ ReceiveUpdate
    \/ \E k \in Caller : CallStep(k)

\* The tasks of both processes run on, the poll loop wakes up, and a request ends one
\* way or the other.  A lost socket need not come back.
FeedFairness ==
    /\ WF_feedVars(RelayEvent)
    /\ WF_feedVars(StartManager)
    /\ WF_feedVars(SubscribeEvents)
    /\ WF_feedVars(PollActivation)
    /\ WF_feedVars(ReceiveUpdate)
    /\ \A k \in Caller : WF_feedVars(CallStep(k))

FeedSpec == FeedInit /\ [][FeedNext]_feedVars /\ FeedFairness

-----------------------------------------------------------------------------
(***************************************************************************)
(* Properties.                                                              *)
(***************************************************************************)

\* Every variable has its type; only one side is asked for at a time.
FeedTypeOK ==
    /\ script \in Seq(Strategy \X Side \X Entry)
    /\ doc \in [ver : Nat, entry : [Strategy -> [Side -> Entry \cup {None}]]]
    /\ bus \in Seq([ver : Nat, side : Side, entry : Entry])
    /\ cache \in [Side -> Entry \cup {None}]
    /\ breaker \in [failures : Nat, open : BOOLEAN]
    /\ call \in [Caller -> CallState]
    /\ \A k \in Caller : ~CallAt(k, "idle") => call[k].todo # <<>>
    /\ socket \in [up : BOOLEAN, msgs : Seq([side : Side, entry : Entry])]
    /\ mgr \in [pc : {"new", "reconcile", "running", "denied"}, stale : BOOLEAN,
                view : [Side -> Entry]]
    /\ used \in [DOMAIN FeedBounds -> Nat]

Running == mgr.pc = "running"

\* The gate follows the document: whatever an answer that was read before a change,
\* a late snapshot, an event of another strategy or a failed request has done to it,
\* a manager that polls agrees with WorldService in the end, unless the circuit opens.
GateConverges ==
    <>[]Running /\ []~breaker.open =>
        <>[](\A x \in Side : doc.entry[Own][x] # None => mgr.view[x] = doc.entry[Own][x])

\* "stale/unknown -> orders gated OFF": when the circuit to WorldService stays open,
\* the sides that the Gateway has once fetched are closed in the end.
OutageCloses ==
    <>[]Running /\ <>[]breaker.open =>
        <>[](\A x \in Side : cache[x] # None => ~Allowed(x))

\* The order gate of a strategy settles on what WorldService says, or on "no" while
\* WorldService cannot be asked (get_activation, ActivationManager, allow_side).
GateSettles == GateConverges /\ OutageCloses
=============================================================================
