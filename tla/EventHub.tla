------------------------------ MODULE EventHub ------------------------------
(***************************************************************************)
(* The Gateway's WebSocketHub: a bounded queue of events, the dispatcher task  *)
(* that sends each of them to the connections that want it, the registry of    *)
(* connections, and the hub's shutdown, which _stop_background begins while    *)
(* the ControlBus consumer still broadcasts.                                   *)
(*                                                                         *)
(* The registry's lock is never held across a suspension, so an operation on  *)
(* the registry is atomic.  Event ids are fresh UUIDs: the duplicate tracker   *)
(* never finds one of the hub's own events.                                    *)
(***************************************************************************)
EXTENDS Naturals, Sequences, FiniteSets, Optional

CONSTANTS
    Conn,           \* connections
    Topic, World,
    Capacity,       \* queue_maxsize
    MaxEvents,      \* events broadcast
    MaxHitches      \* sends that fail or are held back, and refreshed tokens

ASSUME HubConstants ==
    /\ Capacity \in Nat \ {0}
    /\ MaxEvents \in Nat /\ MaxHitches \in Nat
    /\ None \notin Topic \cup World

\* seq_no, topic (None: everybody's) and world_id (None: any world's).  The
\* dispatcher's sentinel has the number 0.
HubEvent == [no : Nat, topic : Topic \cup {None}, world : World \cup {None}]
Sentinel == [no |-> 0, topic |-> None, world |-> None]

\* A registered connection: its topics and the world of its token.
Registration == [topics : SUBSET Topic, world : World]

VARIABLES
    hubQueue,   \* EventDispatcher._queue
    seqNo,      \* WebSocketHub._seq_no
    disp,       \* the dispatcher task: what it is doing, whom it has still to send to
    conns,      \* ConnectionRegistry
    sent,       \* the numbers of the events sent to each connection
    stopping,   \* where WebSocketHub.stop is
    hitches     \* how many there have been

hubVars == <<hubQueue, seqNo, disp, conns, sent, stopping, hitches>>

Hitch == hitches < MaxHitches /\ hitches' = hitches + 1

Waiting == [pc |-> "wait", no |-> 0, to |-> {}, failed |-> {}]

HubInit ==
    /\ hubQueue = <<>> /\ seqNo = 0
    /\ disp = Waiting
    /\ conns = [c \in Conn |-> None]
    /\ sent = [c \in Conn |-> <<>>]
    /\ stopping = "no"
    /\ hitches = 0

-----------------------------------------------------------------------------
(* Connections: ws_evt_endpoint *)

\* connect and set_filters run without a suspension in between.
Register(c, reg) ==
    /\ stopping = "no" /\ conns[c] = None /\ sent[c] = <<>>
    /\ conns' = [conns EXCEPT ![c] = reg]
    /\ UNCHANGED <<hubQueue, seqNo, disp, sent, stopping, hitches>>

\* A refresh message with a new token.
Refresh(c, reg) ==
    /\ conns[c] # None /\ Hitch
    /\ conns' = [conns EXCEPT ![c] = reg]
    /\ UNCHANGED <<hubQueue, seqNo, disp, sent, stopping>>

\* The peer has gone: the endpoint's finally block.
Unregister(c) ==
    /\ conns[c] # None
    /\ conns' = [conns EXCEPT ![c] = None]
    /\ UNCHANGED <<hubQueue, seqNo, disp, sent, stopping, hitches>>

-----------------------------------------------------------------------------
(* EventDispatcher *)

\* Defect variant of Enqueued: the new event takes the place of the one it drops.
EnqueuedInPlace(e) ==
    IF Len(hubQueue) < Capacity THEN Append(hubQueue, e) ELSE [hubQueue EXCEPT ![1] = e]

\* Defect variant of Enqueued: a full queue refuses the new event.
EnqueuedOrDropped(e) ==
    IF Len(hubQueue) < Capacity THEN Append(hubQueue, e) ELSE hubQueue

\* Defect variant of Enqueued: the event that makes room may be the sentinel.
EnqueuedOverSentinel(e) ==
    IF Len(hubQueue) < Capacity THEN Append(hubQueue, e) ELSE Append(Tail(hubQueue), e)

\* enqueue: a full queue loses its oldest event.  If that is the sentinel it goes to
\* the end, which leaves no room: the second put_nowait raises and e is lost.
Enqueued(e) ==
    IF Len(hubQueue) < Capacity THEN Append(hubQueue, e)
    ELSE IF Head(hubQueue) = Sentinel THEN Append(Tail(hubQueue), Sentinel)
    ELSE Append(Tail(hubQueue), e)

\* broadcast numbers the event and enqueues it.
Broadcast(topic, world) ==
    /\ seqNo < MaxEvents
    /\ seqNo' = seqNo + 1
    /\ hubQueue' = Enqueued([no |-> seqNo + 1, topic |-> topic, world |-> world])
    /\ UNCHANGED <<disp, conns, sent, stopping, hitches>>

\* clients_for_topic and filter_clients.
Wants(c, e) ==
    /\ conns[c] # None
    /\ e.topic = None \/ e.topic \in conns[c].topics
    /\ e.world = None \/ e.world = conns[c].world

\* _run takes an event and begins to send it; at the sentinel the task ends.
TakeEvent ==
    /\ disp.pc = "wait" /\ hubQueue # <<>>
    /\ hubQueue' = Tail(hubQueue)
    /\ LET e == Head(hubQueue)
           to == {c \in Conn : Wants(c, e)}
       IN disp' = CASE e = Sentinel -> [Waiting EXCEPT !.pc = "ended"]
                    [] e # Sentinel /\ to = {} -> Waiting
                    [] OTHER -> [pc |-> "send", no |-> e.no, to |-> to, failed |-> {}]
    /\ UNCHANGED <<seqNo, conns, sent, stopping, hitches>>

\* One send of _fanout ends: sent, held back by the rate limiter, or failed.
SendTo(c) ==
    /\ disp.pc = "send" /\ c \in disp.to
    /\ \/ /\ conns[c] # None
          /\ sent' = [sent EXCEPT ![c] = Append(@, disp.no)]
          /\ disp' = [disp EXCEPT !.to = @ \ {c}]
          /\ UNCHANGED hitches
       \/ /\ Hitch
          /\ disp' = [disp EXCEPT !.to = @ \ {c}]
          /\ UNCHANGED sent
       \/ /\ IF conns[c] = None THEN UNCHANGED hitches ELSE Hitch
          /\ disp' = [disp EXCEPT !.to = @ \ {c}, !.failed = @ \cup {c}]
          /\ UNCHANGED sent
    /\ UNCHANGED <<hubQueue, seqNo, conns, stopping>>

\* All sends have ended: the connections that failed are removed.
EndFanout ==
    /\ disp.pc = "send" /\ disp.to = {}
    /\ conns' = [c \in Conn |-> IF c \in disp.failed THEN None ELSE conns[c]]
    /\ disp' = Waiting
    /\ UNCHANGED <<hubQueue, seqNo, sent, stopping, hitches>>

Dispatch == TakeEvent \/ (\E c \in Conn : SendTo(c)) \/ EndFanout

-----------------------------------------------------------------------------
(* WebSocketHub.stop *)

BeginStop ==
    /\ stopping = "no"
    /\ stopping' = "put"
    /\ UNCHANGED <<hubQueue, seqNo, disp, conns, sent, hitches>>

\* The sentinel waits for room in the queue.
PutSentinel ==
    /\ stopping = "put" /\ Len(hubQueue) < Capacity
    /\ hubQueue' = Append(hubQueue, Sentinel)
    /\ stopping' = "join"
    /\ UNCHANGED <<seqNo, disp, conns, sent, hitches>>

\* join: every item that was put has been taken and handled; then the registry is
\* cleared and the connections are closed.
EndStop ==
    /\ stopping = "join"
    /\ hubQueue = <<>> /\ disp.pc = "ended"
    /\ stopping' = "ended"
    /\ conns' = [c \in Conn |-> None]
    /\ UNCHANGED <<hubQueue, seqNo, disp, sent, hitches>>

HubNext ==
    \/ \E c \in Conn, reg \in Registration : Register(c, reg) \/ Refresh(c, reg)
    \/ \E c \in Conn : Unregister(c)
    \/ \E topic \in Topic \cup {None}, world \in World \cup {None} : Broadcast(topic, world)
    \/ Dispatch
    \/ BeginStop \/ PutSentinel \/ EndStop

\* The event loop runs the dispatcher and stop() whenever they can run.
HubFairness ==
    WF_hubVars(Dispatch) /\ WF_hubVars(PutSentinel) /\ WF_hubVars(EndStop)

HubSpec == HubInit /\ [][HubNext]_hubVars /\ HubFairness

-----------------------------------------------------------------------------
(***************************************************************************)
(* Properties.                                                              *)
(***************************************************************************)

\* Every variable has its type and the queue its capacity.
HubTypeOK ==
    /\ hubQueue \in Seq(HubEvent) /\ Len(hubQueue) <= Capacity
    /\ seqNo \in Nat
    /\ disp \in [pc : {"wait", "send", "ended"}, no : Nat, to : SUBSET Conn, failed : SUBSET Conn]
    /\ conns \in [Conn -> Registration \cup {None}]
    /\ sent \in [Conn -> Seq(Nat)]
    /\ stopping \in {"no", "put", "join", "ended"}
    /\ hitches \in Nat

\* The stream as a subscriber sees it.
Stream == INSTANCE OrderedFeed WITH Receiver <- Conn, offered <- seqNo, received <- sent

\* The hub implements an ordered feed: a connection sees events at most once and in
\* the order of their seq_no, whatever the full queue drops, the limiter holds back or
\* fails to be sent, and whenever the connection was registered.
ImplementsOrderedFeed == Stream!FeedSpec

\* Under overload it is the newest events that are kept: until the hub is stopped, the
\* queue holds the last events that were broadcast, without a hole.
QueueIsNewest ==
    stopping = "no" =>
        \A i \in DOMAIN hubQueue : hubQueue[i].no = seqNo - (Len(hubQueue) - i)

\* An event was broadcast behind the sentinel: nobody will take it.
LeftBehind == disp.pc = "ended" /\ hubQueue # <<>>

\* stop() returns, and the shutdown of the Gateway goes on, unless an event was
\* broadcast behind the sentinel.
StopReturns == stopping = "put" ~> stopping = "ended" \/ LeftBehind
=============================================================================
