----------------------------- MODULE PushProofs ------------------------------
(***************************************************************************)
(* Proofs about the push path of the Gateway: the hub, the activation feed    *)
(* of a strategy, and the relay of activation events from the ControlBus.     *)
(*                                                                         *)
(* The hub: type correctness, what a full queue keeps, and that it implements *)
(* OrderedFeed, for any number of connections, topics and worlds and any      *)
(* capacity of the queue.  The feed: type correctness, for any script of      *)
(* WorldService.  The relay: that nothing is held back without a timeout on   *)
(* its way, and that the acknowledgements and the handling of a run are in    *)
(* order, for any partition.                                                 *)
(***************************************************************************)
EXTENDS MCPush, ActivationRelay, WellFoundedInduction, TLAPS

\* The queue with a new last element.
LEMMA Appended ==
    ASSUME NEW S, NEW q \in Seq(S), NEW e \in S
    PROVE  /\ Append(q, e) \in Seq(S)
           /\ Len(Append(q, e)) = Len(q) + 1
           /\ \A i \in 1..(Len(q) + 1) : Append(q, e)[i] = IF i = Len(q) + 1 THEN e ELSE q[i]
OBVIOUS

\* The queue without its head.
LEMMA Tailed ==
    ASSUME NEW S, NEW q \in Seq(S), q # <<>>
    PROVE  /\ Tail(q) \in Seq(S) /\ Head(q) = q[1] /\ Head(q) \in S
           /\ Len(q) \in Nat \ {0} /\ Len(Tail(q)) = Len(q) - 1
           /\ \A i \in 1..(Len(q) - 1) : Tail(q)[i] = q[i + 1]
OBVIOUS

\* The queue that loses its head and gets a new last element.
LEMMA TailAppend ==
    ASSUME NEW S, NEW q \in Seq(S), q # <<>>, NEW e \in S
    PROVE  /\ Append(Tail(q), e) \in Seq(S)
           /\ Len(Append(Tail(q), e)) = Len(q)
           /\ \A i \in 1..Len(q) : Append(Tail(q), e)[i] = IF i = Len(q) THEN e ELSE q[i + 1]
<1> DEFINE t == Tail(q)
<1>1. /\ t \in Seq(S) /\ Len(q) \in Nat \ {0} /\ Len(t) = Len(q) - 1
      /\ \A i \in 1..(Len(q) - 1) : t[i] = q[i + 1]
  BY Tailed
<1> HIDE DEF t
<1>2. /\ Append(t, e) \in Seq(S) /\ Len(Append(t, e)) = Len(t) + 1
      /\ \A i \in 1..(Len(t) + 1) : Append(t, e)[i] = IF i = Len(t) + 1 THEN e ELSE t[i]
  BY <1>1, Appended
<1>3. Len(Append(t, e)) = Len(q)
  BY <1>1, <1>2
<1>4. ASSUME NEW i \in 1..Len(q) PROVE Append(t, e)[i] = IF i = Len(q) THEN e ELSE q[i + 1]
  BY <1>1, <1>2
<1>5. QED
  BY <1>2, <1>3, <1>4 DEF t

\* The sentinel is an event.
LEMMA SentinelType == Sentinel \in HubEvent /\ Sentinel.no = 0
BY DEF Sentinel, HubEvent

-----------------------------------------------------------------------------
(* The queue *)

\* Only the sentinel has the number 0, and no event has a number that was not given out.
Numbered(q, n) == \A i \in 1..Len(q) : q[i].no <= n /\ (q[i].no = 0 => q[i] = Sentinel)

\* The events of the queue are in the order of their numbers, wherever the sentinel is.
Ascending(q) == \A i, j \in 1..Len(q) : i < j => q[i].no < q[j].no \/ q[j].no = 0

\* Nothing of the queue has been given to the dispatcher.
Above(q, n) == \A i \in 1..Len(q) : q[i].no > n \/ q[i].no = 0

\* Until stop() has put it there the queue has no sentinel.
NoSentinel(q) == \A i \in 1..Len(q) : q[i].no # 0

\* enqueue keeps the queue well-formed: what is in it afterwards was there, or is the new
\* event with its new number, or the sentinel.
LEMMA EnqueuedOrdered ==
    ASSUME hubQueue \in Seq(HubEvent), Len(hubQueue) <= Capacity, seqNo \in Nat,
           Numbered(hubQueue, seqNo), Ascending(hubQueue),
           NEW e \in HubEvent, e.no = seqNo + 1
    PROVE  /\ Enqueued(e) \in Seq(HubEvent) /\ Len(Enqueued(e)) <= Capacity
           /\ Numbered(Enqueued(e), seqNo + 1) /\ Ascending(Enqueued(e))
           /\ \A n \in Nat : n <= seqNo /\ Above(hubQueue, n) => Above(Enqueued(e), n)
           /\ NoSentinel(hubQueue) => NoSentinel(Enqueued(e))
<1> USE HubConstants
<1>0. \A i \in 1..Len(hubQueue) : hubQueue[i] \in HubEvent /\ hubQueue[i].no \in Nat
  <2> SUFFICES ASSUME NEW i \in 1..Len(hubQueue)
               PROVE  hubQueue[i] \in HubEvent /\ hubQueue[i].no \in Nat
    OBVIOUS
  <2>1. hubQueue[i] \in HubEvent
    OBVIOUS
  <2> QED
    BY <2>1 DEF HubEvent
<1>1. CASE Len(hubQueue) < Capacity
  <2>1. Enqueued(e) = Append(hubQueue, e)
    BY <1>1 DEF Enqueued
  <2> QED
    BY <1>0, <1>1, <2>1, Appended DEF Numbered, Ascending, Above, NoSentinel
<1>2. CASE Len(hubQueue) = Capacity
  <2>0. hubQueue # <<>> /\ Head(hubQueue) = hubQueue[1] /\ 1 \in 1..Len(hubQueue)
    BY <1>2
  <2>1. CASE Head(hubQueue) = Sentinel
    <3>1. Enqueued(e) = Append(Tail(hubQueue), Sentinel)
      BY <1>2, <2>1 DEF Enqueued
    <3> QED
      BY <1>0, <1>2, <2>0, <2>1, <3>1, TailAppend, SentinelType
      DEF Numbered, Ascending, Above, NoSentinel
  <2>2. CASE Head(hubQueue) # Sentinel
    <3>1. Enqueued(e) = Append(Tail(hubQueue), e)
      BY <1>2, <2>2 DEF Enqueued
    <3>2. PICK q : q = Enqueued(e)
      OBVIOUS
    <3>3. /\ q \in Seq(HubEvent) /\ Len(q) = Len(hubQueue) /\ Len(hubQueue) \in Nat
          /\ \A i \in 1..Len(q) : q[i] = IF i = Len(q) THEN e ELSE hubQueue[i + 1]
      BY <2>0, <3>1, <3>2, TailAppend
    <3>4. \A i \in 1..Len(q) : i # Len(q) => i + 1 \in 1..Len(hubQueue) /\ q[i] = hubQueue[i + 1]
      BY <3>3
    <3>5. Len(q) \in 1..Len(q) => q[Len(q)] = e
      BY <3>3
    <3>6. Numbered(q, seqNo + 1)
      BY <1>0, <3>3, <3>4, <3>5 DEF Numbered
    <3>7. Ascending(q)
      <4> SUFFICES ASSUME NEW i \in 1..Len(q), NEW j \in 1..Len(q), i < j
                   PROVE  q[i].no < q[j].no \/ q[j].no = 0
        BY DEF Ascending
      <4>1. i # Len(q) /\ i + 1 \in 1..Len(hubQueue) /\ q[i] = hubQueue[i + 1]
        BY <3>3, <3>4
      <4>2. CASE j = Len(q)
        BY <1>0, <3>5, <4>1, <4>2 DEF Numbered
      <4>3. CASE j # Len(q)
        <5>1. j + 1 \in 1..Len(hubQueue) /\ q[j] = hubQueue[j + 1] /\ i + 1 < j + 1
          BY <3>4, <4>3
        <5>2. QED
          BY <4>1, <5>1 DEF Ascending
      <4> QED
        BY <4>2, <4>3
    <3>8. \A n \in Nat : n <= seqNo /\ Above(hubQueue, n) => Above(q, n)
      BY <3>3, <3>4, <3>5 DEF Above
    <3>9. NoSentinel(hubQueue) => NoSentinel(q)
      BY <3>3, <3>4, <3>5 DEF NoSentinel
    <3> QED
      BY <1>2, <3>2, <3>3, <3>6, <3>7, <3>8, <3>9
  <2> QED
    BY <2>1, <2>2
<1> QED
  BY <1>1, <1>2

-----------------------------------------------------------------------------
(* The inductive invariant *)

\* The number of the last event that was sent to c; 0 if there was none.
LastSent(c) == IF sent[c] = <<>> THEN 0 ELSE sent[c][Len(sent[c])]

\* What is in the queue has not been dispatched, and is in order.
QueueInv ==
    /\ Numbered(hubQueue, seqNo) /\ Ascending(hubQueue)
    /\ stopping \in {"no", "put"} => NoSentinel(hubQueue)

\* The event being sent was broadcast before everything in the queue.
DispInv ==
    disp.pc = "send" => disp.no \in 1..seqNo /\ Above(hubQueue, disp.no)

\* A connection was sent nothing that is still in the queue, and nothing later than the
\* event being sent, which it has been sent if its send has ended.
SentInv ==
    \A c \in Conn :
        /\ LastSent(c) <= seqNo
        /\ Above(hubQueue, LastSent(c))
        /\ disp.pc = "send" => LastSent(c) <= disp.no
        /\ disp.pc = "send" /\ c \in disp.to => LastSent(c) < disp.no

HubInv == HubTypeOK /\ QueueInv /\ QueueIsNewest /\ DispInv /\ SentInv

\* The events that may be broadcast.
LEMMA NewEvent ==
    ASSUME seqNo \in Nat, NEW topic \in Topic \cup {None}, NEW world \in World \cup {None}
    PROVE  /\ [no |-> seqNo + 1, topic |-> topic, world |-> world] \in HubEvent
           /\ [no |-> seqNo + 1, topic |-> topic, world |-> world].no = seqNo + 1
BY DEF HubEvent

\* The last event sent to a connection is a number.
LEMMA LastSentNat ==
    ASSUME HubTypeOK, NEW c \in Conn
    PROVE  LastSent(c) \in Nat
<1>1. sent[c] \in Seq(Nat)
  BY DEF HubTypeOK
<1>2. sent[c] # <<>> => Len(sent[c]) \in 1..Len(sent[c])
  BY <1>1
<1> QED
  BY <1>1, <1>2 DEF LastSent

\* A hub that has not been started has an empty queue and no socket.
LEMMA HubInitInv == HubInit => HubInv
<1> SUFFICES ASSUME HubInit PROVE HubInv
  OBVIOUS
<1>1. hubQueue \in Seq(HubEvent) /\ Len(hubQueue) = 0
  BY DEF HubInit
<1>2. HubTypeOK
  BY <1>1, HubConstants DEF HubInit, HubTypeOK, Waiting
<1>3. QueueInv /\ QueueIsNewest
  BY <1>1 DEF HubInit, QueueInv, QueueIsNewest, Numbered, Ascending, NoSentinel
<1>4. DispInv
  BY DEF HubInit, DispInv, Waiting
<1>5. SentInv
  BY <1>1 DEF HubInit, SentInv, LastSent, Above, Waiting
<1> QED
  BY <1>2, <1>3, <1>4, <1>5 DEF HubInv

\* broadcast: the newest event goes in, the oldest goes out.
LEMMA BroadcastInv ==
    ASSUME HubInv, NEW topic \in Topic \cup {None}, NEW world \in World \cup {None},
           Broadcast(topic, world)
    PROVE  HubInv'
<1> DEFINE e == [no |-> seqNo + 1, topic |-> topic, world |-> world]
<1> USE DEF HubInv
<1>1. /\ e \in HubEvent /\ e.no = seqNo + 1
      /\ hubQueue' = Enqueued(e) /\ seqNo' = seqNo + 1
      /\ UNCHANGED <<disp, conns, sent, stopping, hitches>>
  BY NewEvent DEF Broadcast, HubTypeOK
<1> HIDE DEF e
<1>2. /\ hubQueue' \in Seq(HubEvent) /\ Len(hubQueue') <= Capacity
      /\ Numbered(hubQueue', seqNo') /\ Ascending(hubQueue')
      /\ \A n \in Nat : n <= seqNo /\ Above(hubQueue, n) => Above(hubQueue', n)
      /\ NoSentinel(hubQueue) => NoSentinel(hubQueue')
  BY <1>1, EnqueuedOrdered DEF HubTypeOK, QueueInv
<1>3. HubTypeOK'
  BY <1>1, <1>2 DEF HubTypeOK
<1>4. QueueInv'
  BY <1>1, <1>2 DEF QueueInv
<1>5. QueueIsNewest'
  <2> SUFFICES ASSUME stopping = "no"
               PROVE  \A i \in 1..Len(hubQueue') : hubQueue'[i].no = seqNo' - (Len(hubQueue') - i)
    BY <1>1, <1>2 DEF QueueIsNewest
  <2>0. \A i \in 1..Len(hubQueue) : hubQueue[i].no = seqNo - (Len(hubQueue) - i)
    BY DEF QueueIsNewest, HubTypeOK
  <2>1. CASE Len(hubQueue) < Capacity
    BY <1>1, <2>0, <2>1, Appended DEF Enqueued, HubTypeOK
  <2>2. CASE Len(hubQueue) = Capacity
    <3>0. seqNo \in Nat /\ seqNo' = seqNo + 1
      BY <1>1 DEF HubTypeOK
    <3>1. hubQueue # <<>> /\ Head(hubQueue) = hubQueue[1] /\ 1 \in 1..Len(hubQueue)
      BY <2>2, HubConstants DEF HubTypeOK
    <3>2. Head(hubQueue) # Sentinel
      BY <3>1, SentinelType DEF QueueInv, NoSentinel
    <3>3. hubQueue' = Append(Tail(hubQueue), e)
      BY <1>1, <2>2, <3>2 DEF Enqueued
    <3>4. /\ Len(hubQueue') = Len(hubQueue) /\ Len(hubQueue) \in Nat
          /\ \A i \in 1..Len(hubQueue) :
                hubQueue'[i] = IF i = Len(hubQueue) THEN e ELSE hubQueue[i + 1]
      BY <1>1, <3>1, <3>3, TailAppend DEF HubTypeOK
    <3>5. ASSUME NEW i \in 1..Len(hubQueue)
          PROVE  hubQueue'[i].no = seqNo + 1 - (Len(hubQueue) - i)
      <4>1. CASE i = Len(hubQueue)
        <5>1. hubQueue'[i] = e
          BY <3>4, <4>1
        <5> QED
          BY <1>1, <3>0, <3>4, <4>1, <5>1
      <4>2. CASE i # Len(hubQueue)
        <5>1. i + 1 \in 1..Len(hubQueue) /\ hubQueue'[i] = hubQueue[i + 1]
          BY <3>4, <4>2
        <5>2. hubQueue[i + 1].no = seqNo - (Len(hubQueue) - (i + 1))
          BY <2>0, <5>1
        <5> QED
          BY <3>4, <5>1, <5>2 DEF HubTypeOK
      <4> QED
        BY <4>1, <4>2
    <3> TAKE i \in 1..Len(hubQueue')
    <3>6. i \in 1..Len(hubQueue) /\ seqNo' - (Len(hubQueue') - i) = seqNo + 1 - (Len(hubQueue) - i)
      BY <3>0, <3>4
    <3> QED
      BY <3>5, <3>6
  <2> QED
    BY <2>1, <2>2, HubConstants DEF HubTypeOK
<1>6. DispInv'
  BY <1>1, <1>2 DEF DispInv, HubTypeOK
<1>7. SentInv'
  <2> SUFFICES ASSUME NEW c \in Conn
               PROVE  /\ LastSent(c)' <= seqNo'
                      /\ Above(hubQueue', LastSent(c)')
                      /\ disp'.pc = "send" => LastSent(c)' <= disp'.no
                      /\ disp'.pc = "send" /\ c \in disp'.to => LastSent(c)' < disp'.no
    BY DEF SentInv
  <2>1. LastSent(c)' = LastSent(c) /\ LastSent(c) \in Nat
    BY <1>1, LastSentNat DEF LastSent
  <2> QED
    BY <1>1, <1>2, <2>1 DEF SentInv, HubTypeOK
<1> QED
  BY <1>3, <1>4, <1>5, <1>6, <1>7

\* _run takes the head of the queue.
LEMMA TakeEventInv == HubInv /\ TakeEvent => HubInv'
<1> SUFFICES ASSUME HubInv, TakeEvent PROVE HubInv'
  OBVIOUS
<1> DEFINE e == Head(hubQueue)
           to == {c \in Conn : Wants(c, e)}
<1> USE DEF HubInv
<1>1. /\ hubQueue # <<>> /\ hubQueue' = Tail(hubQueue) /\ disp.pc = "wait"
      /\ UNCHANGED <<seqNo, conns, sent, stopping, hitches>>
  BY DEF TakeEvent
<1>2. /\ hubQueue' \in Seq(HubEvent) /\ e = hubQueue[1] /\ e \in HubEvent
      /\ Len(hubQueue) \in Nat \ {0} /\ Len(hubQueue') = Len(hubQueue) - 1
      /\ \A i \in 1..Len(hubQueue') : hubQueue'[i] = hubQueue[i + 1]
  BY <1>1, Tailed DEF HubTypeOK
<1>3. e.no \in Nat
  BY <1>2 DEF HubEvent
<1>4. \/ disp' \in {[Waiting EXCEPT !.pc = "ended"], Waiting}
      \/ e # Sentinel /\ disp' = [pc |-> "send", no |-> e.no, to |-> to, failed |-> {}]
  BY DEF TakeEvent
<1> HIDE DEF e, to
<1>5. /\ disp' \in [pc : {"wait", "send", "ended"}, no : Nat, to : SUBSET Conn, failed : SUBSET Conn]
      /\ disp'.pc = "send" => disp'.no = e.no /\ e # Sentinel
  BY <1>3, <1>4 DEF Waiting, to
<1>6. HubTypeOK'
  <2>1. Len(hubQueue') <= Capacity
    BY <1>2, HubConstants DEF HubTypeOK
  <2> QED
    BY <1>1, <1>2, <1>5, <2>1 DEF HubTypeOK
<1>7. \A i \in 1..Len(hubQueue) : hubQueue[i] \in HubEvent /\ hubQueue[i].no \in Nat
  <2> SUFFICES ASSUME NEW i \in 1..Len(hubQueue)
               PROVE  hubQueue[i] \in HubEvent /\ hubQueue[i].no \in Nat
    OBVIOUS
  <2>1. hubQueue[i] \in HubEvent
    BY DEF HubTypeOK
  <2> QED
    BY <2>1 DEF HubEvent
<1>8. QueueInv'
  BY <1>1, <1>2, <1>7 DEF QueueInv, Numbered, Ascending, NoSentinel, HubTypeOK
<1>9. QueueIsNewest'
  <2> SUFFICES ASSUME stopping = "no", NEW i \in 1..Len(hubQueue')
               PROVE  hubQueue'[i].no = seqNo - (Len(hubQueue') - i)
    BY <1>1 DEF QueueIsNewest
  <2>1. i + 1 \in 1..Len(hubQueue) /\ hubQueue'[i] = hubQueue[i + 1]
    BY <1>2
  <2>2. hubQueue[i + 1].no = seqNo - (Len(hubQueue) - (i + 1))
    BY <2>1 DEF QueueIsNewest
  <2> QED
    BY <1>2, <2>1, <2>2 DEF HubTypeOK
<1>10. ASSUME disp'.pc = "send"
       PROVE  disp'.no \in 1..seqNo /\ Above(hubQueue', disp'.no)
  <2>1. e.no # 0 /\ e.no <= seqNo /\ disp'.no = e.no
    BY <1>2, <1>5, <1>10 DEF QueueInv, Numbered
  <2>2. \A j \in 1..Len(hubQueue) : 1 < j => e.no < hubQueue[j].no \/ hubQueue[j].no = 0
    BY <1>2 DEF QueueInv, Ascending
  <2>3. ASSUME NEW i \in 1..Len(hubQueue')
        PROVE  hubQueue'[i].no > e.no \/ hubQueue'[i].no = 0
    <3>1. i + 1 \in 1..Len(hubQueue) /\ 1 < i + 1 /\ hubQueue'[i] = hubQueue[i + 1]
      BY <1>2
    <3>2. e.no < hubQueue[i + 1].no \/ hubQueue[i + 1].no = 0
      BY <2>2, <3>1
    <3> QED
      BY <1>3, <1>7, <3>1, <3>2
  <2>4. disp'.no \in 1..seqNo
    BY <1>3, <2>1 DEF HubTypeOK
  <2> QED
    BY <2>1, <2>3, <2>4 DEF Above
<1>11. SentInv'
  <2> SUFFICES ASSUME NEW c \in Conn
               PROVE  /\ LastSent(c)' <= seqNo'
                      /\ Above(hubQueue', LastSent(c)')
                      /\ disp'.pc = "send" => LastSent(c)' < disp'.no
    <3>1. \A c \in Conn : LastSent(c)' \in Nat
      <4> TAKE c \in Conn
      <4> QED
        BY <1>1, LastSentNat DEF LastSent
    <3>2. disp'.no \in Nat
      BY <1>5
    <3> QED
      BY <3>1, <3>2 DEF SentInv
  <2>1. LastSent(c)' = LastSent(c) /\ LastSent(c) \in Nat
    BY <1>1, LastSentNat DEF LastSent
  <2>0. Above(hubQueue, LastSent(c))
    BY DEF SentInv
  <2>2. Above(hubQueue', LastSent(c))
    BY <1>2, <2>0 DEF Above
  <2>3. ASSUME disp'.pc = "send" PROVE LastSent(c) < e.no
    <3>1. e.no # 0
      BY <1>3, <1>5, <1>10, <2>3
    <3>2. 1 \in 1..Len(hubQueue) /\ e.no = hubQueue[1].no
      BY <1>2
    <3>3. e.no > LastSent(c)
      BY <2>0, <3>1, <3>2 DEF Above
    <3> QED
      BY <1>3, <2>1, <3>3
  <2> QED
    BY <1>1, <1>5, <2>1, <2>2, <2>3 DEF SentInv
<1> QED
  BY <1>1, <1>6, <1>8, <1>9, <1>10, <1>11 DEF DispInv

\* One send ends.
LEMMA SendToInv == ASSUME HubInv, NEW c \in Conn, SendTo(c) PROVE HubInv'
<1> USE DEF HubInv
<1>1. /\ disp.pc = "send" /\ c \in disp.to
      /\ UNCHANGED <<hubQueue, seqNo, conns, stopping>>
      /\ disp'.pc = "send" /\ disp'.no = disp.no /\ disp'.to = disp.to \ {c}
  BY DEF SendTo, HubTypeOK
<1>2. disp.no \in 1..seqNo /\ Above(hubQueue, disp.no)
  BY <1>1 DEF DispInv
<1>3. sent' = sent \/ sent' = [sent EXCEPT ![c] = Append(@, disp.no)]
  BY DEF SendTo
<1>4. HubTypeOK'
  <2>1. hitches' \in Nat
    BY DEF SendTo, Hitch, HubTypeOK
  <2>2. disp' \in [pc : {"wait", "send", "ended"}, no : Nat, to : SUBSET Conn, failed : SUBSET Conn]
    <3>1. disp.to \ {c} \in SUBSET Conn /\ disp.failed \cup {c} \in SUBSET Conn
      BY DEF HubTypeOK
    <3>2. \/ disp' = [disp EXCEPT !.to = @ \ {c}]
          \/ disp' = [disp EXCEPT !.to = @ \ {c}, !.failed = @ \cup {c}]
      BY DEF SendTo
    <3> QED
      BY <3>1, <3>2 DEF HubTypeOK
  <2>3. sent' \in [Conn -> Seq(Nat)]
    <3>1. sent[c] \in Seq(Nat) /\ disp.no \in Nat
      BY DEF HubTypeOK
    <3>2. Append(sent[c], disp.no) \in Seq(Nat)
      BY <3>1, Appended
    <3> QED
      BY <1>3, <3>2 DEF HubTypeOK
  <2> QED
    BY <1>1, <2>1, <2>2, <2>3 DEF HubTypeOK
<1>5. QueueInv' /\ QueueIsNewest' /\ DispInv'
  BY <1>1, <1>2 DEF QueueInv, QueueIsNewest, DispInv
<1>6. SentInv'
  <2> SUFFICES ASSUME NEW d \in Conn
               PROVE  /\ LastSent(d)' <= seqNo /\ Above(hubQueue, LastSent(d)')
                      /\ LastSent(d)' <= disp.no
                      /\ d \in disp.to \ {c} => LastSent(d)' < disp.no
    BY <1>1 DEF SentInv
  <2>1. LastSent(d) \in Nat
    BY LastSentNat
  <2>2. CASE sent'[d] = sent[d]
    BY <1>1, <2>1, <2>2 DEF SentInv, LastSent
  <2>3. CASE d = c /\ sent'[d] = Append(sent[d], disp.no)
    <3>1. sent[d] \in Seq(Nat) /\ disp.no \in Nat
      BY DEF HubTypeOK
    <3>2. LastSent(d)' = disp.no
      BY <2>3, <3>1 DEF LastSent
    <3> QED
      BY <1>2, <2>3, <3>2 DEF HubTypeOK
  <2> QED
    BY <1>3, <2>2, <2>3 DEF HubTypeOK
<1> QED
  BY <1>4, <1>5, <1>6

\* stop() puts the sentinel behind everything.
LEMMA PutSentinelInv == HubInv /\ PutSentinel => HubInv'
<1> SUFFICES ASSUME HubInv, PutSentinel PROVE HubInv'
  OBVIOUS
<1> USE DEF HubInv
<1>1. /\ Len(hubQueue) < Capacity /\ hubQueue' = Append(hubQueue, Sentinel) /\ stopping' = "join"
      /\ UNCHANGED <<seqNo, disp, conns, sent, hitches>>
  BY DEF PutSentinel
<1>2. /\ hubQueue' \in Seq(HubEvent) /\ Len(hubQueue') = Len(hubQueue) + 1
      /\ \A i \in 1..(Len(hubQueue) + 1) :
            hubQueue'[i] = IF i = Len(hubQueue) + 1 THEN Sentinel ELSE hubQueue[i]
      /\ Len(hubQueue) \in Nat
  BY <1>1, Appended, SentinelType DEF HubTypeOK
<1>3. HubTypeOK'
  BY <1>1, <1>2, HubConstants DEF HubTypeOK
<1>4. QueueInv'
  BY <1>1, <1>2, SentinelType DEF QueueInv, Numbered, Ascending, HubTypeOK
<1>5. QueueIsNewest'
  BY <1>1 DEF QueueIsNewest
<1>6. \A n : Above(hubQueue, n) => Above(hubQueue', n)
  BY <1>2, SentinelType DEF Above
<1>7. DispInv'
  BY <1>1, <1>6 DEF DispInv
<1>8. SentInv'
  BY <1>1, <1>6 DEF SentInv, LastSent
<1> QED
  BY <1>3, <1>4, <1>5, <1>7, <1>8

\* The steps that touch neither the queue nor what was sent.
LEMMA OtherInv ==
    ASSUME HubInv, HubTypeOK', UNCHANGED <<hubQueue, seqNo, sent>>,
           stopping' # stopping => stopping' \notin {"no", "put"} \/ stopping = "no",
           stopping' = "no" => stopping = "no",
           disp'.pc = "send" => disp' = disp
    PROVE  HubInv'
<1> USE DEF HubInv
<1>1. QueueInv' /\ QueueIsNewest'
  BY DEF QueueInv, QueueIsNewest
<1>2. DispInv'
  BY DEF DispInv
<1>3. SentInv'
  BY DEF SentInv, LastSent
<1> QED
  BY <1>1, <1>2, <1>3

\* Every step keeps the invariant.
LEMMA HubStepInv == HubInv /\ [HubNext]_hubVars => HubInv'
<1> SUFFICES ASSUME HubInv, [HubNext]_hubVars PROVE HubInv'
  OBVIOUS
<1>1. ASSUME NEW c \in Conn, NEW reg \in Registration, Register(c, reg) \/ Refresh(c, reg)
      PROVE  HubInv'
  <2>1. HubTypeOK' /\ UNCHANGED <<hubQueue, seqNo, sent, stopping, disp>>
    BY <1>1 DEF HubInv, HubTypeOK, Register, Refresh, Hitch
  <2> QED
    BY <2>1, OtherInv
<1>2. ASSUME NEW c \in Conn, Unregister(c) PROVE HubInv'
  <2>1. HubTypeOK' /\ UNCHANGED <<hubQueue, seqNo, sent, stopping, disp>>
    BY <1>2 DEF HubInv, HubTypeOK, Unregister
  <2> QED
    BY <2>1, OtherInv
<1>3. ASSUME NEW topic \in Topic \cup {None}, NEW world \in World \cup {None},
             Broadcast(topic, world)
      PROVE  HubInv'
  BY <1>3, BroadcastInv
<1>4. CASE TakeEvent
  BY <1>4, TakeEventInv
<1>5. ASSUME NEW c \in Conn, SendTo(c) PROVE HubInv'
  BY <1>5, SendToInv
<1>6. CASE EndFanout
  <2>1. UNCHANGED <<hubQueue, seqNo, sent, stopping, hitches>> /\ disp' = Waiting
    BY <1>6 DEF EndFanout
  <2>2. conns' \in [Conn -> Registration \cup {None}]
    BY <1>6 DEF EndFanout, HubInv, HubTypeOK
  <2>3. /\ disp'.pc # "send"
        /\ disp' \in [pc : {"wait", "send", "ended"}, no : Nat, to : SUBSET Conn, failed : SUBSET Conn]
    BY <2>1 DEF Waiting
  <2>4. HubTypeOK'
    BY <2>1, <2>2, <2>3 DEF HubInv, HubTypeOK
  <2> QED
    BY <2>1, <2>3, <2>4, OtherInv
<1>7. CASE BeginStop
  <2>1. HubTypeOK' /\ UNCHANGED <<hubQueue, seqNo, sent, disp>> /\ stopping = "no" /\ stopping' = "put"
    BY <1>7 DEF HubInv, HubTypeOK, BeginStop
  <2> QED
    BY <2>1, OtherInv
<1>8. CASE PutSentinel
  BY <1>8, PutSentinelInv
<1>9. CASE EndStop
  <2>1. HubTypeOK' /\ UNCHANGED <<hubQueue, seqNo, sent, disp>> /\ stopping' = "ended"
    BY <1>9 DEF HubInv, HubTypeOK, EndStop
  <2> QED
    BY <2>1, OtherInv
<1>10. CASE UNCHANGED hubVars
  <2>1. HubTypeOK' /\ UNCHANGED <<hubQueue, seqNo, sent, stopping, disp>>
    BY <1>10 DEF HubInv, HubTypeOK, hubVars
  <2> QED
    BY <2>1, OtherInv
<1> QED
  BY <1>1, <1>2, <1>3, <1>4, <1>5, <1>6, <1>7, <1>8, <1>9, <1>10 DEF HubNext, Dispatch

\* The invariant holds in every state of the hub.
LEMMA HubInvariant == HubSpec => []HubInv
<1>1. HubInit => HubInv
  BY HubInitInv
<1>2. HubInv /\ [HubNext]_hubVars => HubInv'
  BY HubStepInv
<1> QED
  BY <1>1, <1>2, PTL DEF HubSpec

\* Every variable of the hub has its type, and EventDispatcher's queue never holds more
\* than queue_maxsize events, whatever is broadcast and whenever the hub is stopped.
THEOREM HubTypeCorrect == HubSpec => []HubTypeOK
<1>1. HubInv => HubTypeOK
  BY DEF HubInv
<1> QED
  BY <1>1, HubInvariant, PTL

\* EventDispatcher.enqueue under overload: until stop() begins, the queue holds the last
\* events that broadcast numbered, in order and without a hole.
THEOREM NewestKept == HubSpec => []QueueIsNewest
<1>1. HubInv => QueueIsNewest
  BY DEF HubInv
<1> QED
  BY <1>1, HubInvariant, PTL

-----------------------------------------------------------------------------
(* The refinement *)

\* A send is a Deliver of the abstract feed or, held back or failed, nothing.
LEMMA SendDelivers ==
    ASSUME HubInv, NEW c \in Conn, SendTo(c)
    PROVE  Stream!Deliver(c) \/ UNCHANGED Stream!feed
<1>1. /\ disp.pc = "send" /\ c \in disp.to /\ UNCHANGED seqNo
      /\ sent' = sent \/ sent' = [sent EXCEPT ![c] = Append(@, disp.no)]
  BY DEF SendTo
<1>2. disp.no \in 1..seqNo /\ LastSent(c) < disp.no /\ LastSent(c) \in Nat
  BY <1>1, LastSentNat DEF HubInv, DispInv, SentInv
<1>3. Stream!LastOf(c) = LastSent(c)
  BY DEF Stream!LastOf, LastSent
<1>4. CASE sent' = sent
  BY <1>1, <1>4 DEF Stream!feed
<1>5. CASE sent' = [sent EXCEPT ![c] = Append(@, disp.no)]
  BY <1>1, <1>2, <1>3, <1>5 DEF Stream!Deliver
<1> QED
  BY <1>1, <1>4, <1>5

\* Every step of the hub is a step of the abstract feed: broadcast offers the event with
\* the next number, a send delivers, everything else is invisible.
LEMMA HubStepMaps ==
    HubInv /\ [HubNext]_hubVars =>
        [Stream!Offer \/ \E c \in Conn : Stream!Deliver(c)]_Stream!feed
<1> SUFFICES ASSUME HubInv, [HubNext]_hubVars
             PROVE  \/ Stream!Offer \/ \E c \in Conn : Stream!Deliver(c)
                    \/ UNCHANGED Stream!feed
  OBVIOUS
<1>1. ASSUME NEW topic, NEW world, Broadcast(topic, world) PROVE Stream!Offer
  BY <1>1 DEF Broadcast, Stream!Offer
<1>2. ASSUME NEW c \in Conn, SendTo(c) PROVE Stream!Deliver(c) \/ UNCHANGED Stream!feed
  BY <1>2, SendDelivers
<1>3. ASSUME NEW c, NEW reg, Register(c, reg) \/ Refresh(c, reg) PROVE UNCHANGED Stream!feed
  BY <1>3 DEF Register, Refresh, Stream!feed
<1>4. ASSUME NEW c, Unregister(c) PROVE UNCHANGED Stream!feed
  BY <1>4 DEF Unregister, Stream!feed
<1>5. CASE TakeEvent \/ EndFanout \/ BeginStop \/ PutSentinel \/ EndStop \/ UNCHANGED hubVars
  BY <1>5 DEF TakeEvent, EndFanout, BeginStop, PutSentinel, EndStop, hubVars, Stream!feed
<1> QED
  BY <1>1, <1>2, <1>3, <1>4, <1>5 DEF HubNext, Dispatch

\* WebSocketHub implements OrderedFeed: every connection is sent events at most once and
\* in the order of their seq_no, whatever the full queue drops, whichever sends fail or
\* are held back, and whenever connections come and go or the hub is stopped.
THEOREM HubImplementsFeed == HubSpec => ImplementsOrderedFeed
<1>1. HubInit => Stream!FeedInit
  BY DEF HubInit, Stream!FeedInit
<1>2. HubInv /\ [HubNext]_hubVars =>
        [Stream!Offer \/ \E c \in Conn : Stream!Deliver(c)]_Stream!feed
  BY HubStepMaps
<1> QED
  BY <1>1, <1>2, HubInvariant, PTL DEF HubSpec, ImplementsOrderedFeed, Stream!FeedSpec

-----------------------------------------------------------------------------
(* The feed of a strategy: types *)

\* The states of ActivationManager, what is left of a round of calls, and a message of the
\* socket.
Update == [side : Side, entry : Entry]
ManagerState ==
    [pc : {"new", "reconcile", "running", "denied"}, stale : BOOLEAN, view : [Side -> Entry]]
Todo == {<<>>, <<"short">>, Sides}

LEMMA TodoTyped ==
    ASSUME NEW q \in Todo
    PROVE  q # <<>> => Head(q) \in Side /\ Tail(q) \in Todo
<1>1. CASE q = <<"short">>
  <2>1. Head(q) = "short" /\ Tail(q) = <<>>
    BY <1>1
  <2>2. QED
    BY <2>1 DEF Todo, Side
<1>2. CASE q = <<"long", "short">>
  <2>1. Head(q) = "long" /\ Tail(q) = <<"short">>
    BY <1>2
  <2>2. QED
    BY <2>1 DEF Todo, Side
<1>3. QED
  BY <1>1, <1>2 DEF Todo, Sides

\* A call in progress, field by field.
LEMMA CallTyped ==
    ASSUME FeedTypeOK, NEW k \in Caller
    PROVE  /\ call[k].todo \in Todo /\ call[k].pc \in {"idle", "sent", "answered"}
           /\ call[k].cached \in Entry \cup {None} /\ call[k].answer \in Entry \cup {None}
           /\ call[k].pc # "idle" => call[k].todo # <<>>
           /\ call[k] \in CallState
<1>1. call[k] \in CallState
  BY DEF FeedTypeOK
<1>2. QED
  BY <1>1 DEF CallState, FeedTypeOK, CallAt, Todo

\* A call with another state.
LEMMA CallSet ==
    ASSUME FeedTypeOK, NEW k \in Caller, NEW c \in CallState, c.pc # "idle" => c.todo # <<>>,
           call' = [call EXCEPT ![k] = c]
    PROVE  /\ call' \in [Caller -> CallState]
           /\ \A x \in Caller : ~CallAt(x, "idle")' => call'[x].todo # <<>>
<1>1. call' \in [Caller -> CallState] /\ call'[k] = c /\ \A x \in Caller : x # k => call'[x] = call[x]
  BY DEF FeedTypeOK
<1>2. ASSUME NEW x \in Caller, call'[x].pc # "idle" PROVE call'[x].todo # <<>>
  BY <1>1, <1>2 DEF FeedTypeOK, CallAt
<1>3. QED
  BY <1>1, <1>2 DEF CallAt

LEMMA IdleTyped ==
    ASSUME NEW q \in Todo
    PROVE  [NoCall EXCEPT !.todo = q] \in CallState /\ [NoCall EXCEPT !.todo = q].pc = "idle"
           /\ NoCall \in CallState /\ NoCall.pc = "idle"
BY DEF NoCall, CallState, Todo

LEMMA AppliedTyped ==
    ASSUME mgr \in ManagerState, NEW x \in Side, NEW e \in Entry
    PROVE  Applied(x, e) \in ManagerState
<1>1. PICK v : v = [mgr.view EXCEPT ![x] = e]
  OBVIOUS
<1>2. mgr.view \in [Side -> Entry]
  BY DEF ManagerState
<1>3. v \in [Side -> Entry]
  BY <1>1, <1>2
<1>4. Applied(x, e) = [mgr EXCEPT !.view = v, !.stale = FALSE]
  BY <1>1 DEF Applied
<1>5. [mgr EXCEPT !.view = v, !.stale = FALSE] \in ManagerState
  BY <1>3 DEF ManagerState
<1>6. QED
  BY <1>4, <1>5

LEMMA PushTyped ==
    ASSUME socket \in [up : BOOLEAN, msgs : Seq(Update)], NEW u \in Update
    PROVE  [socket EXCEPT !.msgs = Append(socket.msgs, u)] \in [up : BOOLEAN, msgs : Seq(Update)]
<1>1. PICK q : q = Append(socket.msgs, u)
  OBVIOUS
<1>2. socket.msgs \in Seq(Update)
  OBVIOUS
<1>3. q \in Seq(Update)
  <2>1. PICK T : T = Update
    OBVIOUS
  <2>2. socket.msgs \in Seq(T) /\ u \in T
    BY <2>1, <1>2
  <2>3. Append(socket.msgs, u) \in Seq(T)
    BY <2>2
  <2>4. QED
    BY <2>1, <2>3, <1>1
<1>4. [socket EXCEPT !.msgs = q] \in [up : BOOLEAN, msgs : Seq(Update)]
  BY <1>3
<1>5. QED
  BY <1>1, <1>4

\* What an answer, a refusal or a fallback for caller k leaves.
CallTypes ==
    /\ call \in [Caller -> CallState]
    /\ \A k \in Caller : ~CallAt(k, "idle") => call[k].todo # <<>>
    /\ socket \in [up : BOOLEAN, msgs : Seq(Update)]
    /\ mgr \in ManagerState

LEMMA AnswerTyped ==
    ASSUME FeedTypeOK, NEW k \in Caller, call[k].todo # <<>>, NEW x \in Side, NEW e \in Entry,
           AnswerCall(k, x, e)
    PROVE  CallTypes'
<1>1. mgr \in ManagerState /\ socket \in [up : BOOLEAN, msgs : Seq(Update)]
  BY DEF FeedTypeOK, ManagerState, Update
<1>2. PICK c : c = NextSide(k)
  OBVIOUS
<1>3. c \in CallState /\ c.pc = "idle" /\ call' = [call EXCEPT ![k] = c]
  <2>1. Tail(call[k].todo) \in Todo
    BY CallTyped, TodoTyped
  <2>2. QED
    BY <2>1, <1>2, IdleTyped DEF NextSide, AnswerCall
<1>4. PICK u : u = [side |-> x, entry |-> e]
  OBVIOUS
<1>5. u \in Update
  BY <1>4 DEF Update
<1>6. CASE k = "poll"
  <2>1. mgr' = Applied(x, e) /\ socket' = socket
    BY <1>6 DEF AnswerCall
  <2>2. mgr' \in ManagerState
    BY <2>1, <1>1, AppliedTyped
  <2>3. QED
    BY <2>1, <2>2, <1>1, <1>3, CallSet DEF CallTypes
<1>7. CASE k # "poll"
  <2>1. mgr' = mgr /\ socket' = [socket EXCEPT !.msgs = Append(socket.msgs, u)]
    BY <1>7, <1>4 DEF AnswerCall
  <2>2. socket' \in [up : BOOLEAN, msgs : Seq(Update)]
    BY <2>1, <1>1, <1>5, PushTyped
  <2>3. QED
    BY <2>1, <2>2, <1>1, <1>3, CallSet DEF CallTypes
<1>8. QED
  BY <1>6, <1>7

LEMMA RefuseTyped ==
    ASSUME FeedTypeOK, NEW k \in Caller, call[k].todo # <<>>, RefuseCall(k)
    PROVE  CallTypes'
<1>1. mgr \in ManagerState /\ socket \in [up : BOOLEAN, msgs : Seq(Update)]
      /\ mgr' = mgr /\ socket' = socket
  BY DEF FeedTypeOK, ManagerState, Update, RefuseCall
<1>2. PICK c : c = IF k = "poll" THEN NextSide(k) ELSE NoCall
  OBVIOUS
<1>3. c \in CallState /\ c.pc = "idle" /\ call' = [call EXCEPT ![k] = c]
  <2>1. Tail(call[k].todo) \in Todo
    BY CallTyped, TodoTyped
  <2>2. QED
    BY <2>1, <1>2, IdleTyped DEF NextSide, RefuseCall
<1>4. QED
  BY <1>1, <1>3, CallSet DEF CallTypes

LEMMA FallBackTyped ==
    ASSUME FeedTypeOK, NEW k \in Caller, call[k].todo # <<>>, NEW x \in Side,
           NEW e \in Entry \cup {None}, FallBack(k, x, e)
    PROVE  CallTypes'
<1>1. CASE e # None
  <2>1. PICK f : f = Failsafe(e)
    OBVIOUS
  <2>2. f \in Entry
    <3>1. e \in Entry
      BY <1>1
    <3>2. QED
      BY <2>1, <3>1 DEF Failsafe, Entry
  <2>3. AnswerCall(k, x, f)
    BY <2>1, <1>1 DEF FallBack
  <2>4. QED
    BY <2>2, <2>3, AnswerTyped
<1>2. CASE e = None
  BY <1>2, RefuseTyped DEF FallBack
<1>3. QED
  BY <1>1, <1>2

LEMMA UseFeedTyped ==
    ASSUME FeedTypeOK, NEW b \in DOMAIN FeedBounds, UseFeed(b)
    PROVE  used' \in [DOMAIN FeedBounds -> Nat]
BY DEF FeedTypeOK, UseFeed

\* A step of a call: what it leaves alone keeps its type.
LEMMA CallStepTyped ==
    ASSUME FeedTypeOK, CallTypes', script' = script, doc' = doc, bus' = bus,
           cache' \in [Side -> Entry \cup {None}], breaker' \in [failures : Nat, open : BOOLEAN],
           used' \in [DOMAIN FeedBounds -> Nat]
    PROVE  FeedTypeOK'
BY DEF FeedTypeOK, CallTypes, ManagerState, Update

LEMMA AskTyped ==
    ASSUME FeedTypeOK, NEW k \in Caller, AskActivation(k) PROVE FeedTypeOK'
<1>1. PICK x : x = Head(call[k].todo)
  OBVIOUS
<1>2. /\ call[k].todo # <<>> /\ x \in Side /\ cache[x] \in Entry \cup {None}
      /\ script' = script /\ doc' = doc /\ bus' = bus /\ cache' = cache
      /\ breaker' = breaker /\ used' = used
  BY <1>1, CallTyped, TodoTyped DEF AskActivation, FeedTypeOK
<1>3. CallTypes'
  <2>1. CASE breaker.open
    BY <2>1, <1>1, <1>2, FallBackTyped DEF AskActivation
  <2>2. CASE ~breaker.open
    <3>1. PICK c : c = [call[k] EXCEPT !.pc = "sent", !.cached = cache[x]]
      OBVIOUS
    <3>2. c \in CallState /\ c.todo # <<>>
      BY <3>1, <1>2, CallTyped DEF CallState
    <3>3. call' = [call EXCEPT ![k] = c] /\ socket' = socket /\ mgr' = mgr
      BY <3>1, <2>2, <1>1 DEF AskActivation
    <3>4. QED
      BY <3>2, <3>3, CallSet DEF CallTypes, FeedTypeOK, ManagerState, Update
  <2>3. QED
    BY <2>1, <2>2
<1>4. QED
  BY <1>2, <1>3, CallStepTyped DEF FeedTypeOK

LEMMA ServeTyped ==
    ASSUME FeedTypeOK, NEW k \in Caller, ServeActivation(k) PROVE FeedTypeOK'
<1>1. PICK x : x = Head(call[k].todo)
  OBVIOUS
<1>2. call[k].todo # <<>> /\ x \in Side
  BY <1>1, CallTyped, TodoTyped DEF ServeActivation, CallAt
<1>3. doc.entry[Own][x] \in Entry \cup {None}
  BY <1>2, FeedConstants DEF FeedTypeOK
<1>4. PICK c : c = [call[k] EXCEPT !.pc = "answered", !.answer = doc.entry[Own][x]]
  OBVIOUS
<1>5. c \in CallState /\ c.todo # <<>>
  BY <1>2, <1>3, <1>4, CallTyped DEF CallState
<1>6. /\ call' = [call EXCEPT ![k] = c] /\ socket' = socket /\ mgr' = mgr
      /\ script' = script /\ doc' = doc /\ bus' = bus /\ cache' = cache
      /\ breaker' = breaker /\ used' = used
  BY <1>1, <1>4 DEF ServeActivation
<1>7. CallTypes'
  BY <1>5, <1>6, CallSet DEF CallTypes, FeedTypeOK, ManagerState, Update
<1>8. QED
  BY <1>6, <1>7, CallStepTyped DEF FeedTypeOK

LEMMA ReturnTyped ==
    ASSUME FeedTypeOK, NEW k \in Caller, ReturnActivation(k) PROVE FeedTypeOK'
<1>1. PICK x, e : x = Head(call[k].todo) /\ e = call[k].answer
  OBVIOUS
<1>2. /\ call[k].todo # <<>> /\ x \in Side /\ e \in Entry \cup {None}
      /\ script' = script /\ doc' = doc /\ bus' = bus /\ used' = used
  BY <1>1, CallTyped, TodoTyped DEF ReturnActivation, CallAt
<1>3. breaker' \in [failures : Nat, open : BOOLEAN]
  BY DEF ReturnActivation, BreakerReset
<1>4. CallTypes' /\ cache' \in [Side -> Entry \cup {None}]
  <2>1. CASE e = None
    BY <2>1, <1>1, <1>2, RefuseTyped DEF ReturnActivation, FeedTypeOK
  <2>2. CASE e # None
    <3>1. e \in Entry /\ AnswerCall(k, x, e) /\ cache' = [cache EXCEPT ![x] = e]
      BY <2>2, <1>1, <1>2 DEF ReturnActivation
    <3>2. cache \in [Side -> Entry \cup {None}]
      BY DEF FeedTypeOK
    <3>3. QED
      BY <3>1, <3>2, <1>2, AnswerTyped
  <2>3. QED
    BY <2>1, <2>2
<1>5. used' \in [DOMAIN FeedBounds -> Nat]
  BY <1>2 DEF FeedTypeOK
<1>6. QED
  BY <1>2, <1>3, <1>4, <1>5, CallStepTyped

LEMMA OutageTyped ==
    ASSUME FeedTypeOK, NEW k \in Caller, LoseRequest(k) \/ AnswerUnwell(k) PROVE FeedTypeOK'
<1>1. PICK x, e : x = Head(call[k].todo) /\ e = call[k].cached
  OBVIOUS
<1>2. /\ call[k].todo # <<>> /\ x \in Side /\ e \in Entry \cup {None}
      /\ script' = script /\ doc' = doc /\ bus' = bus /\ cache' = cache
      /\ FallBack(k, x, e) /\ UseFeed("outages")
  BY <1>1, CallTyped, TodoTyped DEF LoseRequest, AnswerUnwell, CallAt
<1>3. breaker' \in [failures : Nat, open : BOOLEAN]
  <2>1. CASE LoseRequest(k)
    <3>1. PICK n, b : n = breaker.failures + 1
                      /\ b = (breaker.open \/ breaker.failures + 1 >= MaxFailures)
      OBVIOUS
    <3>2. breaker.failures \in Nat /\ n \in Nat
      BY <3>1 DEF FeedTypeOK
    <3>3. b \in BOOLEAN
      BY <3>1, Zenon
    <3>4. breaker' = [failures |-> n, open |-> b]
      BY <2>1, <3>1, Zenon DEF LoseRequest
    <3>5. QED
      BY <3>2, <3>3, <3>4
  <2>2. CASE AnswerUnwell(k)
    BY <2>2 DEF AnswerUnwell, BreakerReset
  <2>3. QED
    BY <2>1, <2>2
<1>4. CallTypes'
  BY <1>2, FallBackTyped
<1>5. used' \in [DOMAIN FeedBounds -> Nat]
  BY <1>2, UseFeedTyped DEF FeedBounds
<1>6. cache' \in [Side -> Entry \cup {None}]
  BY <1>2 DEF FeedTypeOK
<1>7. QED
  BY <1>2, <1>3, <1>4, <1>5, <1>6, CallStepTyped

LEMMA WriteTyped ==
    ASSUME FeedTypeOK, WriteEntry PROVE FeedTypeOK'
<1>1. script \in Seq(Strategy \X Side \X Entry) /\ script # <<>>
  BY DEF FeedTypeOK, WriteEntry
<1>2. PICK s, x, e : s = Head(script)[1] /\ x = Head(script)[2] /\ e = Head(script)[3]
  OBVIOUS
<1>3. s \in Strategy /\ x \in Side /\ e \in Entry /\ script' \in Seq(Strategy \X Side \X Entry)
  <2>1. PICK T : T = Strategy \X Side \X Entry
    OBVIOUS
  <2>2. script \in Seq(T)
    BY <2>1, <1>1
  <2>3. Head(script) \in T /\ Tail(script) \in Seq(T)
    BY <2>2, <1>1
  <2>4. QED
    BY <2>1, <2>3, <1>2 DEF WriteEntry
<1>4. PICK v, f : v = doc.ver + 1 /\ f = [doc.entry EXCEPT ![s][x] = e]
  OBVIOUS
<1>5. doc.ver \in Nat /\ doc.entry \in [Strategy -> [Side -> Entry \cup {None}]]
  BY DEF FeedTypeOK
<1>6. v \in Nat
  BY <1>4, <1>5
<1>7. f \in [Strategy -> [Side -> Entry \cup {None}]]
  <2>1. PICK g : g = [doc.entry[s] EXCEPT ![x] = e]
    OBVIOUS
  <2>2. doc.entry[s] \in [Side -> Entry \cup {None}]
    BY <1>3, <1>5
  <2>3. g \in [Side -> Entry \cup {None}]
    BY <2>1, <2>2, <1>3
  <2>4. f = [doc.entry EXCEPT ![s] = g]
    BY <2>1, <1>4
  <2>5. QED
    BY <2>3, <2>4, <1>5
<1>8. doc' \in [ver : Nat, entry : [Strategy -> [Side -> Entry \cup {None}]]]
  <2>1. doc' = [ver |-> v, entry |-> f]
    BY <1>2, <1>4 DEF WriteEntry
  <2>2. QED
    BY <2>1, <1>6, <1>7
<1>9. bus' \in Seq([ver : Nat, side : Side, entry : Entry])
  <2>1. PICK b, T : b = [ver |-> v, side |-> x, entry |-> e]
                    /\ T = [ver : Nat, side : Side, entry : Entry]
    OBVIOUS
  <2>2. b \in T
    BY <2>1, <1>3, <1>6
  <2>3. bus \in Seq(T)
    BY <2>1 DEF FeedTypeOK
  <2>4. bus' = Append(bus, b)
    BY <2>1, <1>2, <1>4 DEF WriteEntry
  <2>5. QED
    BY <2>1, <2>2, <2>3, <2>4
<1>10. /\ cache' = cache /\ breaker' = breaker /\ call' = call /\ socket' = socket
       /\ mgr' = mgr /\ used' = used
  BY DEF WriteEntry
<1>11. QED
  BY <1>3, <1>8, <1>9, <1>10 DEF FeedTypeOK, CallAt

LEMMA RelayTyped ==
    ASSUME FeedTypeOK, RelayEvent PROVE FeedTypeOK'
<1>1. PICK T : T = [ver : Nat, side : Side, entry : Entry]
  OBVIOUS
<1>2. bus \in Seq(T) /\ bus # <<>>
  BY <1>1 DEF FeedTypeOK, RelayEvent
<1>3. Head(bus) \in T /\ Tail(bus) \in Seq(T)
  BY <1>2
<1>4. PICK u : u = [side |-> Head(bus).side, entry |-> Head(bus).entry]
  OBVIOUS
<1>5. u \in Update
  BY <1>1, <1>3, <1>4 DEF Update
<1>6. socket \in [up : BOOLEAN, msgs : Seq(Update)]
  BY DEF FeedTypeOK, Update
<1>7. socket' = socket \/ socket' = [socket EXCEPT !.msgs = Append(socket.msgs, u)]
  BY <1>4 DEF RelayEvent
<1>8. socket' \in [up : BOOLEAN, msgs : Seq(Update)]
  BY <1>5, <1>6, <1>7, PushTyped
<1>9. /\ cache' = cache /\ breaker' = breaker /\ call' = call /\ doc' = doc /\ script' = script
      /\ mgr' = mgr /\ used' = used /\ bus' = Tail(bus)
  BY DEF RelayEvent
<1>10. QED
  BY <1>1, <1>3, <1>8, <1>9 DEF FeedTypeOK, CallAt, Update

\* A new call of a caller, or none.
LEMMA NewCallTyped == NewCall \in CallState /\ NewCall.pc = "idle" /\ NoCall \in CallState /\ NoCall.pc = "idle"
<1>1. Sides \in Todo
  BY DEF Todo
<1>2. QED
  BY <1>1, IdleTyped DEF NewCall

LEMMA ManagerTyped ==
    ASSUME FeedTypeOK, StartManager \/ SubscribeEvents \/ PollActivation PROVE FeedTypeOK'
<1>1. /\ script' = script /\ doc' = doc /\ bus' = bus /\ cache' = cache /\ breaker' = breaker
      /\ socket' = socket
  BY DEF StartManager, SubscribeEvents, PollActivation
<1>2. mgr' \in ManagerState
  <2>1. mgr \in ManagerState
    BY DEF FeedTypeOK, ManagerState
  <2>2. mgr' = mgr \/ \E q \in {"reconcile", "running", "denied"} : mgr' = [mgr EXCEPT !.pc = q]
    BY DEF StartManager, SubscribeEvents, PollActivation
  <2>3. ASSUME NEW q \in {"reconcile", "running", "denied"}
        PROVE  [mgr EXCEPT !.pc = q] \in ManagerState
    BY <2>1 DEF ManagerState
  <2>4. QED
    BY <2>1, <2>2, <2>3
<1>3. used' \in [DOMAIN FeedBounds -> Nat]
  <2>1. used' = used \/ UseFeed("denials")
    BY DEF StartManager, SubscribeEvents, PollActivation
  <2>2. QED
    BY <2>1, UseFeedTyped DEF FeedTypeOK, FeedBounds
<1>4. /\ call' \in [Caller -> CallState]
      /\ \A k \in Caller : ~CallAt(k, "idle")' => call'[k].todo # <<>>
  <2>1. call' = call \/ call' = [call EXCEPT !["poll"] = NewCall]
    BY DEF StartManager, SubscribeEvents, PollActivation
  <2>2. CASE call' = call
    BY <2>2 DEF FeedTypeOK, CallAt
  <2>3. CASE call' = [call EXCEPT !["poll"] = NewCall]
    BY <2>3, NewCallTyped, CallSet DEF Caller
  <2>4. QED
    BY <2>1, <2>2, <2>3
<1>5. CallTypes'
  BY <1>1, <1>2, <1>4 DEF CallTypes, FeedTypeOK, Update
<1>6. QED
  BY <1>1, <1>3, <1>5, CallStepTyped DEF FeedTypeOK

LEMMA SocketTyped ==
    ASSUME FeedTypeOK, ConnectSocket \/ LoseSocket \/ ReceiveUpdate PROVE FeedTypeOK'
<1>1. /\ script' = script /\ doc' = doc /\ bus' = bus /\ cache' = cache /\ breaker' = breaker
  BY DEF ConnectSocket, LoseSocket, ReceiveUpdate
<1>2. used' \in [DOMAIN FeedBounds -> Nat]
  <2>1. used' = used \/ UseFeed("disconnects")
    BY DEF ConnectSocket, LoseSocket, ReceiveUpdate
  <2>2. QED
    BY <2>1, UseFeedTyped DEF FeedTypeOK, FeedBounds
<1>3. mgr \in ManagerState /\ socket \in [up : BOOLEAN, msgs : Seq(Update)]
  BY DEF FeedTypeOK, ManagerState, Update
<1>4. CallTypes'
  <2>1. CASE ConnectSocket \/ LoseSocket
    <3>1. mgr' = mgr /\ (\E up \in BOOLEAN : socket' = [up |-> up, msgs |-> <<>>])
          /\ \E c \in {NewCall, NoCall} : call' = [call EXCEPT !["snap"] = c]
      BY <2>1 DEF ConnectSocket, LoseSocket
    <3>2. socket' \in [up : BOOLEAN, msgs : Seq(Update)]
      BY <3>1
    <3>3. QED
      BY <3>1, <3>2, <1>3, NewCallTyped, CallSet DEF CallTypes, Caller
  <2>2. CASE ReceiveUpdate
    <3>1. socket.msgs \in Seq(Update) /\ socket.msgs # <<>>
      BY <2>2, <1>3 DEF ReceiveUpdate
    <3>2. PICK T, q : T = Update /\ q = Tail(socket.msgs)
      OBVIOUS
    <3>3. socket.msgs \in Seq(T)
      BY <3>1, <3>2
    <3>4. Head(socket.msgs) \in T /\ q \in Seq(T)
      BY <3>1, <3>2, <3>3
    <3>5. Head(socket.msgs).side \in Side /\ Head(socket.msgs).entry \in Entry
      BY <3>2, <3>4 DEF Update
    <3>6. mgr' \in ManagerState
      BY <3>5, <1>3, <2>2, AppliedTyped DEF ReceiveUpdate
    <3>7. socket' \in [up : BOOLEAN, msgs : Seq(Update)]
      <4>1. socket' = [socket EXCEPT !.msgs = q]
        BY <3>2, <2>2 DEF ReceiveUpdate
      <4>2. QED
        BY <4>1, <3>2, <3>4, <1>3
    <3>8. call' = call
      BY <2>2 DEF ReceiveUpdate
    <3>9. QED
      BY <3>6, <3>7, <3>8 DEF CallTypes, FeedTypeOK, CallAt
  <2>3. QED
    BY <2>1, <2>2
<1>5. QED
  BY <1>1, <1>2, <1>4, CallStepTyped DEF FeedTypeOK

LEMMA FeedStepTyped ==
    ASSUME FeedTypeOK, [FeedNext]_feedVars PROVE FeedTypeOK'
<1>1. ASSUME UNCHANGED feedVars PROVE FeedTypeOK'
  BY <1>1 DEF feedVars, FeedTypeOK, CallAt
<1>2. QED
  BY <1>1, WriteTyped, RelayTyped, ManagerTyped, SocketTyped, AskTyped, ServeTyped, ReturnTyped,
     OutageTyped DEF FeedNext, CallStep

LEMMA FeedInitTyped == ASSUME FeedInit PROVE FeedTypeOK
<1>1. script \in Seq(Strategy \X Side \X Entry)
  BY FeedConstants DEF FeedInit
<1>2. doc \in [ver : Nat, entry : [Strategy -> [Side -> Entry \cup {None}]]]
  BY DEF FeedInit
<1>3. cache \in [Side -> Entry \cup {None}]
  BY DEF FeedInit
<1>4. call \in [Caller -> CallState] /\ \A k \in Caller : call[k] = NoCall
  BY NewCallTyped DEF FeedInit
<1>5. mgr \in ManagerState
  BY DEF FeedInit, ManagerState, Entry
<1>6. used \in [DOMAIN FeedBounds -> Nat]
  BY DEF FeedInit
<1>7. /\ bus = <<>> /\ breaker = [failures |-> 0, open |-> FALSE]
      /\ socket = [up |-> FALSE, msgs |-> <<>>]
  BY DEF FeedInit
<1>8. QED
  BY <1>1, <1>2, <1>3, <1>4, <1>5, <1>6, <1>7, NewCallTyped DEF FeedTypeOK, ManagerState, CallAt
-----------------------------------------------------------------------------
(* The hub and the feed side by side *)

\* A full queue loses the oldest events and only those, and every variable of the hub and
\* of the feed has its type (EventDispatcher.enqueue, ActivationManager).
THEOREM PushQueuesSafe == PushSpec => []QueuesSafe
<1> DEFINE Inv == FeedTypeOK /\ HubInv
<1>1. PushInit => Inv
  BY FeedInitTyped, HubInitInv DEF PushInit
<1>2. Inv /\ [PushNext]_<<feedVars, hubVars, part>> => Inv'
  <2> SUFFICES ASSUME FeedTypeOK, HubInv, [PushNext]_<<feedVars, hubVars, part>>
               PROVE  FeedTypeOK' /\ HubInv'
    OBVIOUS
  <2>1. [FeedNext]_feedVars /\ [HubNext]_hubVars
    BY DEF PushNext
  <2>2. QED
    BY <2>1, FeedStepTyped, HubStepInv
<1>3. Inv => QueuesSafe
  BY DEF HubInv, QueuesSafe
<1> HIDE DEF Inv
<1>4. QED
  BY <1>1, <1>2, <1>3, PTL DEF PushSpec

-----------------------------------------------------------------------------
(* The relay: what holds at any time *)

Of(i, r) == i \in DOMAIN log /\ log[i].run = r /\ log[i].seq > 0

GoodState(s, r) == s \in SequenceState /\ \A i \in s.buf : Of(i, r)

\* Whatever happens, the state of a run holds back its own sequences, a drain works on a
\* run that has a state, and a gap is timed.
HeldInv ==
    /\ RelayTypeOK
    /\ \A r \in Run : seqs[r] # None => GoodState(seqs[r], r)
    /\ \A t \in Task : frame[t] # None =>
         log[frame[t]].seq > 0 /\ log[frame[t]].run \in Run /\ seqs[log[frame[t]].run] # None
    /\ GapIsTimed

\* A message in hand is the expected one of its run, and the tasks drain different runs.
InHandInv ==
    /\ \A t \in Task : frame[t] # None =>
         frame[t] <= pos /\ log[frame[t]].seq = seqs[log[frame[t]].run].next
    /\ frame["broker"] # None /\ frame["worker"] # None
         => log[frame["broker"]].run # log[frame["worker"]].run

\* What is held back is ahead, came after a gap, and is there once.
AheadInv ==
    /\ \A r \in Run : seqs[r] # None =>
         /\ seqs[r].next > 0
         /\ \A i \in seqs[r].buf :
              /\ i <= pos /\ log[i].seq > seqs[r].next /\ ~Steady(i)
              /\ \A j \in seqs[r].buf : log[j].seq = log[i].seq => i = j
    /\ frame["worker"] # None => ~Steady(frame["worker"])

\* What came in turn is handled or in the hands of the broker task.
SteadyInv ==
    \A i \in 1..pos : log[i].seq > 0 =>
        /\ seqs[log[i].run] # None
        /\ Steady(i) =>
             /\ log[i].seq <= seqs[log[i].run].next
             /\ log[i].seq = seqs[log[i].run].next =>
                  frame["broker"] # None /\ log[frame["broker"]].run = log[i].run

\* No timeout is due for a run that the broker task drains.
TokenInv ==
    /\ \A k \in DOMAIN timeouts :
         seqs[timeouts[k].run] # None /\ timeouts[k].token <= seqs[timeouts[k].run].token
    /\ frame["broker"] # None =>
         LET r == log[frame["broker"]].run IN
         /\ seqs[r].timer # "pending"
         /\ \A k \in DOMAIN timeouts : timeouts[k] # [run |-> r, token |-> seqs[r].token]

\* The last delivery and the acknowledgements of a run are behind the expected sequence,
\* but for a delivery in progress.
BehindInv ==
    /\ last # None /\ last.by = "sequence" =>
         /\ last.run \in Run /\ seqs[last.run] # None
         /\ last.id <= seqs[last.run].next
         /\ last.id = seqs[last.run].next => Draining(last.run)
    /\ \A k \in DOMAIN acks :
         seqs[acks[k].run] # None /\ acks[k].seq < seqs[acks[k].run].next

\* The expected sequence is next to one that was read.
ReachInv ==
    \A r \in Run : seqs[r] # None =>
        \E m \in 1..pos : Of(m, r) /\ seqs[r].next <= log[m].seq + 1

Handled(i) == \E l \in DOMAIN handled : SameSequence(handled[l], i)

Kept(i) ==
    \/ \E j \in seqs[log[i].run].buf : SameSequence(j, i)
    \/ \E t \in Task : frame[t] # None /\ SameSequence(frame[t], i)

\* What was read and is not late is handled, held back or in hand.
KeptInv ==
    \A i \in 1..pos : log[i].seq > 0 /\ ~Late(i) => Handled(i) \/ Kept(i)

OnceInv ==
    /\ InHandInv /\ AheadInv /\ SteadyInv /\ TokenInv /\ BehindInv /\ ReachInv /\ KeptInv
    /\ AcksMonotonic /\ NoOvertakingInRun

RelayInv == HeldInv /\ (DeliveredOnce => OnceInv)

LEMMA LeastOf ==
    ASSUME NEW T, T \subseteq Nat, T # {}
    PROVE  \E x \in T : \A y \in T : x <= y
<1> DEFINE R == OpToRel(<, Nat)
<1>1. IsWellFoundedOn(R, Nat)
  BY NatLessThanWellFounded
<1>2. \A x, y \in Nat : y < x => <<y, x>> \in R
  BY DEF OpToRel
<1> HIDE DEF R
<1>3. PICK x \in T : \A y \in T : ~ (<<y, x>> \in R)
  BY <1>1, WFMin
<1>4. ASSUME NEW y \in T PROVE x <= y
  <2>1. x \in Nat /\ y \in Nat /\ ~ (<<y, x>> \in R)
    BY <1>3
  <2>2. ~ (y < x)
    BY <2>1, <1>2
  <2>3. QED
    BY <2>1, <2>2
<1>5. QED
  BY <1>3, <1>4

\* The messages of the partition.
LEMMA LogTyped ==
    ASSUME RelayTypeOK
    PROVE  /\ log \in Seq(Message) /\ Len(log) \in Nat /\ DOMAIN log = 1..Len(log)
           /\ \A i \in DOMAIN log :
                /\ log[i].run \in Run \cup {None} /\ log[i].seq \in Nat /\ log[i].ver \in Nat
                /\ log[i].seq > 0 => log[i].run \in Run
                /\ Marker(i) \in MarkerState
                /\ log[i].seq > 0 => Marker(i) = [run |-> log[i].run, id |-> log[i].seq, by |-> "sequence"]
                /\ log[i].seq = 0 => Marker(i).by = "etag"
<1>1. log \in Seq(Message) /\ (\A i \in DOMAIN log : log[i].seq > 0 => log[i].run \in Run)
  BY RelayConstants DEF RelayTypeOK
<1>2. Len(log) \in Nat /\ DOMAIN log = 1..Len(log)
  BY <1>1
<1>3. ASSUME NEW i \in DOMAIN log
      PROVE  log[i].run \in Run \cup {None} /\ log[i].seq \in Nat /\ log[i].ver \in Nat
  <2>1. log[i] \in Message
    BY <1>1
  <2>2. QED
    BY <2>1 DEF Message
<1>4. ASSUME NEW i \in DOMAIN log
      PROVE  /\ Marker(i) \in MarkerState
             /\ log[i].seq > 0 => Marker(i) = [run |-> log[i].run, id |-> log[i].seq, by |-> "sequence"]
             /\ log[i].seq = 0 => Marker(i).by = "etag"
  BY <1>3 DEF Marker, MarkerState
<1>5. QED
  BY <1>1, <1>2, <1>3, <1>4

\* What a task leaves behind for a run, when it goes on with a message or rests.
Going(o, r) ==
    /\ GoodState(o.st, r)
    /\ o.msg \in DOMAIN log \cup {None} /\ (o.msg # None => Of(o.msg, r))
    /\ o.mark \in MarkerState \cup {None}
    /\ o.msg = None => o.st.buf = {} \/ o.st.timer = "pending"

LEMMA ScheduledGood ==
    ASSUME NEW r \in Run, NEW s, GoodState(s, r)
    PROVE  GoodState(Scheduled(s), r) /\ Scheduled(s).timer = "pending"
           /\ Scheduled(s).buf = s.buf /\ Scheduled(s).next = s.next
<1>1. /\ s.next \in Nat /\ s.buf \in SUBSET Nat /\ s.timer \in {"none", "pending", "done"}
      /\ s.token \in Nat /\ s = [next |-> s.next, buf |-> s.buf, timer |-> s.timer, token |-> s.token]
  BY DEF GoodState, SequenceState
<1>2. CASE s.timer = "pending"
  BY <1>2 DEF Scheduled
<1>3. CASE s.timer # "pending"
  <2>1. Scheduled(s) = [next |-> s.next, buf |-> s.buf, timer |-> "pending", token |-> s.token + 1]
    BY <1>1, <1>3 DEF Scheduled, SequenceState
  <2>2. Scheduled(s) \in SequenceState
    BY <1>1, <2>1 DEF SequenceState
  <2>3. QED
    BY <2>1, <2>2 DEF GoodState
<1>4. QED
  BY <1>2, <1>3

LEMMA ClearedGood ==
    ASSUME NEW r \in Run, NEW s, GoodState(s, r)
    PROVE  GoodState(Cleared(s), r) /\ Cleared(s).timer = "none"
           /\ Cleared(s).buf = s.buf /\ Cleared(s).next = s.next /\ Cleared(s).token = s.token + 1
<1>1. s \in SequenceState /\ \A i \in s.buf : Of(i, r)
  BY DEF GoodState
<1>2. Cleared(s) \in SequenceState
  <2>1. PICK q : q = s.token + 1
    OBVIOUS
  <2>2. q \in Nat /\ "none" \in {"none", "pending", "done"}
    BY <1>1, <2>1 DEF SequenceState
  <2>3. [s EXCEPT !.timer = "none", !.token = q] \in SequenceState
    BY <1>1, <2>2 DEF SequenceState
  <2>4. QED
    BY <2>1, <2>3 DEF Cleared
<1>3. /\ Cleared(s).timer = "none" /\ Cleared(s).buf = s.buf
      /\ Cleared(s).next = s.next /\ Cleared(s).token = s.token + 1
  BY <1>1 DEF Cleared, SequenceState
<1>4. QED
  BY <1>1, <1>2, <1>3 DEF GoodState

LEMMA RestedGood ==
    ASSUME NEW r \in Run, NEW s, GoodState(s, r)
    PROVE  /\ GoodState(Rested(s), r) /\ Rested(s).buf = s.buf /\ Rested(s).next = s.next
           /\ Rested(s).buf = {} \/ Rested(s).timer = "pending"
BY ScheduledGood, ClearedGood DEF Rested

LEMMA FreshGood ==
    ASSUME RelayTypeOK, NEW r \in Run, NEW s, GoodState(s, r), NEW q \in Nat
    PROVE  Going(ResumedFresh(s, q), r)
<1>1. PICK t : t = [s EXCEPT !.next = q + 1]
  OBVIOUS
<1>2. GoodState(t, r)
  BY <1>1 DEF GoodState, SequenceState
<1>3. CASE AtNext(t) = {}
  <2>1. ResumedFresh(s, q) = Outcome(Rested(t), None, last)
    BY <1>1, <1>3 DEF ResumedFresh
  <2>2. QED
    BY <2>1, <1>2, RestedGood DEF Going, Outcome, RelayTypeOK
<1>4. CASE AtNext(t) # {}
  <2>1. PICK i : i = CHOOSE j \in AtNext(t) : TRUE
    OBVIOUS
  <2>2. i \in AtNext(t)
    BY <2>1, <1>4
  <2>3. i \in t.buf /\ Of(i, r)
    BY <2>2, <1>2 DEF AtNext, GoodState
  <2>4. ResumedFresh(s, q) = Outcome(Popped(t, i), i, Marker(i))
    BY <1>1, <1>4, <2>1 DEF ResumedFresh
  <2>5. GoodState(Popped(t, i), r)
    BY <1>2, <2>3 DEF GoodState, SequenceState, Popped
  <2>6. i # None
    BY <2>3, LogTyped, RelayConstants DEF Of
  <2>7. QED
    BY <2>3, <2>4, <2>5, <2>6, LogTyped DEF Going, Outcome, Of
<1>5. QED
  BY <1>3, <1>4

LEMMA DeliveredGood ==
    ASSUME RelayTypeOK, NEW r \in Run, NEW s, GoodState(s, r), NEW i, Of(i, r)
    PROVE  Going(Delivered(s, i, last), r)
<1>1. CASE last = Marker(i)
  BY <1>1, FreshGood, LogTyped DEF Delivered, Of
<1>2. CASE last # Marker(i)
  <2>1. i # None
    BY LogTyped, RelayConstants DEF Of
  <2>2. QED
    BY <1>2, <2>1, LogTyped DEF Delivered, Going, Outcome, Of
<1>3. QED
  BY <1>1, <1>2

LEMMA ResumedGood ==
    ASSUME RelayTypeOK, NEW r \in Run, NEW s, GoodState(s, r), NEW i, Of(i, r)
    PROVE  Going(Resumed(s, i), r)
<1>1. PICK t : t = [s EXCEPT !.next = log[i].seq + 1]
  OBVIOUS
<1>2. GoodState(t, r)
  <2>1. log[i].seq + 1 \in Nat
    BY LogTyped DEF Of
  <2>2. t \in SequenceState /\ t.buf = s.buf
    BY <1>1, <2>1 DEF GoodState, SequenceState
  <2>3. QED
    BY <2>2 DEF GoodState
<1>3. CASE AtNext(t) = {}
  <2>1. Resumed(s, i) = Outcome(Rested(t), None, last)
    BY <1>1, <1>3 DEF Resumed
  <2>2. QED
    BY <2>1, <1>2, RestedGood DEF Going, Outcome, RelayTypeOK
<1>4. CASE AtNext(t) # {}
  <2>1. PICK j : j = CHOOSE k \in AtNext(t) : TRUE
    OBVIOUS
  <2>2. j \in AtNext(t)
    BY <2>1, <1>4
  <2>3. j \in t.buf /\ Of(j, r)
    BY <2>2, <1>2 DEF AtNext, GoodState
  <2>4. Resumed(s, i) = Delivered(Popped(t, j), j, last)
    BY <1>1, <1>4, <2>1 DEF Resumed
  <2>5. GoodState(Popped(t, j), r)
    BY <1>2, <2>3 DEF GoodState, SequenceState, Popped
  <2>6. QED
    BY <2>3, <2>4, <2>5, DeliveredGood
<1>5. QED
  BY <1>3, <1>4

LEMMA TimedOutGood ==
    ASSUME RelayTypeOK, NEW r \in Run, NEW s, GoodState(s, r), s.buf # {}
    PROVE  Going(TimedOut(s), r)
<1>1. PICK low : low = Lowest(s)
  OBVIOUS
<1>2. BufferedSeqs(s) \subseteq Nat /\ BufferedSeqs(s) # {}
  BY LogTyped DEF BufferedSeqs, GoodState, Of
<1>3. low \in Nat
  BY <1>1, <1>2, LeastOf DEF Lowest
<1>4. PICK t : t = [s EXCEPT !.timer = "none", !.next = IF low > s.next THEN low ELSE s.next]
  OBVIOUS
<1>5. GoodState(t, r)
  BY <1>3, <1>4 DEF GoodState, SequenceState
<1>6. CASE AtNext(t) = {}
  <2>1. TimedOut(s) = Outcome(Scheduled(t), None, last)
    BY <1>1, <1>4, <1>6 DEF TimedOut
  <2>2. QED
    BY <2>1, <1>5, ScheduledGood DEF Going, Outcome, RelayTypeOK
<1>7. CASE AtNext(t) # {}
  <2>1. PICK j : j = CHOOSE k \in AtNext(t) : TRUE
    OBVIOUS
  <2>2. j \in AtNext(t)
    BY <2>1, <1>7
  <2>3. j \in t.buf /\ Of(j, r)
    BY <2>2, <1>5 DEF AtNext, GoodState
  <2>4. TimedOut(s) = Delivered(Popped(t, j), j, last)
    BY <1>1, <1>4, <1>7, <2>1 DEF TimedOut
  <2>5. GoodState(Popped(t, j), r)
    BY <1>5, <2>3 DEF GoodState, SequenceState, Popped
  <2>6. QED
    BY <2>3, <2>4, <2>5, DeliveredGood
<1>8. QED
  BY <1>6, <1>7

\* The types of what Carry leaves alone.
RestTypeOK ==
    /\ log \in Logs
    /\ pos \in 0..Len(log) /\ committed \in 0..Len(log)
    /\ timeouts \in Seq([run : Run, token : Nat])
    /\ handled \in Seq(DOMAIN log)
    /\ acks \in Seq([run : Run, seq : Nat])
    /\ commitFails \in 0..MaxCommitFails /\ reconnects \in 0..MaxReconnects
    /\ restarts \in 0..MaxRestarts /\ ackFails \in 0..MaxAckFails

\* The timeouts of the other runs are still in the queue.
OthersStay(r) ==
    \A x \in Run \ {r}, k \in DOMAIN timeouts : timeouts[k].run = x =>
        \E l \in DOMAIN timeouts' : timeouts'[l] = timeouts[k]

LEMMA StateForGood ==
    ASSUME HeldInv, NEW i \in DOMAIN log, log[i].seq > 0
    PROVE  /\ log[i].run \in Run /\ Of(i, log[i].run)
           /\ GoodState(StateFor(i), log[i].run)
           /\ seqs[log[i].run] # None => StateFor(i) = seqs[log[i].run]
           /\ seqs[log[i].run] = None =>
                /\ StateFor(i).next = log[i].seq /\ StateFor(i).buf = {}
                /\ StateFor(i).timer = "none" /\ StateFor(i).token = 0
<1>1. log[i].run \in Run /\ log[i].seq \in Nat /\ Of(i, log[i].run)
  BY LogTyped DEF HeldInv, Of
<1>2. CASE seqs[log[i].run] # None
  BY <1>1, <1>2 DEF StateFor, HeldInv
<1>3. CASE seqs[log[i].run] = None
  <2>1. StateFor(i) = [next |-> log[i].seq, buf |-> {}, timer |-> "none", token |-> 0]
    BY <1>3 DEF StateFor
  <2>2. StateFor(i) \in SequenceState /\ StateFor(i).buf = {}
    BY <2>1, <1>1 DEF SequenceState
  <2>3. QED
    BY <1>1, <1>3, <2>1, <2>2 DEF GoodState
<1>4. QED
  BY <1>1, <1>2, <1>3

LEMMA CarryHeld ==
    ASSUME HeldInv, RestTypeOK', log' = log,
           NEW t \in Task, NEW r \in Run, NEW o, Going(o, r), Carry(t, r, o),
           frame[t] = None \/ log[frame[t]].run = r,
           OthersStay(r)
    PROVE  HeldInv'
<1>1. RelayTypeOK /\ o.st \in SequenceState /\ o.st # None
  BY RelayConstants DEF HeldInv, Going, GoodState
<1>2. /\ seqs' = [seqs EXCEPT ![r] = o.st] /\ frame' = [frame EXCEPT ![t] = o.msg]
      /\ seqs \in [Run -> SequenceState \cup {None}] /\ frame \in [Task -> DOMAIN log \cup {None}]
      /\ seqs'[r] = o.st /\ frame'[t] = o.msg
      /\ \A x \in Run : x # r => seqs'[x] = seqs[x]
      /\ \A u \in Task : u # t => frame'[u] = frame[u]
  BY <1>1 DEF Carry, RelayTypeOK
<1>3. RelayTypeOK'
  <2>1. seqs' \in [Run -> SequenceState \cup {None}]
    BY <1>1, <1>2
  <2>2. frame' \in [Task -> DOMAIN log \cup {None}]
    BY <1>2 DEF Going
  <2>3. last' \in MarkerState \cup {None}
    BY DEF Carry, Going
  <2>4. QED
    BY <2>1, <2>2, <2>3 DEF RelayTypeOK, RestTypeOK
<1>4. \A x, i : GoodState(i, x)' <=> GoodState(i, x)
  BY DEF GoodState, Of
<1>5. ASSUME NEW x \in Run, seqs'[x] # None
      PROVE  GoodState(seqs'[x], x)
  BY <1>2, <1>5 DEF HeldInv, Going
<1>6. ASSUME NEW u \in Task, frame'[u] # None
      PROVE  log[frame'[u]].seq > 0 /\ log[frame'[u]].run \in Run /\ seqs'[log[frame'[u]].run] # None
  <2>1. CASE u = t
    BY <2>1, <1>1, <1>2, <1>6 DEF Going, Of
  <2>2. CASE u # t
    BY <2>2, <1>1, <1>2, <1>6 DEF HeldInv
  <2>3. QED
    BY <2>1, <2>2
<1>7. GapIsTimed'
  <2> SUFFICES ASSUME NEW x \in Run, seqs'[x] # None, seqs'[x].buf # {},
                      seqs'[x].timer # "pending", ~(Draining(x)')
               PROVE  \E k \in DOMAIN timeouts' : timeouts'[k] = [run |-> x, token |-> seqs'[x].token]
    BY DEF GapIsTimed
  <2>1. x # r
    <3>1. SUFFICES ASSUME x = r PROVE FALSE
      OBVIOUS
    <3>2. o.msg # None
      BY <3>1, <1>2 DEF Going
    <3>3. frame'[t] # None /\ log'[frame'[t]].run = x
      BY <3>1, <3>2, <1>2 DEF Going, Of
    <3>4. QED
      BY <3>3 DEF Draining
  <2>2. ~Draining(x)
    <3>1. ASSUME NEW u \in Task, frame[u] # None, log[frame[u]].run = x PROVE FALSE
      <4>1. u # t
        BY <3>1, <2>1
      <4>2. QED
        BY <4>1, <3>1, <1>2 DEF Draining
    <3>2. QED
      BY <3>1 DEF Draining
  <2>3. PICK k \in DOMAIN timeouts : timeouts[k] = [run |-> x, token |-> seqs[x].token]
    BY <2>1, <2>2, <1>2 DEF HeldInv, GapIsTimed
  <2>4. PICK l \in DOMAIN timeouts' : timeouts'[l] = timeouts[k]
    BY <2>1, <2>3 DEF OthersStay
  <2>5. QED
    BY <2>1, <2>3, <2>4, <1>2
<1>8. QED
  BY <1>3, <1>4, <1>5, <1>6, <1>7 DEF HeldInv

LEMMA SameTimeouts ==
    ASSUME timeouts' = timeouts, NEW r PROVE OthersStay(r)
BY DEF OthersStay

LEMMA CommitTyped ==
    ASSUME RelayTypeOK, NEW done, CommitWhen(done), pos' \in 0..Len(log)
    PROVE  committed' \in 0..Len(log) /\ commitFails' \in 0..MaxCommitFails
BY RelayConstants DEF CommitWhen, RelayTypeOK

\* A message that is read is one of the partition.
LEMMA ReadsNext ==
    ASSUME RelayTypeOK, Reads
    PROVE  /\ pos' \in DOMAIN log /\ pos' \in 0..Len(log) /\ pos' = pos + 1 /\ pos \in Nat
           /\ frame["broker"] = None
BY LogTyped DEF RelayTypeOK, Reads

LEMMA DropHeld ==
    ASSUME HeldInv, DropStale PROVE HeldInv'
<1>1. RelayTypeOK /\ log' = log /\ seqs' = seqs /\ frame' = frame /\ timeouts' = timeouts
  BY DEF HeldInv, DropStale, relayState
<1>2. RelayTypeOK'
  BY <1>1, ReadsNext, CommitTyped DEF DropStale, RelayTypeOK, relayState, out
<1>3. GapIsTimed'
  BY <1>1 DEF HeldInv, GapIsTimed, Draining
<1>4. \A x, i : GoodState(i, x)' <=> GoodState(i, x)
  BY <1>1 DEF GoodState, Of
<1>5. QED
  BY <1>1, <1>2, <1>3, <1>4 DEF HeldInv

LEMMA PlainHeld ==
    ASSUME HeldInv, ReceivePlain PROVE HeldInv'
<1>1. RelayTypeOK /\ log' = log /\ seqs' = seqs /\ frame' = frame /\ timeouts' = timeouts
  BY DEF HeldInv, ReceivePlain
<1>2. pos' \in DOMAIN log /\ pos' \in 0..Len(log)
  BY <1>1, ReadsNext DEF ReceivePlain
<1>3. Marker(pos') \in MarkerState
  BY <1>1, <1>2, LogTyped
<1>4. handled' \in Seq(DOMAIN log)
  <2>1. handled \in Seq(DOMAIN log)
    BY <1>1 DEF RelayTypeOK
  <2>2. Append(handled, pos') \in Seq(DOMAIN log)
    BY <2>1, <1>2
  <2>3. QED
    BY <2>1, <2>2 DEF ReceivePlain
<1>5. RelayTypeOK'
  BY <1>1, <1>2, <1>3, <1>4, CommitTyped DEF ReceivePlain, RelayTypeOK
<1>6. GapIsTimed'
  BY <1>1 DEF HeldInv, GapIsTimed, Draining
<1>7. \A x, i : GoodState(i, x)' <=> GoodState(i, x)
  BY <1>1 DEF GoodState, Of
<1>8. QED
  BY <1>1, <1>5, <1>6, <1>7 DEF HeldInv

\* The state of a run after a message ahead of it has been put into the buffer.
Ahead(s, i) ==
    Scheduled([s EXCEPT !.buf = IF log[i].seq \in BufferedSeqs(s) THEN s.buf ELSE s.buf \cup {i}])

LEMMA AheadGood ==
    ASSUME RelayTypeOK, NEW r \in Run, NEW s, GoodState(s, r), NEW i, Of(i, r)
    PROVE  /\ GoodState(Ahead(s, i), r) /\ Ahead(s, i).timer = "pending"
           /\ Ahead(s, i).next = s.next
           /\ \A j : j \in Ahead(s, i).buf <=>
                j \in s.buf \/ (j = i /\ log[i].seq \notin BufferedSeqs(s))
<1>1. PICK b : b = IF log[i].seq \in BufferedSeqs(s) THEN s.buf ELSE s.buf \cup {i}
  OBVIOUS
<1>2. s \in SequenceState /\ \A j \in s.buf : Of(j, r)
  BY DEF GoodState
<1>3. i \in Nat
  BY LogTyped DEF Of
<1>4. b \in SUBSET Nat /\ \A j \in b : Of(j, r)
  BY <1>1, <1>2, <1>3 DEF SequenceState
<1>5. [s EXCEPT !.buf = b] \in SequenceState
      /\ [s EXCEPT !.buf = b].buf = b /\ [s EXCEPT !.buf = b].next = s.next
  BY <1>2, <1>4 DEF SequenceState
<1>6. GoodState([s EXCEPT !.buf = b], r)
  BY <1>4, <1>5 DEF GoodState
<1>7. Ahead(s, i) = Scheduled([s EXCEPT !.buf = b])
  BY <1>1 DEF Ahead
<1>8. /\ GoodState(Ahead(s, i), r) /\ Ahead(s, i).timer = "pending"
      /\ Ahead(s, i).next = s.next /\ Ahead(s, i).buf = b
  BY <1>5, <1>6, <1>7, ScheduledGood
<1>9. QED
  BY <1>1, <1>8

LEMMA BufferAsCarry ==
    ASSUME HeldInv, BufferAhead
    PROVE  LET r == log[pos'].run IN
           /\ pos' \in DOMAIN log /\ log[pos'].seq > 0 /\ r \in Run
           /\ log[pos'].seq > StateFor(pos').next
           /\ frame["broker"] = None
           /\ Going(Outcome(Ahead(StateFor(pos'), pos'), None, last), r)
           /\ Carry("broker", r, Outcome(Ahead(StateFor(pos'), pos'), None, last))
<1>1. PICK at : at = pos'
  OBVIOUS
<1>2. RelayTypeOK /\ at \in DOMAIN log /\ log[at].seq > 0 /\ frame["broker"] = None
  BY <1>1, ReadsNext DEF HeldInv, BufferAhead
<1>3. log[at].run \in Run /\ Of(at, log[at].run) /\ GoodState(StateFor(at), log[at].run)
  BY <1>2, StateForGood
<1>4. PICK a : a = Ahead(StateFor(at), at)
  OBVIOUS
<1>5. GoodState(a, log[at].run) /\ a.timer = "pending"
  <2>1. PICK rr, ss : rr = log[at].run /\ ss = StateFor(at)
    OBVIOUS
  <2>2. rr \in Run /\ GoodState(ss, rr) /\ Of(at, rr) /\ RelayTypeOK
    BY <1>2, <1>3, <2>1
  <2>3. GoodState(Ahead(ss, at), rr) /\ Ahead(ss, at).timer = "pending"
    BY <2>2, AheadGood
  <2>4. QED
    BY <1>4, <2>1, <2>3
<1>6. Going(Outcome(a, None, last), log[at].run)
  BY <1>2, <1>5 DEF Going, Outcome, RelayTypeOK
<1>7. log[at].seq > StateFor(at).next /\ seqs' = [seqs EXCEPT ![log[at].run] = a]
      /\ last' = last /\ frame' = frame
  BY <1>1, <1>4 DEF BufferAhead, Ahead
<1>8. frame' = [frame EXCEPT !["broker"] = None]
  BY <1>2, <1>7 DEF RelayTypeOK
<1>9. Carry("broker", log[at].run, Outcome(a, None, last))
  BY <1>7, <1>8 DEF Carry, Outcome
<1>10. QED
  BY <1>1, <1>2, <1>3, <1>4, <1>6, <1>7, <1>9

LEMMA BufferHeld ==
    ASSUME HeldInv, BufferAhead PROVE HeldInv'
<1>1. RelayTypeOK /\ log' = log /\ timeouts' = timeouts
  BY DEF HeldInv, BufferAhead
<1>2. RestTypeOK'
  BY <1>1, ReadsNext, CommitTyped DEF BufferAhead, RelayTypeOK, RestTypeOK, out
<1>3. PICK r, o : r = log[pos'].run /\ o = Outcome(Ahead(StateFor(pos'), pos'), None, last)
  OBVIOUS
<1>4. r \in Run /\ Going(o, r) /\ Carry("broker", r, o) /\ frame["broker"] = None
  BY <1>3, BufferAsCarry
<1>5. OthersStay(r)
  BY <1>1, SameTimeouts
<1>6. QED
  BY <1>1, <1>2, <1>4, <1>5, CarryHeld DEF Task

LEMMA ReceiveAsCarry ==
    ASSUME HeldInv, ReceiveNext
    PROVE  LET r == log[pos'].run
               s == Cleared(StateFor(pos'))
           IN
           /\ pos' \in DOMAIN log /\ Of(pos', r) /\ r \in Run
           /\ GoodState(StateFor(pos'), r) /\ GoodState(s, r)
           /\ log[pos'].seq = StateFor(pos').next
           /\ frame["broker"] = None
           /\ Going(Delivered(s, pos', last), r)
           /\ Carry("broker", r, Delivered(s, pos', last))
<1>1. PICK i : i = pos'
  OBVIOUS
<1>2. RelayTypeOK /\ i \in DOMAIN log /\ log[i].seq > 0 /\ frame["broker"] = None
  BY <1>1, ReadsNext DEF HeldInv, ReceiveNext
<1>3. log[i].run \in Run /\ Of(i, log[i].run) /\ GoodState(StateFor(i), log[i].run)
  BY <1>2, StateForGood
<1>4. GoodState(Cleared(StateFor(i)), log[i].run)
  BY <1>3, ClearedGood
<1>5. Going(Delivered(Cleared(StateFor(i)), i, last), log[i].run)
  BY <1>2, <1>3, <1>4, DeliveredGood
<1>6. log[i].seq = StateFor(i).next
      /\ Carry("broker", log[i].run, Delivered(Cleared(StateFor(i)), i, last))
  BY <1>1 DEF ReceiveNext
<1>7. QED
  BY <1>1, <1>2, <1>3, <1>4, <1>5, <1>6

LEMMA ReceiveHeld ==
    ASSUME HeldInv, ReceiveNext PROVE HeldInv'
<1>1. RelayTypeOK /\ log' = log /\ timeouts' = timeouts
  BY DEF HeldInv, ReceiveNext
<1>2. PICK r, o : r = log[pos'].run /\ o = Delivered(Cleared(StateFor(pos')), pos', last)
  OBVIOUS
<1>3. r \in Run /\ Going(o, r) /\ Carry("broker", r, o) /\ frame["broker"] = None
  BY <1>2, ReceiveAsCarry
<1>4. CommitWhen(o.msg = None) /\ Reads
  BY <1>2 DEF ReceiveNext
<1>5. RestTypeOK'
  BY <1>1, <1>4, ReadsNext, CommitTyped DEF ReceiveNext, RelayTypeOK, RestTypeOK, out
<1>6. OthersStay(r)
  BY <1>1, SameTimeouts
<1>7. QED
  BY <1>1, <1>3, <1>5, <1>6, CarryHeld DEF Task

LEMMA AckAsCarry ==
    ASSUME HeldInv, NEW t \in Task, NEW acked \in BOOLEAN, AckDone(t, acked)
    PROVE  LET i == frame[t]
               r == log[i].run
           IN
           /\ i \in DOMAIN log /\ Of(i, r) /\ r \in Run /\ seqs[r] # None /\ GoodState(seqs[r], r)
           /\ Going(Resumed(seqs[r], i), r)
           /\ Carry(t, r, Resumed(seqs[r], i))
<1>1. PICK i : i = frame[t]
  OBVIOUS
<1>2. RelayTypeOK /\ i # None /\ i \in DOMAIN log
  BY <1>1 DEF HeldInv, RelayTypeOK, AckDone
<1>3. log[i].seq > 0 /\ log[i].run \in Run /\ seqs[log[i].run] # None
  BY <1>1, <1>2 DEF HeldInv
<1>4. Of(i, log[i].run) /\ GoodState(seqs[log[i].run], log[i].run)
  BY <1>2, <1>3 DEF Of, HeldInv
<1>5. Going(Resumed(seqs[log[i].run], i), log[i].run)
  BY <1>2, <1>3, <1>4, ResumedGood
<1>6. Carry(t, log[i].run, Resumed(seqs[log[i].run], i))
  BY <1>1 DEF AckDone
<1>7. QED
  BY <1>1, <1>2, <1>3, <1>4, <1>5, <1>6

LEMMA AckHeld ==
    ASSUME HeldInv, NEW t \in Task, NEW acked \in BOOLEAN, AckDone(t, acked) PROVE HeldInv'
<1>1. RelayTypeOK /\ log' = log /\ timeouts' = timeouts /\ pos' = pos
  BY DEF HeldInv, AckDone
<1>2. PICK i, r, o : i = frame[t] /\ r = log[i].run /\ o = Resumed(seqs[r], i)
  OBVIOUS
<1>3. i \in DOMAIN log /\ Of(i, r) /\ r \in Run /\ Going(o, r) /\ Carry(t, r, o)
  BY <1>2, AckAsCarry
<1>4. handled' = Append(handled, i) /\ CommitWhen(t = "broker" /\ o.msg = None)
      /\ acks' = IF acked THEN Append(acks, [run |-> r, seq |-> log[i].seq]) ELSE acks
  BY <1>2 DEF AckDone
<1>5. handled' \in Seq(DOMAIN log)
  <2>1. handled \in Seq(DOMAIN log)
    BY <1>1 DEF RelayTypeOK
  <2>2. QED
    BY <2>1, <1>3, <1>4
<1>6. acks' \in Seq([run : Run, seq : Nat])
  <2>1. acks \in Seq([run : Run, seq : Nat]) /\ [run |-> r, seq |-> log[i].seq] \in [run : Run, seq : Nat]
    BY <1>1, <1>3, LogTyped DEF RelayTypeOK
  <2>2. Append(acks, [run |-> r, seq |-> log[i].seq]) \in Seq([run : Run, seq : Nat])
    BY <2>1
  <2>3. QED
    BY <2>1, <2>2, <1>4
<1>7. committed' \in 0..Len(log) /\ commitFails' \in 0..MaxCommitFails
  BY <1>1, <1>4, CommitTyped DEF RelayTypeOK
<1>8. ackFails' \in 0..MaxAckFails
  BY <1>1, RelayConstants DEF AckDone, RelayTypeOK
<1>9. RestTypeOK'
  BY <1>1, <1>5, <1>6, <1>7, <1>8 DEF AckDone, RelayTypeOK, RestTypeOK
<1>10. OthersStay(r)
  BY <1>1, SameTimeouts
<1>11. QED
  BY <1>1, <1>2, <1>3, <1>9, <1>10, CarryHeld

LEMMA FireHeld ==
    ASSUME HeldInv, NEW r \in Run, Fire(r) PROVE HeldInv'
<1>1. /\ RelayTypeOK /\ log' = log /\ frame' = frame /\ seqs[r] # None /\ seqs[r].timer = "pending"
      /\ seqs' = [seqs EXCEPT ![r].timer = "done"]
      /\ timeouts' = Append(timeouts, [run |-> r, token |-> seqs[r].token])
      /\ timeouts \in Seq([run : Run, token : Nat]) /\ seqs \in [Run -> SequenceState \cup {None}]
  BY DEF HeldInv, Fire, broker, RelayTypeOK
<1>2. seqs[r] \in SequenceState /\ GoodState(seqs[r], r)
  BY <1>1 DEF HeldInv
<1>3. PICK d : d = [seqs[r] EXCEPT !.timer = "done"]
  OBVIOUS
<1>4. d \in SequenceState /\ d.buf = seqs[r].buf /\ d.token = seqs[r].token /\ d # None
  BY <1>2, <1>3, RelayConstants DEF SequenceState
<1>5. seqs' = [seqs EXCEPT ![r] = d] /\ seqs' \in [Run -> SequenceState \cup {None}]
      /\ seqs'[r] = d /\ \A x \in Run : x # r => seqs'[x] = seqs[x]
  BY <1>1, <1>3, <1>4
<1>6. [run |-> r, token |-> seqs[r].token] \in [run : Run, token : Nat]
  BY <1>2 DEF SequenceState
<1>7. /\ timeouts' \in Seq([run : Run, token : Nat])
      /\ Len(timeouts) + 1 \in DOMAIN timeouts'
      /\ timeouts'[Len(timeouts) + 1] = [run |-> r, token |-> d.token]
      /\ \A k \in DOMAIN timeouts : k \in DOMAIN timeouts' /\ timeouts'[k] = timeouts[k]
  BY <1>1, <1>4, <1>6
<1>8. RelayTypeOK'
  BY <1>1, <1>5, <1>7 DEF Fire, RelayTypeOK, broker, out, bounds
<1>9. GapIsTimed'
  <2> SUFFICES ASSUME NEW x \in Run, seqs'[x] # None, seqs'[x].buf # {},
                      seqs'[x].timer # "pending", ~(Draining(x)')
               PROVE  \E k \in DOMAIN timeouts' : timeouts'[k] = [run |-> x, token |-> seqs'[x].token]
    BY DEF GapIsTimed
  <2>1. CASE x = r
    BY <2>1, <1>5, <1>7
  <2>2. CASE x # r
    <3>1. ~Draining(x)
      BY <1>1 DEF Draining
    <3>2. PICK k \in DOMAIN timeouts : timeouts[k] = [run |-> x, token |-> seqs[x].token]
      BY <2>2, <3>1, <1>5 DEF HeldInv, GapIsTimed
    <3>3. QED
      BY <2>2, <3>2, <1>5, <1>7
  <2>3. QED
    BY <2>1, <2>2
<1>10. \A x, i : GoodState(i, x)' <=> GoodState(i, x)
  BY <1>1 DEF GoodState, Of
<1>11. \A x \in Run : seqs'[x] # None => GoodState(seqs'[x], x)
  BY <1>2, <1>4, <1>5 DEF HeldInv, GoodState
<1>12. \A u \in Task : frame[u] # None => seqs'[log[frame[u]].run] # None
  BY <1>4, <1>5 DEF HeldInv
<1>13. QED
  BY <1>1, <1>8, <1>9, <1>10, <1>11, <1>12 DEF HeldInv

\* What the worker does with a timeout that is not out of date.
Due(r) ==
    /\ seqs[r] # None /\ seqs[r].token = Head(timeouts).token /\ seqs[r].buf # {}

LEMMA TimeoutTaken ==
    ASSUME HeldInv, HandleTimeout
    PROVE  LET r == Head(timeouts).run IN
           /\ r \in Run /\ frame["worker"] = None
           /\ timeouts # <<>> /\ timeouts \in Seq([run : Run, token : Nat])
           /\ timeouts' = Tail(timeouts) /\ timeouts' \in Seq([run : Run, token : Nat])
           /\ \A k \in DOMAIN timeouts : k # 1 => k - 1 \in DOMAIN timeouts' /\ timeouts'[k - 1] = timeouts[k]
           /\ \A k \in DOMAIN timeouts' : k + 1 \in DOMAIN timeouts /\ timeouts'[k] = timeouts[k + 1]
           /\ timeouts[1] = Head(timeouts)
           /\ RelayTypeOK /\ log' = log /\ RestTypeOK' /\ OthersStay(r)
<1>1. /\ RelayTypeOK /\ timeouts # <<>> /\ timeouts' = Tail(timeouts)
      /\ timeouts \in Seq([run : Run, token : Nat]) /\ frame["worker"] = None /\ log' = log
  BY DEF HeldInv, RelayTypeOK, HandleTimeout, broker
<1>2. Head(timeouts) \in [run : Run, token : Nat] /\ timeouts[1] = Head(timeouts)
  <2>1. Head(timeouts) = timeouts[1]
    OBVIOUS
  <2>2. 1 \in DOMAIN timeouts
    BY <1>1
  <2>3. timeouts[1] \in [run : Run, token : Nat]
    <3>1. PICK T : T = [run : Run, token : Nat]
      OBVIOUS
    <3>2. timeouts \in Seq(T)
      BY <1>1, <3>1
    <3>3. timeouts[1] \in T
      BY <3>2, <2>2
    <3>4. QED
      BY <3>1, <3>3
  <2>4. QED
    BY <2>1, <2>3
<1>3. timeouts' \in Seq([run : Run, token : Nat])
  BY <1>1
<1>4. \A k \in DOMAIN timeouts : k # 1 => k - 1 \in DOMAIN timeouts' /\ timeouts'[k - 1] = timeouts[k]
  BY <1>1
<1>5. \A k \in DOMAIN timeouts' : k + 1 \in DOMAIN timeouts /\ timeouts'[k] = timeouts[k + 1]
  BY <1>1
<1>6. RestTypeOK'
  BY <1>1, <1>3 DEF HandleTimeout, RelayTypeOK, RestTypeOK, broker, out, bounds
<1>7. OthersStay(Head(timeouts).run)
  BY <1>2, <1>4 DEF OthersStay
<1>8. QED
  BY <1>1, <1>2, <1>3, <1>4, <1>5, <1>6, <1>7

LEMMA DueAsCarry ==
    ASSUME HeldInv, HandleTimeout, Due(Head(timeouts).run)
    PROVE  LET r == Head(timeouts).run IN
           /\ GoodState(seqs[r], r) /\ Going(TimedOut(seqs[r]), r)
           /\ Carry("worker", r, TimedOut(seqs[r]))
<1>1. PICK r : r = Head(timeouts).run
  OBVIOUS
<1>2. r \in Run /\ RelayTypeOK /\ Due(r)
  BY <1>1, TimeoutTaken
<1>3. GoodState(seqs[r], r) /\ seqs[r].buf # {}
  BY <1>2 DEF Due, HeldInv
<1>4. Going(TimedOut(seqs[r]), r)
  <2>1. PICK rr, ss : rr = r /\ ss = seqs[r]
    OBVIOUS
  <2>2. Going(TimedOut(ss), rr)
    BY <1>2, <1>3, <2>1, TimedOutGood
  <2>3. QED
    BY <2>1, <2>2
<1>5. Carry("worker", r, TimedOut(seqs[r]))
  BY <1>1, <1>2 DEF HandleTimeout, Due
<1>6. QED
  BY <1>1, <1>3, <1>4, <1>5

\* A timeout that is out of date, or of a run that holds nothing back.
LEMMA IdleTimeout ==
    ASSUME HeldInv, HandleTimeout, ~Due(Head(timeouts).run)
    PROVE  LET r == Head(timeouts).run IN
           /\ last' = last /\ frame' = frame
           /\ \/ (seqs[r] = None \/ seqs[r].token # Head(timeouts).token) /\ seqs' = seqs
              \/ /\ seqs[r] # None /\ seqs[r].token = Head(timeouts).token /\ seqs[r].buf = {}
                 /\ seqs' = [seqs EXCEPT ![r].timer = "none"]
BY DEF HandleTimeout, Due

LEMMA TimeoutHeld ==
    ASSUME HeldInv, HandleTimeout PROVE HeldInv'
<1>1. PICK r : r = Head(timeouts).run
  OBVIOUS
<1>2. /\ r \in Run /\ frame["worker"] = None /\ RelayTypeOK /\ log' = log /\ RestTypeOK'
      /\ OthersStay(r)
  BY <1>1, TimeoutTaken
<1>3. CASE Due(r)
  <2>1. PICK o : o = TimedOut(seqs[r])
    OBVIOUS
  <2>2. Going(o, r) /\ Carry("worker", r, o)
    BY <1>1, <1>3, <2>1, DueAsCarry
  <2>3. QED
    BY <1>2, <2>2, CarryHeld DEF Task
<1>4. CASE ~Due(r) /\ (seqs[r] = None \/ seqs[r].token # Head(timeouts).token)
  <2>1. last' = last /\ frame' = frame /\ seqs' = seqs
    BY <1>1, <1>4, IdleTimeout
  <2>2. RelayTypeOK'
    BY <2>1, <1>2 DEF RelayTypeOK, RestTypeOK
  <2>3. GapIsTimed'
    <3> SUFFICES ASSUME NEW x \in Run, seqs[x] # None, seqs[x].buf # {},
                        seqs[x].timer # "pending", ~Draining(x)
                 PROVE  \E k \in DOMAIN timeouts' : timeouts'[k] = [run |-> x, token |-> seqs[x].token]
      BY <2>1, <1>2 DEF GapIsTimed, Draining
    <3>1. PICK k \in DOMAIN timeouts : timeouts[k] = [run |-> x, token |-> seqs[x].token]
      BY DEF HeldInv, GapIsTimed
    <3>2. k # 1
      BY <3>1, <1>1, <1>4, TimeoutTaken
    <3>3. k - 1 \in DOMAIN timeouts' /\ timeouts'[k - 1] = timeouts[k]
      BY <3>2, TimeoutTaken
    <3>4. QED
      BY <3>1, <3>3
  <2>4. \A x, i : GoodState(i, x)' <=> GoodState(i, x)
    BY <1>2 DEF GoodState, Of
  <2>5. QED
    BY <2>1, <2>2, <2>3, <2>4, <1>2 DEF HeldInv
<1>5. CASE ~Due(r) /\ seqs[r] # None /\ seqs[r].token = Head(timeouts).token
  <2>1. /\ last' = last /\ frame' = frame /\ seqs[r].buf = {}
        /\ seqs' = [seqs EXCEPT ![r].timer = "none"]
    BY <1>1, <1>5, IdleTimeout
  <2>2. GoodState(seqs[r], r) /\ seqs[r] \in SequenceState
    BY <1>2, <1>5 DEF HeldInv, GoodState
  <2>3. PICK d : d = [seqs[r] EXCEPT !.timer = "none"]
    OBVIOUS
  <2>4. d \in SequenceState /\ d.buf = {} /\ GoodState(d, r)
    BY <2>1, <2>2, <2>3 DEF SequenceState, GoodState
  <2>5. CASE frame["worker"] = None
    <3>1. PICK o : o = Outcome(d, None, last)
      OBVIOUS
    <3>2. Going(o, r)
      BY <3>1, <2>4, <1>2 DEF Going, Outcome, RelayTypeOK
    <3>3. seqs' = [seqs EXCEPT ![r] = d] /\ frame' = [frame EXCEPT !["worker"] = None]
      BY <2>1, <2>3, <2>5, <1>2 DEF RelayTypeOK
    <3>4. Carry("worker", r, o)
      BY <3>1, <3>3, <2>1 DEF Carry, Outcome
    <3>5. QED
      BY <1>2, <2>5, <3>2, <3>4, CarryHeld DEF Task
  <2>6. QED
    BY <2>5, <1>2
<1>6. QED
  BY <1>3, <1>4, <1>5

LEMMA ReconnectHeld ==
    ASSUME HeldInv, Reconnect PROVE HeldInv'
<1>1. /\ RelayTypeOK /\ log' = log /\ seqs' = seqs /\ frame' = frame /\ timeouts' = timeouts
      /\ last' = last /\ handled' = handled /\ acks' = acks
  BY DEF HeldInv, Reconnect, relayState, out
<1>2. reconnects' \in 0..MaxReconnects
  BY <1>1, RelayConstants DEF Reconnect, RelayTypeOK
<1>3. RelayTypeOK'
  BY <1>1, <1>2 DEF RelayTypeOK, Reconnect
<1>4. GapIsTimed'
  BY <1>1 DEF HeldInv, GapIsTimed, Draining
<1>5. \A x, i : GoodState(i, x)' <=> GoodState(i, x)
  BY <1>1 DEF GoodState, Of
<1>6. QED
  BY <1>1, <1>3, <1>4, <1>5 DEF HeldInv

LEMMA RestartHeld ==
    ASSUME HeldInv, Restart PROVE HeldInv'
<1>1. /\ RelayTypeOK /\ log' = log /\ seqs' = [r \in Run |-> None]
      /\ frame' = [t \in Task |-> None] /\ timeouts' = <<>>
      /\ last' = None /\ handled' = handled /\ acks' = acks
  BY DEF HeldInv, Restart, out
<1>2. restarts' \in 0..MaxRestarts
  BY <1>1, RelayConstants DEF Restart, RelayTypeOK
<1>3. RelayTypeOK'
  BY <1>1, <1>2 DEF RelayTypeOK, Restart
<1>4. \A r \in Run : seqs'[r] = None
  BY <1>1
<1>5. \A t \in Task : frame'[t] = None
  BY <1>1
<1>6. QED
  BY <1>3, <1>4, <1>5 DEF HeldInv, GapIsTimed

LEMMA HeldInitial ==
    ASSUME RelayInit PROVE HeldInv
<1>1. log \in Seq(Message) /\ Len(log) \in Nat
  BY RelayConstants DEF RelayInit
<1>2. RelayTypeOK
  BY <1>1, RelayConstants DEF RelayInit, RelayTypeOK
<1>3. QED
  BY <1>2 DEF RelayInit, HeldInv, GapIsTimed

LEMMA HeldStep ==
    ASSUME HeldInv, [RelayNext]_relayVars PROVE HeldInv'
<1>1. ASSUME UNCHANGED relayVars PROVE HeldInv'
  BY <1>1 DEF relayVars, relayState, broker, out, bounds, HeldInv, RelayTypeOK, GapIsTimed,
     GoodState, Of, Draining
<1>2. QED
  BY <1>1, DropHeld, PlainHeld, BufferHeld, ReceiveHeld, AckHeld, FireHeld, TimeoutHeld,
     ReconnectHeld, RestartHeld DEF RelayNext, Receive

-----------------------------------------------------------------------------
(* While nothing behind a gap is delivered again *)

\* Properties of positions are properties of the partition, which stays.
LEMMA LogStays ==
    ASSUME log' = log
    PROVE  /\ \A i : Steady(i)' <=> Steady(i)
           /\ \A i : Late(i)' <=> Late(i)
           /\ \A i, j : SameSequence(i, j)' <=> SameSequence(i, j)
           /\ \A i, j : Of(i, j)' <=> Of(i, j)
           /\ \A i : Marker(i)' = Marker(i)
BY DEF Steady, Late, SameSequence, Of, Marker

\* What a step that carries out o for run r leaves true.
Sound(t, r, o) ==
    /\ Going(o, r) /\ Carry(t, r, o)
    /\ log' = log /\ pos' \in 0..Len(log) /\ pos <= pos'
    /\ frame[t] # None => log[frame[t]].run = r
    /\ \A u \in Task : u # t /\ frame[u] # None => log[frame[u]].run # r

\* The expected sequence only goes up, and what is held back is ahead of it.
Upward(t, r, o) ==
    /\ o.st.next > 0
    /\ seqs[r] # None =>
         /\ o.st.next >= seqs[r].next /\ o.st.token >= seqs[r].token
         /\ o.st.next = seqs[r].next => t = "broker" /\ frame["broker"] = None
    /\ \A i \in o.st.buf :
         /\ i <= pos' /\ log[i].seq > o.st.next /\ ~Steady(i)
         /\ \A j \in o.st.buf : log[j].seq = log[i].seq => i = j
    /\ o.msg # None =>
         /\ o.msg <= pos' /\ log[o.msg].seq = o.st.next /\ o.mark = Marker(o.msg)
         /\ t = "worker" => ~Steady(o.msg)
    /\ o.msg = None =>
         /\ o.mark = last
         /\ last # None /\ last.by = "sequence" /\ last.run = r => last.id < o.st.next
    /\ \E m \in 1..pos' : Of(m, r) /\ o.st.next <= log[m].seq + 1
    /\ \A i \in 1..pos' : i > pos /\ log[i].seq > 0 =>
         /\ log[i].run = r
         /\ Steady(i) =>
              /\ log[i].seq <= o.st.next
              /\ log[i].seq = o.st.next => t = "broker" /\ o.msg # None

\* No timeout is due for a run in the hands of the broker task.
Timely(t, r, o) ==
    /\ \A k \in DOMAIN timeouts' : \E l \in DOMAIN timeouts : timeouts'[k] = timeouts[l]
    /\ t = "broker" /\ o.msg # None =>
         /\ o.st.timer # "pending"
         /\ \A k \in DOMAIN timeouts' : timeouts'[k] # [run |-> r, token |-> o.st.token]

\* Nothing gets lost, and the acknowledgements are behind.
Keeping(t, r, o) ==
    /\ \A i : Handled(i) => Handled(i)'
    /\ \A j : Of(j, r) /\ (frame[t] = j \/ (seqs[r] # None /\ j \in seqs[r].buf)) =>
         j \in o.st.buf \/ o.msg = j \/ Handled(j)'
    /\ \A i \in 1..pos' : i > pos /\ log[i].seq > 0 /\ ~Late(i) => Handled(i)' \/ Kept(i)'
    /\ \A k \in DOMAIN acks' :
         \/ k \in DOMAIN acks /\ acks'[k] = acks[k]
         \/ acks'[k].run = r /\ acks'[k].seq < o.st.next

\* The frames and states after such a step.
LEMMA CarryFrames ==
    ASSUME HeldInv, NEW t \in Task, NEW r \in Run, NEW o, Sound(t, r, o)
    PROVE  /\ seqs'[r] = o.st /\ frame'[t] = o.msg /\ last' = o.mark /\ seqs'[r] # None
           /\ \A x \in Run : x # r => seqs'[x] = seqs[x]
           /\ \A u \in Task : u # t => frame'[u] = frame[u]
           /\ \A u \in Task : u # t /\ frame'[u] # None => log[frame'[u]].run # r
           /\ o.msg # None => log[o.msg].run = r /\ log[o.msg].seq > 0
           /\ \A i : Steady(i)' <=> Steady(i)
           /\ \A i : Late(i)' <=> Late(i)
           /\ \A i, j : SameSequence(i, j)' <=> SameSequence(i, j)
           /\ \A i, j : Of(i, j)' <=> Of(i, j)
           /\ log' = log /\ pos \in Nat /\ pos' \in Nat /\ pos <= pos' /\ Len(log) \in Nat
           /\ DOMAIN log = 1..Len(log) /\ pos <= Len(log) /\ pos' <= Len(log)
           /\ o.st.next \in Nat /\ o.st.token \in Nat
           /\ \A x \in Run : seqs[x] # None => seqs[x].next \in Nat /\ seqs[x].token \in Nat
           /\ \A i \in DOMAIN log : log[i].seq \in Nat /\ (log[i].seq > 0 => log[i].run \in Run)
<1>1. RelayTypeOK /\ o.st \in SequenceState /\ o.st # None
  BY RelayConstants DEF HeldInv, Sound, Going, GoodState
<1>2. /\ seqs'[r] = o.st /\ frame'[t] = o.msg /\ last' = o.mark
      /\ \A x \in Run : x # r => seqs'[x] = seqs[x]
      /\ \A u \in Task : u # t => frame'[u] = frame[u]
  BY <1>1 DEF Sound, Carry, RelayTypeOK
<1>3. o.st.next \in Nat /\ o.st.token \in Nat
  BY <1>1 DEF SequenceState
<1>4. \A x \in Run : seqs[x] # None => seqs[x].next \in Nat /\ seqs[x].token \in Nat
  BY DEF HeldInv, GoodState, SequenceState
<1>5. \A i \in DOMAIN log : log[i].seq \in Nat /\ (log[i].seq > 0 => log[i].run \in Run)
  BY <1>1, LogTyped
<1>6. /\ log' = log /\ pos \in Nat /\ pos' \in Nat /\ pos <= pos' /\ Len(log) \in Nat
      /\ DOMAIN log = 1..Len(log) /\ pos <= Len(log) /\ pos' <= Len(log)
  BY <1>1, LogTyped DEF Sound, RelayTypeOK
<1>7. /\ \A i : Steady(i)' <=> Steady(i)
      /\ \A i : Late(i)' <=> Late(i)
      /\ \A i, j : SameSequence(i, j)' <=> SameSequence(i, j)
      /\ \A i, j : Of(i, j)' <=> Of(i, j)
  BY <1>6, LogStays
<1>8. o.msg # None => log[o.msg].run = r /\ log[o.msg].seq > 0
  BY DEF Sound, Going, Of
<1>9. \A u \in Task : u # t /\ frame'[u] # None => log[frame'[u]].run # r
  BY <1>2 DEF Sound
<1>10. QED
  BY <1>1, <1>2, <1>3, <1>4, <1>5, <1>6, <1>7, <1>8, <1>9

LEMMA CarryInHand ==
    ASSUME HeldInv, InHandInv, NEW t \in Task, NEW r \in Run, NEW o,
           Sound(t, r, o), Upward(t, r, o)
    PROVE  InHandInv'
<1>1. ASSUME NEW u \in Task, frame'[u] # None
      PROVE  frame'[u] <= pos' /\ log[frame'[u]].seq = seqs'[log[frame'[u]].run].next
  <2>1. CASE u = t
    BY <2>1, <1>1, CarryFrames DEF Upward
  <2>2. CASE u # t
    <3>1. frame'[u] = frame[u] /\ log[frame[u]].run # r /\ frame[u] # None
      BY <2>2, <1>1, CarryFrames
    <3>2. log[frame[u]].run \in Run /\ frame[u] \in DOMAIN log
      BY <3>1 DEF HeldInv, RelayTypeOK
    <3>3. seqs'[log[frame[u]].run] = seqs[log[frame[u]].run]
      BY <3>1, <3>2, CarryFrames
    <3>4. frame[u] <= pos /\ log[frame[u]].seq = seqs[log[frame[u]].run].next
      BY <3>1 DEF InHandInv
    <3>5. frame[u] \in Nat /\ pos \in Nat /\ pos' \in Nat /\ pos <= pos'
      BY <3>2, CarryFrames
    <3>6. QED
      BY <3>1, <3>3, <3>4, <3>5
  <2>3. QED
    BY <2>1, <2>2
<1>2. frame'["broker"] # None /\ frame'["worker"] # None
        => log[frame'["broker"]].run # log[frame'["worker"]].run
  BY CarryFrames DEF Task
<1>3. QED
  BY <1>1, <1>2, CarryFrames DEF InHandInv

LEMMA CarryAhead ==
    ASSUME HeldInv, AheadInv, NEW t \in Task, NEW r \in Run, NEW o,
           Sound(t, r, o), Upward(t, r, o)
    PROVE  AheadInv'
<1>1. ASSUME NEW x \in Run, seqs'[x] # None
      PROVE  /\ seqs'[x].next > 0
             /\ \A i \in seqs'[x].buf :
                  /\ i <= pos' /\ log[i].seq > seqs'[x].next /\ ~Steady(i)
                  /\ \A j \in seqs'[x].buf : log[j].seq = log[i].seq => i = j
  <2>1. CASE x = r
    BY <2>1, CarryFrames DEF Upward
  <2>2. CASE x # r
    <3>1. seqs'[x] = seqs[x] /\ pos \in Nat /\ pos' \in Nat /\ pos <= pos' /\ seqs[x] # None
      BY <2>2, <1>1, CarryFrames
    <3>2. \A i \in seqs[x].buf : i \in Nat
      BY <3>1 DEF HeldInv, GoodState, SequenceState
    <3>3. QED
      BY <3>1, <3>2 DEF AheadInv
  <2>3. QED
    BY <2>1, <2>2
<1>2. frame'["worker"] # None => ~Steady(frame'["worker"])
  <2>1. CASE t = "worker"
    BY <2>1, CarryFrames DEF Upward
  <2>2. CASE t # "worker"
    BY <2>2, CarryFrames DEF AheadInv, Task
  <2>3. QED
    BY <2>1, <2>2
<1>3. QED
  BY <1>1, <1>2, CarryFrames DEF AheadInv

LEMMA CarrySteady ==
    ASSUME HeldInv, SteadyInv, NEW t \in Task, NEW r \in Run, NEW o,
           Sound(t, r, o), Upward(t, r, o)
    PROVE  SteadyInv'
<1>1. ASSUME NEW i \in 1..pos', log[i].seq > 0
      PROVE  /\ seqs'[log[i].run] # None
             /\ Steady(i) =>
                  /\ log[i].seq <= seqs'[log[i].run].next
                  /\ log[i].seq = seqs'[log[i].run].next =>
                       frame'["broker"] # None /\ log[frame'["broker"]].run = log[i].run
  <2>0. i \in Nat /\ pos \in Nat /\ pos' \in Nat /\ i \in DOMAIN log /\ log[i].seq \in Nat
    BY <1>1, CarryFrames
  <2>1. CASE i > pos
    BY <2>0, <2>1, <1>1, CarryFrames DEF Upward
  <2>2. CASE i <= pos /\ log[i].run # r
    <3>1. i \in 1..pos /\ log[i].run \in Run
      BY <2>0, <2>2, <1>1, CarryFrames
    <3>2. seqs'[log[i].run] = seqs[log[i].run]
      BY <3>1, <2>2, CarryFrames
    <3>3. frame["broker"] # None /\ log[frame["broker"]].run = log[i].run => frame'["broker"] = frame["broker"]
      BY <2>2, CarryFrames DEF Sound, Task
    <3>4. QED
      BY <3>1, <3>2, <3>3, <1>1 DEF SteadyInv
  <2>3. CASE i <= pos /\ log[i].run = r
    <3>1. i \in 1..pos /\ seqs'[r] # None /\ seqs'[r] = o.st
      BY <2>0, <2>3, CarryFrames
    <3>2. seqs[r] # None
      BY <3>1, <2>3, <1>1 DEF SteadyInv
    <3>3. ASSUME Steady(i) PROVE log[i].seq < o.st.next
      <4>1. log[i].seq <= seqs[r].next /\ (log[i].seq = seqs[r].next => frame["broker"] # None)
        BY <3>1, <3>3, <2>3, <1>1 DEF SteadyInv
      <4>2. o.st.next >= seqs[r].next /\ (o.st.next = seqs[r].next => frame["broker"] = None)
        BY <3>2 DEF Upward
      <4>3. o.st.next \in Nat /\ seqs[r].next \in Nat
        BY <3>2, CarryFrames
      <4>4. QED
        BY <4>1, <4>2, <4>3, <2>0
    <3>4. o.st.next \in Nat
      BY CarryFrames
    <3>5. QED
      BY <3>1, <3>3, <3>4, <2>0, <2>3
  <2>4. QED
    BY <2>0, <2>1, <2>2, <2>3
<1>2. QED
  BY <1>1, CarryFrames DEF SteadyInv

LEMMA CarryToken ==
    ASSUME HeldInv, TokenInv, NEW t \in Task, NEW r \in Run, NEW o,
           Sound(t, r, o), Upward(t, r, o), Timely(t, r, o)
    PROVE  TokenInv'
<1>1. ASSUME NEW k \in DOMAIN timeouts'
      PROVE  seqs'[timeouts'[k].run] # None /\ timeouts'[k].token <= seqs'[timeouts'[k].run].token
  <2>1. PICK l \in DOMAIN timeouts : timeouts'[k] = timeouts[l]
    BY DEF Timely
  <2>2. PICK e : e = timeouts[l]
    OBVIOUS
  <2>3. e.run \in Run /\ e.token \in Nat
    <3>1. timeouts \in Seq([run : Run, token : Nat])
      BY DEF HeldInv, RelayTypeOK
    <3>2. PICK T : T = [run : Run, token : Nat]
      OBVIOUS
    <3>3. timeouts \in Seq(T)
      BY <3>1, <3>2
    <3>4. timeouts[l] \in T
      BY <3>3
    <3>5. timeouts[l].run \in Run /\ timeouts[l].token \in Nat
      BY <3>2, <3>4
    <3>6. QED
      BY <2>2, <3>5
  <2>4. seqs[e.run] # None /\ e.token <= seqs[e.run].token
    BY <2>2 DEF TokenInv
  <2>5. seqs[e.run].token \in Nat
    BY <2>3, <2>4, CarryFrames
  <2>6. CASE e.run = r
    <3>1. o.st.token >= seqs[r].token /\ o.st.token \in Nat
      BY <2>4, <2>6, CarryFrames DEF Upward
    <3>2. seqs'[r] = o.st /\ seqs'[r] # None
      BY CarryFrames
    <3>3. QED
      BY <2>1, <2>2, <2>3, <2>4, <2>5, <2>6, <3>1, <3>2
  <2>7. CASE e.run # r
    BY <2>1, <2>2, <2>3, <2>4, <2>7, CarryFrames
  <2>8. QED
    BY <2>6, <2>7
<1>2. ASSUME frame'["broker"] # None
      PROVE  LET x == log[frame'["broker"]].run IN
             /\ seqs'[x].timer # "pending"
             /\ \A k \in DOMAIN timeouts' : timeouts'[k] # [run |-> x, token |-> seqs'[x].token]
  <2>1. CASE t = "broker"
    <3>1. o.msg # None /\ log[frame'["broker"]].run = r /\ seqs'[r] = o.st
      BY <2>1, <1>2, CarryFrames
    <3>2. QED
      BY <2>1, <3>1 DEF Timely
  <2>2. CASE t # "broker"
    <3>1. frame'["broker"] = frame["broker"] /\ log[frame["broker"]].run # r /\ frame["broker"] # None
      BY <2>2, <1>2, CarryFrames DEF Task
    <3>2. log[frame["broker"]].run \in Run
      BY <3>1 DEF HeldInv, Task
    <3>3. seqs'[log[frame["broker"]].run] = seqs[log[frame["broker"]].run]
      BY <3>1, <3>2, CarryFrames
    <3>4. \A k \in DOMAIN timeouts' : \E l \in DOMAIN timeouts : timeouts'[k] = timeouts[l]
      BY DEF Timely
    <3>5. QED
      BY <3>1, <3>3, <3>4 DEF TokenInv
  <2>3. QED
    BY <2>1, <2>2
<1>3. QED
  BY <1>1, <1>2, CarryFrames DEF TokenInv

LEMMA CarryBehind ==
    ASSUME HeldInv, HeldInv', BehindInv, NEW t \in Task, NEW r \in Run, NEW o,
           Sound(t, r, o), Upward(t, r, o), Keeping(t, r, o)
    PROVE  BehindInv'
<1>1. ASSUME last' # None, last'.by = "sequence", NEW x, x = last'.run
      PROVE  /\ x \in Run /\ seqs'[x] # None
             /\ last'.id <= seqs'[x].next
             /\ last'.id = seqs'[x].next => Draining(x)'
  <2>1. CASE o.msg # None
    <3>1. /\ log[o.msg].seq > 0 /\ log[o.msg].run = r /\ o.msg \in DOMAIN log
          /\ log[o.msg].seq = o.st.next /\ last' = Marker(o.msg)
          /\ seqs'[r] = o.st /\ seqs'[r] # None /\ frame'[t] = o.msg /\ log' = log
          /\ o.st.next \in Nat
      BY <2>1, CarryFrames DEF Upward, Sound, Going, Of
    <3>2. last' = [run |-> r, id |-> o.st.next, by |-> "sequence"]
      BY <3>1 DEF Marker
    <3>3. Draining(r)'
      BY <2>1, <3>1 DEF Draining
    <3>4. x = r /\ last'.id = o.st.next
      BY <1>1, <3>2
    <3>5. QED
      BY <3>1, <3>3, <3>4
  <2>2. CASE o.msg = None
    <3>1. last' = last /\ x = last.run /\ (x = r => last.id < o.st.next)
      BY <2>2, <1>1, CarryFrames DEF Upward
    <3>2. /\ x \in Run /\ seqs[x] # None /\ last.id <= seqs[x].next
          /\ last.id = seqs[x].next => Draining(x)
      BY <3>1, <1>1 DEF BehindInv
    <3>3. last.id \in Nat
      BY <3>1, <1>1 DEF HeldInv, RelayTypeOK, MarkerState
    <3>4. CASE x = r
      BY <3>1, <3>3, <3>4, CarryFrames
    <3>5. CASE x # r
      <4>1. seqs'[x] = seqs[x]
        BY <3>2, <3>5, CarryFrames
      <4>2. ASSUME Draining(x) PROVE Draining(x)'
        <5>1. PICK u \in Task : frame[u] # None /\ log[frame[u]].run = x
          BY <4>2 DEF Draining
        <5>2. u # t
          BY <5>1, <3>5 DEF Sound
        <5>3. frame'[u] = frame[u] /\ log' = log
          BY <5>2, CarryFrames
        <5>4. QED
          BY <5>1, <5>3, <3>1 DEF Draining
      <4>3. QED
        BY <3>1, <3>2, <4>1, <4>2
    <3>6. QED
      BY <3>4, <3>5
  <2>3. QED
    BY <2>1, <2>2
<1>2. ASSUME NEW k \in DOMAIN acks'
      PROVE  seqs'[acks'[k].run] # None /\ acks'[k].seq < seqs'[acks'[k].run].next
  <2>1. PICK e : e = acks'[k]
    OBVIOUS
  <2>2. e.run \in Run /\ e.seq \in Nat
    <3>1. acks' \in Seq([run : Run, seq : Nat])
      BY DEF HeldInv, RelayTypeOK
    <3>2. PICK T : T = [run : Run, seq : Nat]
      OBVIOUS
    <3>3. acks' \in Seq(T)
      BY <3>1, <3>2
    <3>4. acks'[k] \in T
      BY <3>3
    <3>5. QED
      BY <2>1, <3>2, <3>4
  <2>3. CASE k \in DOMAIN acks /\ acks'[k] = acks[k]
    <3>1. seqs[e.run] # None /\ e.seq < seqs[e.run].next
      BY <2>1, <2>3 DEF BehindInv
    <3>2. CASE e.run = r
      <4>1. seqs'[r] = o.st /\ seqs'[r] # None /\ o.st.next \in Nat
            /\ seqs[r].next \in Nat /\ o.st.next >= seqs[r].next
        BY <3>1, <3>2, CarryFrames DEF Upward
      <4>2. QED
        BY <2>1, <2>2, <3>1, <3>2, <4>1
    <3>3. CASE e.run # r
      BY <2>1, <2>2, <3>1, <3>3, CarryFrames
    <3>4. QED
      BY <3>2, <3>3
  <2>4. CASE acks'[k].run = r /\ acks'[k].seq < o.st.next
    BY <2>4, CarryFrames
  <2>5. QED
    BY <2>3, <2>4 DEF Keeping
<1>3. /\ last' # None /\ last'.by = "sequence" =>
           \A x : x = last'.run =>
             /\ x \in Run /\ seqs'[x] # None
             /\ last'.id <= seqs'[x].next
             /\ last'.id = seqs'[x].next => Draining(x)'
  BY <1>1
<1>4. QED
  BY <1>2, <1>3 DEF BehindInv, Draining

LEMMA CarryReach ==
    ASSUME HeldInv, ReachInv, NEW t \in Task, NEW r \in Run, NEW o,
           Sound(t, r, o), Upward(t, r, o)
    PROVE  ReachInv'
<1>1. ASSUME NEW x \in Run, seqs'[x] # None
      PROVE  \E m \in 1..pos' : Of(m, x) /\ seqs'[x].next <= log[m].seq + 1
  <2>1. CASE x = r
    <3>1. \E m \in 1..pos' : Of(m, r) /\ o.st.next <= log[m].seq + 1
      BY DEF Upward
    <3>2. seqs'[r] = o.st
      BY CarryFrames
    <3>3. QED
      BY <2>1, <3>1, <3>2
  <2>2. CASE x # r
    <3>1. seqs'[x] = seqs[x] /\ seqs[x] # None
      BY <2>2, <1>1, CarryFrames
    <3>2. PICK m \in 1..pos : Of(m, x) /\ seqs[x].next <= log[m].seq + 1
      BY <3>1 DEF ReachInv
    <3>3. m \in 1..pos'
      BY CarryFrames
    <3>4. QED
      BY <3>1, <3>2, <3>3
  <2>3. QED
    BY <2>1, <2>2
<1>2. QED
  BY <1>1, CarryFrames DEF ReachInv

LEMMA CarryKept ==
    ASSUME HeldInv, KeptInv, SteadyInv, NEW t \in Task, NEW r \in Run, NEW o,
           Sound(t, r, o), Upward(t, r, o), Keeping(t, r, o)
    PROVE  KeptInv'
<1>1. ASSUME NEW i \in 1..pos', log[i].seq > 0, ~Late(i), ~(Handled(i)')
      PROVE  Kept(i)'
  <2>0. i \in Nat /\ pos \in Nat /\ pos' \in Nat /\ i \in DOMAIN log /\ log[i].run \in Run
    BY <1>1, CarryFrames
  <2>1. CASE i > pos
    BY <2>1, <1>1 DEF Keeping
  <2>2. CASE i <= pos
    <3>1. i \in 1..pos
      BY <2>0, <2>2
    <3>2. ~Handled(i)
      BY <1>1 DEF Keeping
    <3>3. Kept(i) /\ seqs[log[i].run] # None
      BY <1>1, <3>1, <3>2 DEF KeptInv, SteadyInv
    <3>4. \A j : SameSequence(j, i) => log[j].run = log[i].run /\ log[j].seq = log[i].seq
      BY DEF SameSequence
    <3>5. \A j : SameSequence(j, i) => ~(Handled(j)')
      BY <1>1, CarryFrames DEF Handled, SameSequence
    <3>6. CASE \E j \in seqs[log[i].run].buf : SameSequence(j, i)
      <4>1. PICK j \in seqs[log[i].run].buf : SameSequence(j, i)
        BY <3>6
      <4>2. CASE log[i].run = r
        <5>1. Of(j, r)
          BY <4>1, <4>2, <3>3, <2>0 DEF HeldInv, GoodState
        <5>2. j \in o.st.buf \/ o.msg = j
          BY <5>1, <4>1, <4>2, <3>3, <3>5 DEF Keeping
        <5>3. j # None
          BY <5>1, LogTyped, RelayConstants DEF Of, HeldInv
        <5>4. seqs'[log[i].run] = o.st /\ frame'[t] = o.msg /\ log' = log
          BY <4>2, CarryFrames
        <5>5. QED
          BY <4>1, <5>2, <5>3, <5>4, CarryFrames DEF Kept
      <4>3. CASE log[i].run # r
        BY <4>1, <4>3, <2>0, CarryFrames DEF Kept
      <4>4. QED
        BY <4>2, <4>3
    <3>7. CASE \E u \in Task : frame[u] # None /\ SameSequence(frame[u], i)
      <4>1. PICK u \in Task : frame[u] # None /\ SameSequence(frame[u], i)
        BY <3>7
      <4>2. CASE u = t
        <5>1. PICK j : j = frame[t]
          OBVIOUS
        <5>2. Of(j, r) /\ j # None /\ SameSequence(j, i)
          BY <4>1, <4>2, <5>1 DEF Of, HeldInv, RelayTypeOK, Sound
        <5>3. j \in o.st.buf \/ o.msg = j
          BY <5>1, <5>2, <3>5 DEF Keeping
        <5>4. log[i].run = r
          BY <5>2, <3>4 DEF Of
        <5>5. seqs'[log[i].run] = o.st /\ frame'[t] = o.msg /\ log' = log
          BY <5>4, CarryFrames
        <5>6. QED
          BY <5>2, <5>3, <5>5, CarryFrames DEF Kept
      <4>3. CASE u # t
        BY <4>1, <4>3, CarryFrames DEF Kept
      <4>4. QED
        BY <4>2, <4>3
    <3>8. QED
      BY <3>3, <3>6, <3>7 DEF Kept
  <2>3. QED
    BY <2>0, <2>1, <2>2
<1>2. QED
  BY <1>1, CarryFrames DEF KeptInv

\* A step that leaves the messages in hand and the expected sequences alone; rr is the run
\* whose timer fires, if any.
Quiet ==
    /\ log' = log /\ pos' \in 0..Len(log) /\ pos <= pos'
    /\ frame' = frame /\ acks' = acks
    /\ last' = last \/ (last' # None /\ last'.by # "sequence")
    /\ \A l \in DOMAIN handled : l \in DOMAIN handled' /\ handled'[l] = handled[l]
    /\ \A l \in DOMAIN handled' : l \in DOMAIN handled \/ log[handled'[l]].seq = 0
    /\ \A x \in Run :
         /\ seqs'[x] = None <=> seqs[x] = None
         /\ seqs[x] # None => seqs'[x].next = seqs[x].next /\ seqs'[x].token >= seqs[x].token
    /\ \A k \in DOMAIN timeouts' :
         \/ \E l \in DOMAIN timeouts : timeouts'[k] = timeouts[l]
         \/ \E x \in Run : /\ seqs[x] # None /\ seqs[x].timer = "pending"
                           /\ timeouts'[k] = [run |-> x, token |-> seqs[x].token]
    /\ frame["broker"] # None =>
         LET x == log[frame["broker"]].run IN
         seqs'[x].timer = seqs[x].timer /\ seqs'[x].token = seqs[x].token

\* What such a step does to the buffers, and with the message it reads.
Filling ==
    /\ \A x \in Run : seqs[x] # None => \A j \in seqs[x].buf : j \in seqs'[x].buf
    /\ \A x \in Run : seqs[x] # None => \A j \in seqs'[x].buf : j \in seqs[x].buf \/
         /\ j > pos /\ j <= pos' /\ ~Steady(j) /\ log[j].seq > seqs[x].next
         /\ \A k \in seqs'[x].buf : log[k].seq = log[j].seq => k = j
    /\ \A i \in 1..pos' : i > pos /\ log[i].seq > 0 =>
         /\ seqs[log[i].run] # None
         /\ Steady(i) => log[i].seq < seqs[log[i].run].next
         /\ ~Late(i) => Handled(i)' \/ Kept(i)'

\* What the invariants say of positions, in terms of the partition before the step.
LEMMA QuietFrames ==
    ASSUME HeldInv, Quiet
    PROVE  /\ \A i : Steady(i)' <=> Steady(i)
           /\ \A i : Late(i)' <=> Late(i)
           /\ \A i, j : SameSequence(i, j)' <=> SameSequence(i, j)
           /\ \A i, j : Of(i, j)' <=> Of(i, j)
           /\ \A x : Draining(x)' <=> Draining(x)
           /\ RelayTypeOK /\ pos \in Nat /\ pos' \in Nat /\ Len(log) \in Nat
           /\ DOMAIN log = 1..Len(log) /\ pos <= Len(log) /\ pos' <= Len(log)
           /\ \A x \in Run : seqs[x] # None => seqs[x].next \in Nat /\ seqs[x].token \in Nat
           /\ \A x \in Run : seqs[x] # None => \A j \in seqs[x].buf : j \in Nat
           /\ \A i \in DOMAIN log : log[i].seq \in Nat /\ (log[i].seq > 0 => log[i].run \in Run)
<1>1. \A x \in Run : seqs[x] # None => seqs[x].next \in Nat /\ seqs[x].token \in Nat
  BY DEF HeldInv, GoodState, SequenceState
<1>2. \A x \in Run : seqs[x] # None => \A j \in seqs[x].buf : j \in Nat
  BY DEF HeldInv, GoodState, SequenceState
<1>3. RelayTypeOK /\ log' = log /\ frame' = frame
  BY DEF HeldInv, Quiet
<1>4. \A i \in DOMAIN log : log[i].seq \in Nat /\ (log[i].seq > 0 => log[i].run \in Run)
  BY <1>3, LogTyped
<1>5. /\ pos \in Nat /\ pos' \in Nat /\ Len(log) \in Nat
      /\ DOMAIN log = 1..Len(log) /\ pos <= Len(log) /\ pos' <= Len(log)
  BY <1>3, LogTyped DEF Quiet, RelayTypeOK
<1>6. \A x : Draining(x)' <=> Draining(x)
  BY <1>3 DEF Draining
<1>7. /\ \A i : Steady(i)' <=> Steady(i)
      /\ \A i : Late(i)' <=> Late(i)
      /\ \A i, j : SameSequence(i, j)' <=> SameSequence(i, j)
      /\ \A i, j : Of(i, j)' <=> Of(i, j)
  BY <1>3, LogStays
<1>8. QED
  BY <1>1, <1>2, <1>3, <1>4, <1>5, <1>6, <1>7

LEMMA QuietInHand ==
    ASSUME HeldInv, Quiet, InHandInv PROVE InHandInv'
<1>1. ASSUME NEW u \in Task, frame[u] # None
      PROVE  frame[u] <= pos' /\ log[frame[u]].seq = seqs'[log[frame[u]].run].next
  <2>1. frame[u] \in DOMAIN log /\ log[frame[u]].run \in Run /\ seqs[log[frame[u]].run] # None
    BY <1>1 DEF HeldInv, RelayTypeOK
  <2>2. frame[u] \in Nat /\ frame[u] <= pos /\ pos <= pos' /\ pos \in Nat /\ pos' \in Nat
    BY <1>1, <2>1, QuietFrames DEF InHandInv, Quiet
  <2>3. log[frame[u]].seq = seqs[log[frame[u]].run].next
    BY <1>1 DEF InHandInv
  <2>4. QED
    BY <2>1, <2>2, <2>3 DEF Quiet
<1>2. QED
  BY <1>1 DEF InHandInv, Quiet

LEMMA QuietAhead ==
    ASSUME HeldInv, Quiet, Filling, AheadInv PROVE AheadInv'
<1>1. ASSUME NEW x \in Run, seqs'[x] # None
      PROVE  /\ seqs'[x].next > 0
             /\ \A i \in seqs'[x].buf :
                  /\ i <= pos' /\ log[i].seq > seqs'[x].next /\ ~Steady(i)
                  /\ \A j \in seqs'[x].buf : log[j].seq = log[i].seq => i = j
  <2>1. seqs[x] # None /\ seqs'[x].next = seqs[x].next /\ seqs[x].next > 0
    BY <1>1 DEF Quiet, AheadInv
  <2>2. ASSUME NEW i \in seqs'[x].buf
        PROVE  /\ i <= pos' /\ log[i].seq > seqs[x].next /\ ~Steady(i)
               /\ \A j \in seqs'[x].buf : log[j].seq = log[i].seq => i = j
    <3>1. CASE i \in seqs[x].buf
      <4>1. i \in Nat /\ pos \in Nat /\ pos' \in Nat /\ pos <= pos'
        BY <2>1, <3>1, QuietFrames DEF Quiet
      <4>2. /\ i <= pos /\ log[i].seq > seqs[x].next /\ ~Steady(i)
            /\ \A j \in seqs[x].buf : log[j].seq = log[i].seq => i = j
        BY <2>1, <3>1 DEF AheadInv
      <4>3. \A j \in seqs'[x].buf : log[j].seq = log[i].seq => i = j
        BY <2>1, <2>2, <4>2 DEF Filling
      <4>4. QED
        BY <4>1, <4>2, <4>3
    <3>2. CASE i \notin seqs[x].buf
      BY <2>1, <2>2, <3>2 DEF Filling
    <3>3. QED
      BY <3>1, <3>2
  <2>3. QED
    BY <2>1, <2>2
<1>2. frame'["worker"] # None => ~Steady(frame'["worker"])
  BY DEF AheadInv, Quiet
<1>3. log' = log
  BY DEF Quiet
<1>4. QED
  BY <1>1, <1>2, <1>3, QuietFrames DEF AheadInv

LEMMA QuietSteady ==
    ASSUME HeldInv, Quiet, Filling, SteadyInv PROVE SteadyInv'
<1>1. ASSUME NEW i \in 1..pos', log[i].seq > 0
      PROVE  /\ seqs'[log[i].run] # None
             /\ Steady(i) =>
                  /\ log[i].seq <= seqs'[log[i].run].next
                  /\ log[i].seq = seqs'[log[i].run].next =>
                       frame["broker"] # None /\ log[frame["broker"]].run = log[i].run
  <2>1. i \in Nat /\ pos \in Nat /\ i \in DOMAIN log /\ log[i].seq \in Nat /\ log[i].run \in Run
    BY <1>1, QuietFrames
  <2>2. /\ seqs[log[i].run] # None
        /\ Steady(i) =>
             /\ log[i].seq <= seqs[log[i].run].next
             /\ log[i].seq = seqs[log[i].run].next =>
                  frame["broker"] # None /\ log[frame["broker"]].run = log[i].run
    <3>1. CASE i > pos
      <4>1. seqs[log[i].run] # None /\ (Steady(i) => log[i].seq < seqs[log[i].run].next)
        BY <1>1, <3>1 DEF Filling
      <4>2. seqs[log[i].run].next \in Nat
        BY <2>1, <4>1, QuietFrames
      <4>3. QED
        BY <2>1, <4>1, <4>2
    <3>2. CASE i <= pos
      <4>1. i \in 1..pos
        BY <2>1, <3>2
      <4>2. QED
        BY <1>1, <4>1 DEF SteadyInv
    <3>3. QED
      BY <2>1, <3>1, <3>2
  <2>3. seqs'[log[i].run] # None /\ seqs'[log[i].run].next = seqs[log[i].run].next
    BY <2>1, <2>2 DEF Quiet
  <2>4. QED
    BY <2>2, <2>3
<1>2. log' = log /\ frame' = frame
  BY DEF Quiet
<1>3. QED
  BY <1>1, <1>2, QuietFrames DEF SteadyInv

LEMMA QuietToken ==
    ASSUME HeldInv, HeldInv', Quiet, TokenInv PROVE TokenInv'
<1>1. ASSUME NEW k \in DOMAIN timeouts'
      PROVE  seqs'[timeouts'[k].run] # None /\ timeouts'[k].token <= seqs'[timeouts'[k].run].token
  <2>1. PICK e : e = timeouts'[k]
    OBVIOUS
  <2>2. e.run \in Run /\ e.token \in Nat
    <3>1. timeouts' \in Seq([run : Run, token : Nat])
      BY DEF HeldInv, RelayTypeOK
    <3>2. PICK T : T = [run : Run, token : Nat]
      OBVIOUS
    <3>3. timeouts' \in Seq(T)
      BY <3>1, <3>2
    <3>4. timeouts'[k] \in T
      BY <3>3
    <3>5. QED
      BY <2>1, <3>2, <3>4
  <2>3. seqs[e.run] # None /\ e.token <= seqs[e.run].token
    <3>1. CASE \E l \in DOMAIN timeouts : timeouts'[k] = timeouts[l]
      BY <2>1, <3>1 DEF TokenInv
    <3>2. CASE \E x \in Run : /\ seqs[x] # None /\ seqs[x].timer = "pending"
                              /\ timeouts'[k] = [run |-> x, token |-> seqs[x].token]
      <4>1. PICK x \in Run : seqs[x] # None /\ timeouts'[k] = [run |-> x, token |-> seqs[x].token]
        BY <3>2
      <4>2. e.run = x /\ e.token = seqs[x].token
        BY <2>1, <4>1
      <4>3. QED
        BY <2>2, <4>1, <4>2
    <3>3. QED
      BY <3>1, <3>2 DEF Quiet
  <2>4. seqs'[e.run] # None /\ seqs'[e.run].token >= seqs[e.run].token
    BY <2>2, <2>3 DEF Quiet
  <2>5. seqs[e.run].token \in Nat /\ seqs'[e.run].token \in Nat
    BY <2>2, <2>3, <2>4 DEF HeldInv, GoodState, SequenceState
  <2>6. QED
    BY <2>1, <2>2, <2>3, <2>4, <2>5
<1>2. ASSUME frame["broker"] # None
      PROVE  LET x == log[frame["broker"]].run IN
             /\ seqs'[x].timer # "pending"
             /\ \A k \in DOMAIN timeouts' : timeouts'[k] # [run |-> x, token |-> seqs'[x].token]
  <2>1. PICK x : x = log[frame["broker"]].run
    OBVIOUS
  <2>2. /\ seqs'[x].timer = seqs[x].timer /\ seqs'[x].token = seqs[x].token
        /\ seqs[x].timer # "pending"
        /\ \A k \in DOMAIN timeouts : timeouts[k] # [run |-> x, token |-> seqs[x].token]
    BY <1>2, <2>1 DEF Quiet, TokenInv
  <2>3. ASSUME NEW k \in DOMAIN timeouts', timeouts'[k] = [run |-> x, token |-> seqs[x].token]
        PROVE  FALSE
    <3>1. PICK y \in Run : seqs[y].timer = "pending" /\ timeouts'[k] = [run |-> y, token |-> seqs[y].token]
      BY <2>2, <2>3 DEF Quiet
    <3>2. y = x
      BY <2>3, <3>1
    <3>3. QED
      BY <2>2, <3>1, <3>2
  <2>4. QED
    BY <2>1, <2>2, <2>3
<1>3. log' = log /\ frame' = frame
  BY DEF Quiet
<1>4. QED
  BY <1>1, <1>2, <1>3 DEF TokenInv

LEMMA QuietBehind ==
    ASSUME HeldInv, Quiet, BehindInv PROVE BehindInv'
<1>1. ASSUME last' # None, last'.by = "sequence", NEW x, x = last'.run
      PROVE  /\ x \in Run /\ seqs'[x] # None
             /\ last'.id <= seqs'[x].next
             /\ last'.id = seqs'[x].next => Draining(x)
  <2>1. last' = last /\ x = last.run
    BY <1>1 DEF Quiet
  <2>2. /\ x \in Run /\ seqs[x] # None /\ last.id <= seqs[x].next
        /\ last.id = seqs[x].next => Draining(x)
    BY <1>1, <2>1 DEF BehindInv
  <2>3. QED
    BY <2>1, <2>2 DEF Quiet
<1>2. ASSUME NEW k \in DOMAIN acks
      PROVE  seqs'[acks[k].run] # None /\ acks[k].seq < seqs'[acks[k].run].next
  <2>1. PICK e : e = acks[k]
    OBVIOUS
  <2>2. e.run \in Run
    <3>1. acks \in Seq([run : Run, seq : Nat])
      BY DEF HeldInv, RelayTypeOK
    <3>2. PICK T : T = [run : Run, seq : Nat]
      OBVIOUS
    <3>3. acks \in Seq(T)
      BY <3>1, <3>2
    <3>4. acks[k] \in T
      BY <3>3
    <3>5. QED
      BY <2>1, <3>2, <3>4
  <2>3. seqs[e.run] # None /\ e.seq < seqs[e.run].next
    BY <2>1 DEF BehindInv
  <2>4. QED
    BY <2>1, <2>2, <2>3 DEF Quiet
<1>3. /\ last' # None /\ last'.by = "sequence" =>
           \A x : x = last'.run =>
             /\ x \in Run /\ seqs'[x] # None
             /\ last'.id <= seqs'[x].next
             /\ last'.id = seqs'[x].next => Draining(x)
  BY <1>1
<1>4. acks' = acks /\ \A x : Draining(x)' <=> Draining(x)
  BY QuietFrames DEF Quiet
<1>5. QED
  BY <1>2, <1>3, <1>4 DEF BehindInv

LEMMA QuietReach ==
    ASSUME HeldInv, Quiet, ReachInv PROVE ReachInv'
<1>1. ASSUME NEW x \in Run, seqs'[x] # None
      PROVE  \E m \in 1..pos' : Of(m, x) /\ seqs'[x].next <= log[m].seq + 1
  <2>1. seqs[x] # None /\ seqs'[x].next = seqs[x].next
    BY <1>1 DEF Quiet
  <2>2. PICK m \in 1..pos : Of(m, x) /\ seqs[x].next <= log[m].seq + 1
    BY <2>1 DEF ReachInv
  <2>3. m \in 1..pos'
    BY QuietFrames DEF Quiet
  <2>4. QED
    BY <2>1, <2>2, <2>3
<1>2. log' = log
  BY DEF Quiet
<1>3. QED
  BY <1>1, <1>2, QuietFrames DEF ReachInv

\* What has been handled stays handled.
LEMMA HandledStays ==
    ASSUME log' = log, \A l \in DOMAIN handled : l \in DOMAIN handled' /\ handled'[l] = handled[l]
    PROVE  \A i : Handled(i) => Handled(i)'
BY DEF Handled, SameSequence

LEMMA QuietKept ==
    ASSUME HeldInv, Quiet, Filling, SteadyInv, KeptInv PROVE KeptInv'
<1>1. ASSUME NEW i \in 1..pos', log[i].seq > 0, ~Late(i), ~(Handled(i)')
      PROVE  Kept(i)'
  <2>1. i \in Nat /\ pos \in Nat /\ pos' \in Nat /\ i \in DOMAIN log /\ log[i].run \in Run
    BY <1>1, QuietFrames
  <2>2. CASE i > pos
    BY <2>2, <1>1 DEF Filling
  <2>3. CASE i <= pos
    <3>1. i \in 1..pos
      BY <2>1, <2>3
    <3>2. ~Handled(i)
      BY <1>1, HandledStays DEF Quiet
    <3>3. Kept(i) /\ seqs[log[i].run] # None
      BY <1>1, <3>1, <3>2 DEF KeptInv, SteadyInv
    <3>4. frame' = frame /\ log' = log
      BY DEF Quiet
    <3>5. (\E j \in seqs[log[i].run].buf : SameSequence(j, i))
            => \E j \in seqs'[log[i].run].buf : SameSequence(j, i)
      BY <3>3, <2>1 DEF Filling
    <3>6. QED
      BY <3>3, <3>4, <3>5, QuietFrames DEF Kept
  <2>4. QED
    BY <2>1, <2>2, <2>3
<1>2. QED
  BY <1>1, QuietFrames DEF KeptInv, Quiet
\* Whether something behind a gap is delivered again is up to the partition, the
\* reconnections and the restarts.
LEMMA OnceStays ==
    ASSUME log' = log, reconnects' = reconnects, restarts' = restarts
    PROVE  DeliveredOnce' <=> DeliveredOnce
BY DEF DeliveredOnce, SameSequence, Steady

\* Handling a message without a sequence brings nothing out of turn.
LEMMA QuietOrder ==
    ASSUME HeldInv, HeldInv', Quiet, DeliveredOnce' <=> DeliveredOnce,
           AcksMonotonic, NoOvertakingInRun
    PROVE  AcksMonotonic' /\ NoOvertakingInRun'
<1>1. AcksMonotonic'
  BY DEF AcksMonotonic, Quiet
<1>2. ASSUME DeliveredOnce, NEW k \in DOMAIN handled', NEW i \in DOMAIN log,
             log[i].seq > 0, ~Late(i), i < handled'[k],
             log[i].run = log[handled'[k]].run, log[i].seq < log[handled'[k]].seq
      PROVE  \E l \in 1..k : SameSequence(handled'[l], i)
  <2>0. handled \in Seq(DOMAIN log)
    BY DEF HeldInv, RelayTypeOK
  <2>1. Len(handled) \in Nat /\ DOMAIN handled = 1..Len(handled)
    BY <2>0
  <2>2. log[i].seq \in Nat
    BY QuietFrames
  <2>3. k \in DOMAIN handled
    BY <1>2, <2>2 DEF Quiet
  <2>4. handled'[k] = handled[k]
    BY <2>3 DEF Quiet
  <2>5. PICK l \in 1..k : SameSequence(handled[l], i)
    BY <1>2, <2>3, <2>4 DEF NoOvertakingInRun
  <2>6. l \in DOMAIN handled
    BY <2>1, <2>3, <2>5
  <2>7. QED
    BY <2>5, <2>6 DEF Quiet
<1>3. log' = log
  BY DEF Quiet
<1>4. NoOvertakingInRun'
  BY <1>2, <1>3, QuietFrames DEF NoOvertakingInRun
<1>5. QED
  BY <1>1, <1>4

LEMMA QuietOnce ==
    ASSUME HeldInv, HeldInv', Quiet, Filling, DeliveredOnce' <=> DeliveredOnce, OnceInv
    PROVE  OnceInv'
BY QuietInHand, QuietAhead, QuietSteady, QuietToken, QuietBehind, QuietReach, QuietKept, QuietOrder
   DEF OnceInv

\* A message that is not read fills no buffer.
LEMMA NothingRead ==
    ASSUME HeldInv, pos' = pos,
           \A x \in Run : seqs[x] # None => seqs'[x].buf = seqs[x].buf
    PROVE  Filling
<1>1. pos \in Nat
  BY LogTyped DEF HeldInv, RelayTypeOK
<1>2. QED
  BY <1>1 DEF Filling

LEMMA FireOnce ==
    ASSUME HeldInv, OnceInv, NEW r \in Run, Fire(r) PROVE OnceInv'
<1>1. /\ RelayTypeOK /\ log' = log /\ pos' = pos /\ frame' = frame /\ acks' = acks /\ last' = last
      /\ handled' = handled /\ reconnects' = reconnects /\ restarts' = restarts
      /\ seqs[r] # None /\ seqs[r].timer = "pending"
      /\ timeouts' = Append(timeouts, [run |-> r, token |-> seqs[r].token])
  BY DEF HeldInv, Fire, broker, out, bounds
<1>2. PICK d : d = [seqs[r] EXCEPT !.timer = "done"]
  OBVIOUS
<1>3. /\ d.next = seqs[r].next /\ d.token = seqs[r].token /\ d.buf = seqs[r].buf /\ d # None
      /\ d.token \in Nat
  <2>1. seqs[r] \in SequenceState
    BY <1>1 DEF HeldInv, GoodState
  <2>2. d \in SequenceState
    BY <1>2, <2>1 DEF SequenceState
  <2>3. QED
    BY <1>2, <2>1, <2>2, RelayConstants DEF SequenceState
<1>4. seqs'[r] = d /\ \A x \in Run : x # r => seqs'[x] = seqs[x]
  BY <1>1, <1>2 DEF Fire, RelayTypeOK
<1>5. \A x \in Run :
         /\ seqs'[x] = None <=> seqs[x] = None
         /\ seqs[x] # None => /\ seqs'[x].next = seqs[x].next /\ seqs'[x].buf = seqs[x].buf
                              /\ seqs'[x].token >= seqs[x].token
  <2>1. \A x \in Run : seqs[x] # None => seqs[x].token \in Nat
    BY DEF HeldInv, GoodState, SequenceState
  <2>2. QED
    BY <1>1, <1>3, <1>4, <2>1
<1>6. ASSUME NEW k \in DOMAIN timeouts'
      PROVE  \/ \E l \in DOMAIN timeouts : timeouts'[k] = timeouts[l]
             \/ timeouts'[k] = [run |-> r, token |-> seqs[r].token]
  <2>1. timeouts \in Seq([run : Run, token : Nat]) /\ Len(timeouts) \in Nat
        /\ DOMAIN timeouts = 1..Len(timeouts)
    BY <1>1 DEF RelayTypeOK
  <2>2. PICK e : e = [run |-> r, token |-> seqs[r].token]
    OBVIOUS
  <2>3. timeouts' = Append(timeouts, e)
    BY <1>1, <2>2
  <2>4. k \in 1..Len(timeouts) + 1
    BY <2>1, <2>3
  <2>5. CASE k \in 1..Len(timeouts)
    BY <2>1, <2>3, <2>5
  <2>6. CASE k = Len(timeouts) + 1
    BY <2>1, <2>2, <2>3, <2>6
  <2>7. QED
    BY <2>1, <2>4, <2>5, <2>6
<1>7. frame["broker"] # None =>
         LET x == log[frame["broker"]].run IN
         seqs'[x].timer = seqs[x].timer /\ seqs'[x].token = seqs[x].token
  <2>1. ASSUME frame["broker"] # None
        PROVE  log[frame["broker"]].run # r /\ log[frame["broker"]].run \in Run
    BY <1>1, <2>1 DEF OnceInv, TokenInv, HeldInv, Task
  <2>2. QED
    BY <1>4, <2>1
<1>8. pos' \in 0..Len(log) /\ pos <= pos'
  BY <1>1, LogTyped DEF RelayTypeOK
<1>9. handled \in Seq(DOMAIN log)
  BY <1>1 DEF RelayTypeOK
<1>10. Quiet
  BY <1>1, <1>5, <1>6, <1>7, <1>8 DEF Quiet
<1>11. Filling
  BY <1>1, <1>5, NothingRead
<1>12. QED
  BY <1>1, <1>10, <1>11, FireHeld, OnceStays, QuietOnce

LEMMA IdleOnce ==
    ASSUME HeldInv, OnceInv, HandleTimeout, ~Due(Head(timeouts).run) PROVE OnceInv'
<1>1. PICK r : r = Head(timeouts).run
  OBVIOUS
<1>2. /\ RelayTypeOK /\ log' = log /\ pos' = pos /\ acks' = acks /\ frame' = frame /\ last' = last
      /\ handled' = handled /\ reconnects' = reconnects /\ restarts' = restarts
      /\ r \in Run /\ Head(timeouts).run = r
  BY <1>1, TimeoutTaken, IdleTimeout DEF HandleTimeout, broker, out, bounds
<1>3. \A x \in Run : seqs[x] # None => seqs[x].token \in Nat /\ seqs[x] \in SequenceState
  BY DEF HeldInv, GoodState, SequenceState
<1>4. /\ \A x \in Run :
           /\ seqs'[x] = None <=> seqs[x] = None
           /\ seqs[x] # None => /\ seqs'[x].next = seqs[x].next /\ seqs'[x].buf = seqs[x].buf
                                /\ seqs'[x].token = seqs[x].token
      /\ frame["broker"] # None =>
           LET x == log[frame["broker"]].run IN seqs'[x].timer = seqs[x].timer
  <2>1. CASE seqs' = seqs
    BY <2>1
  <2>2. CASE /\ seqs[r] # None /\ seqs[r].token = Head(timeouts).token
             /\ seqs' = [seqs EXCEPT ![r].timer = "none"]
    <3>1. PICK d : d = [seqs[r] EXCEPT !.timer = "none"]
      OBVIOUS
    <3>2. d.next = seqs[r].next /\ d.buf = seqs[r].buf /\ d.token = seqs[r].token /\ d # None
      <4>1. d \in SequenceState
        BY <1>2, <1>3, <2>2, <3>1 DEF SequenceState
      <4>2. QED
        BY <1>2, <1>3, <2>2, <3>1, <4>1, RelayConstants DEF SequenceState
    <3>3. seqs'[r] = d /\ \A x \in Run : x # r => seqs'[x] = seqs[x]
      BY <1>2, <2>2, <3>1 DEF RelayTypeOK
    <3>4. ASSUME frame["broker"] # None, log[frame["broker"]].run = r PROVE FALSE
      <4>1. \A k \in DOMAIN timeouts : timeouts[k] # [run |-> r, token |-> seqs[r].token]
        BY <3>4 DEF OnceInv, TokenInv
      <4>2. /\ timeouts[1] = Head(timeouts) /\ timeouts \in Seq([run : Run, token : Nat])
            /\ timeouts # <<>>
        BY TimeoutTaken
      <4>3. 1 \in DOMAIN timeouts
        BY <4>2
      <4>4. PICK e : e = timeouts[1]
        OBVIOUS
      <4>5. e \in [run : Run, token : Nat]
        <5>1. PICK T : T = [run : Run, token : Nat]
          OBVIOUS
        <5>2. timeouts \in Seq(T)
          BY <4>2, <5>1
        <5>3. timeouts[1] \in T
          BY <5>2, <4>3
        <5>4. QED
          BY <4>4, <5>1, <5>3
      <4>6. e = [run |-> r, token |-> seqs[r].token]
        BY <4>2, <4>4, <4>5, <2>2, <1>1
      <4>7. QED
        BY <4>1, <4>3, <4>4, <4>6
    <3>5. frame["broker"] # None => log[frame["broker"]].run \in Run
      BY DEF HeldInv, Task
    <3>6. QED
      BY <2>2, <3>2, <3>3, <3>4, <3>5
  <2>3. QED
    BY <1>1, <2>1, <2>2, IdleTimeout
<1>5. \A k \in DOMAIN timeouts' : \E l \in DOMAIN timeouts : timeouts'[k] = timeouts[l]
  BY TimeoutTaken
<1>6. frame["broker"] # None => log[frame["broker"]].run \in Run /\ seqs[log[frame["broker"]].run] # None
  BY DEF HeldInv, Task
<1>7. pos' \in 0..Len(log) /\ pos <= pos'
  BY <1>2, LogTyped DEF RelayTypeOK
<1>8. \A x \in Run : seqs[x] # None => seqs'[x].token >= seqs[x].token
  BY <1>3, <1>4
<1>9. Quiet
  BY <1>2, <1>4, <1>5, <1>6, <1>7, <1>8 DEF Quiet
<1>10. Filling
  BY <1>2, <1>4, NothingRead
<1>11. QED
  BY <1>2, <1>9, <1>10, TimeoutHeld, OnceStays, QuietOnce
\* A position before another one of its run that came in turn came in turn itself.
LEMMA SteadyBefore ==
    ASSUME RelayTypeOK, NEW i \in DOMAIN log, NEW k \in 1..i, Steady(i), log[k].run = log[i].run
    PROVE  Steady(k)
<1>1. i \in Nat /\ k \in Nat /\ k <= i
  BY LogTyped
<1>2. \A j \in 1..k : j \in 1..i
  BY <1>1
<1>3. QED
  BY <1>2 DEF Steady

LEMMA PlainOnce ==
    ASSUME HeldInv, OnceInv, ReceivePlain PROVE OnceInv'
<1>1. /\ RelayTypeOK /\ log' = log /\ seqs' = seqs /\ frame' = frame /\ timeouts' = timeouts
      /\ acks' = acks /\ reconnects' = reconnects /\ restarts' = restarts
  BY DEF HeldInv, ReceivePlain
<1>2. /\ pos' \in DOMAIN log /\ pos' \in 0..Len(log) /\ pos' = pos + 1 /\ pos \in Nat
      /\ frame["broker"] = None /\ log[pos'].seq = 0
  BY <1>1, ReadsNext DEF ReceivePlain
<1>3. last' # None /\ last'.by # "sequence"
  <2>1. last' = Marker(pos')
    BY DEF ReceivePlain
  <2>2. Marker(pos') \in MarkerState /\ Marker(pos').by = "etag"
    BY <1>1, <1>2, LogTyped
  <2>3. QED
    BY <2>1, <2>2, RelayConstants
<1>4. /\ \A l \in DOMAIN handled : l \in DOMAIN handled' /\ handled'[l] = handled[l]
      /\ \A l \in DOMAIN handled' : l \in DOMAIN handled \/ log[handled'[l]].seq = 0
  <2>1. CASE handled' = handled
    BY <2>1
  <2>2. CASE handled' = Append(handled, pos')
    <3>1. handled \in Seq(DOMAIN log) /\ Len(handled) \in Nat /\ DOMAIN handled = 1..Len(handled)
      BY <1>1 DEF RelayTypeOK
    <3>2. DOMAIN handled' = 1..Len(handled) + 1 /\ handled'[Len(handled) + 1] = pos'
      BY <2>2, <3>1
    <3>3. \A l \in DOMAIN handled : l \in DOMAIN handled' /\ handled'[l] = handled[l]
      BY <2>2, <3>1
    <3>4. \A l \in DOMAIN handled' : l \in DOMAIN handled \/ l = Len(handled) + 1
      BY <3>1, <3>2
    <3>5. QED
      BY <1>2, <3>2, <3>3, <3>4
  <2>3. QED
    BY <2>1, <2>2 DEF ReceivePlain
<1>5. \A x \in Run : seqs[x] # None => seqs[x].token \in Nat
  BY DEF HeldInv, GoodState, SequenceState
<1>6. Quiet
  BY <1>1, <1>2, <1>3, <1>4, <1>5 DEF Quiet
<1>7. \A i \in 1..pos' : i > pos => i = pos'
  BY <1>2
<1>8. Filling
  BY <1>1, <1>2, <1>7 DEF Filling
<1>9. QED
  BY <1>1, <1>6, <1>8, PlainHeld, OnceStays, QuietOnce

\* A dropped message is late, or another delivery of one that has been handled.
LEMMA DroppedHandled ==
    ASSUME HeldInv, OnceInv, NEW i \in DOMAIN log, i = pos + 1, log[i].seq > 0,
           seqs[log[i].run] # None, log[i].seq < seqs[log[i].run].next, ~Late(i)
    PROVE  Handled(i)
<1>1. PICK r : r = log[i].run
  OBVIOUS
<1>2. /\ r \in Run /\ RelayTypeOK /\ log[i].seq \in Nat /\ seqs[r].next \in Nat /\ pos \in Nat
      /\ DOMAIN log = 1..Len(log) /\ Len(log) \in Nat /\ pos <= Len(log)
  BY <1>1, LogTyped DEF HeldInv, RelayTypeOK, GoodState, SequenceState
<1>3. PICK m \in 1..pos : Of(m, r) /\ seqs[r].next <= log[m].seq + 1
  BY <1>1, <1>2 DEF OnceInv, ReachInv
<1>4. m \in DOMAIN log /\ log[m].run = r /\ log[m].seq > 0 /\ log[m].seq \in Nat /\ m \in 1..i - 1
  BY <1>2, <1>3, LogTyped DEF Of
<1>5. log[m].seq = log[i].seq
  <2>1. ~(log[m].seq > log[i].seq)
    BY <1>1, <1>4 DEF Late
  <2>2. QED
    BY <2>1, <1>1, <1>2, <1>3, <1>4
<1>6. ~Late(m)
  <2>1. SUFFICES ASSUME NEW n \in 1..m - 1, log[n].run = log[m].run, log[n].seq > log[m].seq
                 PROVE  FALSE
    BY DEF Late
  <2>2. n \in 1..i - 1
    BY <1>4, <1>2
  <2>3. QED
    BY <2>1, <2>2, <1>1, <1>4, <1>5 DEF Late
<1>7. Handled(m) \/ Kept(m)
  BY <1>3, <1>4, <1>6 DEF OnceInv, KeptInv
<1>8. ~Kept(m)
  <2>1. ASSUME NEW j \in seqs[r].buf, SameSequence(j, m) PROVE FALSE
    <3>1. log[j].seq > seqs[r].next
      BY <1>1, <1>2 DEF OnceInv, AheadInv
    <3>2. log[j].seq = log[i].seq
      BY <2>1, <1>5 DEF SameSequence
    <3>3. QED
      BY <3>1, <3>2, <1>1, <1>2
  <2>2. ASSUME NEW u \in Task, frame[u] # None, SameSequence(frame[u], m) PROVE FALSE
    <3>1. log[frame[u]].seq = seqs[r].next
      BY <2>2, <1>4 DEF OnceInv, InHandInv, SameSequence
    <3>2. log[frame[u]].seq = log[i].seq
      BY <2>2, <1>5 DEF SameSequence
    <3>3. log[i].seq # seqs[r].next
      BY <1>1, <1>2
    <3>4. QED
      BY <3>1, <3>2, <3>3
  <2>3. QED
    BY <2>1, <2>2, <1>4 DEF Kept
<1>9. QED
  BY <1>1, <1>4, <1>5, <1>7, <1>8 DEF Handled, SameSequence

LEMMA DropOnce ==
    ASSUME HeldInv, OnceInv, DropStale PROVE OnceInv'
<1>1. /\ RelayTypeOK /\ log' = log /\ seqs' = seqs /\ frame' = frame /\ timeouts' = timeouts
      /\ last' = last /\ handled' = handled
      /\ acks' = acks /\ reconnects' = reconnects /\ restarts' = restarts
  BY DEF HeldInv, DropStale, relayState, out
<1>2. PICK i : i = pos'
  OBVIOUS
<1>3. /\ i \in DOMAIN log /\ i \in 0..Len(log) /\ i = pos + 1 /\ pos \in Nat
      /\ frame["broker"] = None /\ log[i].seq > 0 /\ log[i].seq < StateFor(i).next
  BY <1>1, <1>2, ReadsNext DEF DropStale
<1>4. /\ log[i].run \in Run /\ log[i].seq \in Nat
      /\ seqs[log[i].run] # None /\ log[i].seq < seqs[log[i].run].next
  <2>1. log[i].run \in Run /\ log[i].seq \in Nat
    BY <1>1, <1>3, LogTyped
  <2>2. seqs[log[i].run] # None
    BY <2>1, <1>3, StateForGood
  <2>3. StateFor(i) = seqs[log[i].run]
    BY <2>2 DEF StateFor
  <2>4. QED
    BY <2>1, <2>2, <2>3, <1>3
<1>5. ~Late(i) => Handled(i)
  BY <1>3, <1>4, DroppedHandled
<1>6. handled \in Seq(DOMAIN log) /\ \A x \in Run : seqs[x] # None => seqs[x].token \in Nat
  BY <1>1 DEF HeldInv, GoodState, SequenceState, RelayTypeOK
<1>7. Quiet
  BY <1>1, <1>2, <1>3, <1>6 DEF Quiet
<1>8. \A k \in 1..pos' : k > pos => k = i
  BY <1>2, <1>3
<1>9. Handled(i) => Handled(i)'
  BY <1>1, HandledStays
<1>10. Filling
  BY <1>1, <1>4, <1>5, <1>8, <1>9 DEF Filling
<1>11. QED
  BY <1>1, <1>7, <1>10, DropHeld, OnceStays, QuietOnce

\* A message that arrives ahead came after a gap: else the expected one was read before,
\* and came in turn, and the broker task would still have it.
LEMMA AheadUnsteady ==
    ASSUME HeldInv, OnceInv, NEW i \in DOMAIN log, i = pos + 1, log[i].seq > 0,
           seqs[log[i].run] # None, log[i].seq > seqs[log[i].run].next, frame["broker"] = None,
           Steady(i)
    PROVE  FALSE
<1>1. PICK r : r = log[i].run
  OBVIOUS
<1>2. /\ r \in Run /\ RelayTypeOK /\ log[i].seq \in Nat /\ seqs[r].next \in Nat /\ pos \in Nat
      /\ DOMAIN log = 1..Len(log) /\ Len(log) \in Nat
  BY <1>1, LogTyped DEF HeldInv, RelayTypeOK, GoodState, SequenceState
<1>3. seqs[r].next > 0
  BY <1>1, <1>2 DEF OnceInv, AheadInv
<1>4. seqs[r].next \in 1..log[i].seq /\ i \in 1..i
  BY <1>1, <1>2, <1>3
<1>5. PICK k \in 1..i : log[k].run = r /\ log[k].seq = seqs[r].next
  BY <1>1, <1>4 DEF Steady
<1>6. k \in 1..pos
  BY <1>1, <1>2, <1>5
<1>7. Steady(k)
  BY <1>1, <1>2, <1>5, SteadyBefore
<1>8. QED
  BY <1>3, <1>5, <1>6, <1>7 DEF OnceInv, SteadyInv

LEMMA BufferOnce ==
    ASSUME HeldInv, OnceInv, BufferAhead PROVE OnceInv'
<1>1. /\ RelayTypeOK /\ log' = log /\ frame' = frame /\ timeouts' = timeouts /\ handled' = handled
      /\ last' = last /\ acks' = acks /\ reconnects' = reconnects /\ restarts' = restarts
  BY DEF HeldInv, BufferAhead, out
<1>2. PICK i, r : i = pos' /\ r = log[i].run
  OBVIOUS
<1>3. /\ i \in DOMAIN log /\ i \in 0..Len(log) /\ i = pos + 1 /\ pos \in Nat
      /\ frame["broker"] = None /\ log[i].seq > 0 /\ log[i].seq > StateFor(i).next
      /\ r \in Run /\ log[i].seq \in Nat
  BY <1>1, <1>2, ReadsNext, BufferAsCarry, LogTyped DEF BufferAhead
<1>4. /\ seqs[r] # None /\ StateFor(i) = seqs[r] /\ GoodState(seqs[r], r) /\ Of(i, r)
  BY <1>2, <1>3, StateForGood
<1>5. log[i].seq > seqs[r].next /\ ~Steady(i)
  BY <1>2, <1>3, <1>4, AheadUnsteady
<1>6. PICK s, a : s = seqs[r] /\ a = Ahead(s, i)
  OBVIOUS
<1>7. /\ GoodState(a, r) /\ a.next = s.next
      /\ \A j : j \in a.buf <=> j \in s.buf \/ (j = i /\ log[i].seq \notin BufferedSeqs(s))
  BY <1>1, <1>3, <1>4, <1>6, AheadGood
<1>8. a.token >= s.token /\ a.token \in Nat /\ s.token \in Nat /\ a # None
  <2>1. PICK b : b = [s EXCEPT !.buf = IF log[i].seq \in BufferedSeqs(s) THEN s.buf ELSE s.buf \cup {i}]
    OBVIOUS
  <2>2. a = Scheduled(b)
    BY <1>6, <2>1 DEF Ahead
  <2>3. s \in SequenceState /\ b.token = s.token
    BY <1>4, <1>6, <2>1 DEF GoodState, SequenceState
  <2>4. a \in SequenceState
    BY <1>7 DEF GoodState
  <2>5. a.token = b.token \/ a.token = b.token + 1
    <3>1. CASE b.timer = "pending"
      BY <3>1, <2>2 DEF Scheduled
    <3>2. CASE b.timer # "pending"
      <4>1. DOMAIN b = DOMAIN s /\ DOMAIN s = {"next", "buf", "timer", "token"}
        BY <2>1, <2>3 DEF SequenceState
      <4>2. a = [b EXCEPT !.timer = "pending", !.token = b.token + 1]
        BY <3>2, <2>2 DEF Scheduled
      <4>3. QED
        BY <4>1, <4>2
    <3>3. QED
      BY <3>1, <3>2
  <2>6. QED
    BY <2>3, <2>4, <2>5, RelayConstants DEF SequenceState
<1>9. seqs'[r] = a /\ \A x \in Run : x # r => seqs'[x] = seqs[x]
  <2>1. Carry("broker", r, Outcome(a, None, last))
    BY <1>2, <1>4, <1>6, BufferAsCarry
  <2>2. seqs' = [seqs EXCEPT ![r] = a]
    BY <2>1 DEF Carry, Outcome
  <2>3. QED
    BY <2>2, <1>1, <1>3 DEF RelayTypeOK
<1>10. handled \in Seq(DOMAIN log) /\ \A x \in Run : seqs[x] # None => seqs[x].token \in Nat
  BY <1>1 DEF HeldInv, GoodState, SequenceState, RelayTypeOK
<1>11. \A x \in Run :
         /\ seqs'[x] = None <=> seqs[x] = None
         /\ seqs[x] # None => seqs'[x].next = seqs[x].next /\ seqs'[x].token >= seqs[x].token
  BY <1>4, <1>6, <1>7, <1>8, <1>9, <1>10
<1>12. Quiet
  BY <1>1, <1>2, <1>3, <1>10, <1>11 DEF Quiet
<1>13. Kept(i)'
  <2>1. CASE log[i].seq \in BufferedSeqs(s)
    <3>1. PICK j \in s.buf : log[j].seq = log[i].seq
      BY <2>1 DEF BufferedSeqs
    <3>2. log[j].run = r /\ j \in a.buf
      BY <3>1, <1>4, <1>6, <1>7 DEF GoodState, Of
    <3>5. SameSequence(j, i)
      BY <3>1, <3>2, <1>2 DEF SameSequence
    <3>3. SameSequence(j, i)'
      BY <3>5, <1>1, LogStays
    <3>4. QED
      BY <3>2, <3>3, <1>1, <1>2, <1>9 DEF Kept
  <2>2. CASE log[i].seq \notin BufferedSeqs(s)
    <3>1. i \in a.buf /\ SameSequence(i, i)'
      BY <2>2, <1>7 DEF SameSequence
    <3>2. QED
      BY <3>1, <1>1, <1>2, <1>9 DEF Kept
  <2>3. QED
    BY <2>1, <2>2
<1>14. ASSUME NEW j \in a.buf
       PROVE  j \in s.buf \/
         /\ j > pos /\ j <= pos' /\ ~Steady(j) /\ log[j].seq > s.next
         /\ \A k \in a.buf : log[k].seq = log[j].seq => k = j
  <2>1. CASE j \in s.buf
    BY <2>1
  <2>2. CASE j \notin s.buf
    <3>1. j = i /\ log[i].seq \notin BufferedSeqs(s)
      BY <2>2, <1>14, <1>7
    <3>2. \A k \in s.buf : log[k].seq # log[i].seq
      BY <3>1 DEF BufferedSeqs
    <3>3. \A k \in a.buf : log[k].seq = log[i].seq => k = i
      BY <3>2, <1>7
    <3>4. j > pos /\ j <= pos'
      BY <3>1, <1>2, <1>3
    <3>5. QED
      BY <3>1, <3>3, <3>4, <1>5, <1>6
  <2>3. QED
    BY <2>1, <2>2
<1>15. \A k \in 1..pos' : k > pos => k = i
  BY <1>2, <1>3
<1>16. \A x \in Run : seqs[x] # None => \A j \in seqs[x].buf : j \in seqs'[x].buf
  BY <1>6, <1>7, <1>9
<1>17. \A x \in Run : seqs[x] # None => \A j \in seqs'[x].buf : j \in seqs[x].buf \/
         /\ j > pos /\ j <= pos' /\ ~Steady(j) /\ log[j].seq > seqs[x].next
         /\ \A k \in seqs'[x].buf : log[k].seq = log[j].seq => k = j
  BY <1>6, <1>9, <1>14
<1>18. Filling
  BY <1>2, <1>4, <1>5, <1>13, <1>15, <1>16, <1>17 DEF Filling
<1>19. QED
  BY <1>1, <1>12, <1>18, BufferHeld, OnceStays, QuietOnce
-----------------------------------------------------------------------------
(* The steps that deliver *)

\* What a task leaves behind after a message with sequence q, when no other delivery has
\* left the marker of the next one.
Drained(o, s, q) ==
    /\ o.st.next = q + 1 /\ o.st.token >= s.token
    /\ \/ /\ o.msg = None /\ o.st.buf = s.buf /\ o.mark = last
          /\ \A i \in s.buf : log[i].seq # q + 1
       \/ /\ o.msg \in s.buf /\ log[o.msg].seq = q + 1 /\ o.st.buf = s.buf \ {o.msg}
          /\ o.mark = Marker(o.msg) /\ o.st.timer = s.timer /\ o.st.token = s.token

LEMMA RestedToken ==
    ASSUME NEW r \in Run, NEW s, GoodState(s, r)
    PROVE  Rested(s).token >= s.token
<1>1. s \in SequenceState /\ s.token \in Nat
  BY DEF GoodState, SequenceState
<1>2. CASE s.buf = {}
  <2>1. Rested(s).token = s.token + 1
    BY <1>2, ClearedGood DEF Rested
  <2>2. QED
    BY <1>1, <2>1
<1>3. CASE s.buf # {} /\ s.timer = "pending"
  BY <1>1, <1>3 DEF Rested, Scheduled
<1>4. CASE s.buf # {} /\ s.timer # "pending"
  <2>1. Rested(s) = [s EXCEPT !.timer = "pending", !.token = s.token + 1]
    BY <1>4 DEF Rested, Scheduled
  <2>2. DOMAIN s = {"next", "buf", "timer", "token"}
    BY <1>1 DEF SequenceState
  <2>3. Rested(s).token = s.token + 1
    BY <2>1, <2>2
  <2>4. QED
    BY <1>1, <2>3
<1>5. QED
  BY <1>2, <1>3, <1>4

LEMMA ResumedDrained ==
    ASSUME RelayTypeOK, NEW r \in Run, NEW s, GoodState(s, r), NEW i, Of(i, r),
           \A j \in s.buf : log[j].seq = log[i].seq + 1 => last # Marker(j)
    PROVE  Drained(Resumed(s, i), s, log[i].seq)
<1>1. PICK q, t : q = log[i].seq /\ t = [s EXCEPT !.next = q + 1]
  OBVIOUS
<1>2. q \in Nat
  BY <1>1, LogTyped DEF Of
<1>3. /\ t \in SequenceState /\ t.buf = s.buf /\ t.next = q + 1
      /\ t.token = s.token /\ t.timer = s.timer /\ s.token \in Nat
  BY <1>1, <1>2 DEF GoodState, SequenceState
<1>4. GoodState(t, r)
  BY <1>3 DEF GoodState
<1>5. CASE AtNext(t) = {}
  <2>1. Resumed(s, i) = Outcome(Rested(t), None, last)
    BY <1>1, <1>5 DEF Resumed
  <2>2. Rested(t).buf = s.buf /\ Rested(t).next = q + 1 /\ Rested(t).token >= s.token
    BY <1>3, <1>4, RestedGood, RestedToken
  <2>3. \A j \in s.buf : log[j].seq # q + 1
    BY <1>3, <1>5 DEF AtNext
  <2>4. QED
    BY <1>1, <2>1, <2>2, <2>3 DEF Drained, Outcome
<1>6. CASE AtNext(t) # {}
  <2>1. PICK j : j = CHOOSE k \in AtNext(t) : TRUE
    OBVIOUS
  <2>2. j \in s.buf /\ log[j].seq = q + 1
    BY <1>3, <1>6, <2>1 DEF AtNext
  <2>3. last # Marker(j)
    BY <1>1, <2>2
  <2>4. Resumed(s, i) = Outcome(Popped(t, j), j, Marker(j))
    BY <1>1, <1>6, <2>1, <2>3 DEF Resumed, Delivered
  <2>5. /\ Popped(t, j).next = q + 1 /\ Popped(t, j).token = s.token
        /\ Popped(t, j).timer = s.timer /\ Popped(t, j).buf = s.buf \ {j}
    BY <1>3 DEF Popped, SequenceState
  <2>6. QED
    BY <1>1, <1>3, <2>2, <2>4, <2>5 DEF Drained, Outcome
<1>7. QED
  BY <1>5, <1>6

\* What has not been delivered yet is not what was delivered last.
LEMMA NotLast ==
    ASSUME HeldInv, BehindInv, NEW i, NEW r \in Run, Of(i, r), seqs[r] # None,
           log[i].seq > seqs[r].next
    PROVE  last # Marker(i)
<1>1. /\ Marker(i) = [run |-> r, id |-> log[i].seq, by |-> "sequence"]
      /\ Marker(i) \in MarkerState /\ log[i].seq \in Nat /\ seqs[r].next \in Nat
  BY LogTyped DEF HeldInv, Of, GoodState, SequenceState
<1>2. SUFFICES ASSUME last = Marker(i) PROVE FALSE
  OBVIOUS
<1>3. last # None /\ last.by = "sequence" /\ last.run = r /\ last.id = log[i].seq
  BY <1>1, <1>2, RelayConstants
<1>4. last.id <= seqs[r].next
  BY <1>3 DEF BehindInv
<1>5. QED
  BY <1>1, <1>3, <1>4

LEMMA CarryOnce ==
    ASSUME HeldInv, HeldInv', OnceInv, NEW t \in Task, NEW r \in Run, NEW o,
           Sound(t, r, o), Upward(t, r, o), Timely(t, r, o), Keeping(t, r, o),
           AcksMonotonic', NoOvertakingInRun'
    PROVE  OnceInv'
BY CarryInHand, CarryAhead, CarrySteady, CarryToken, CarryBehind, CarryReach, CarryKept DEF OnceInv
LEMMA ReceiveOnce ==
    ASSUME HeldInv, OnceInv, DeliveredOnce, ReceiveNext PROVE OnceInv'
<1>1. /\ RelayTypeOK /\ log' = log /\ timeouts' = timeouts /\ handled' = handled
      /\ acks' = acks /\ reconnects' = reconnects /\ restarts' = restarts
  BY DEF HeldInv, ReceiveNext, out
<1>2. PICK i, r : i = pos' /\ r = log[i].run
  OBVIOUS
<1>3. PICK S, s : S = StateFor(i) /\ s = Cleared(S)
  OBVIOUS
<1>4. /\ i \in DOMAIN log /\ Of(i, r) /\ r \in Run /\ GoodState(S, r) /\ GoodState(s, r)
      /\ log[i].seq = S.next /\ frame["broker"] = None
      /\ Going(Delivered(s, i, last), r) /\ Carry("broker", r, Delivered(s, i, last))
  BY <1>2, <1>3, ReceiveAsCarry
<1>5. /\ i \in 0..Len(log) /\ i = pos + 1 /\ pos \in Nat /\ log[i].seq > 0 /\ log[i].seq \in Nat
      /\ DOMAIN log = 1..Len(log) /\ Len(log) \in Nat
  BY <1>1, <1>2, <1>4, ReadsNext, LogTyped DEF ReceiveNext, Of
<1>6. seqs[r] # None => S = seqs[r]
  BY <1>2, <1>3 DEF StateFor
<1>7. seqs[r] = None => S.buf = {}
  BY <1>2, <1>3 DEF StateFor
\* A drain of the worker would be of another delivery of this message.
<1>8. \A u \in Task : frame[u] # None => log[frame[u]].run # r
  <2>1. SUFFICES ASSUME frame["worker"] # None, log[frame["worker"]].run = r PROVE FALSE
    BY <1>4 DEF Task
  <2>2. PICK w : w = frame["worker"]
    OBVIOUS
  <2>3. w \in DOMAIN log /\ log[w].seq > 0 /\ seqs[r] # None
    BY <2>1, <2>2, <1>1 DEF HeldInv, RelayTypeOK, Task
  <2>4. w <= pos /\ log[w].seq = seqs[r].next
    BY <2>1, <2>2 DEF OnceInv, InHandInv, Task
  <2>5. w < i /\ SameSequence(w, i)
    BY <2>1, <2>2, <2>3, <2>4, <1>2, <1>4, <1>5, <1>6 DEF SameSequence
  <2>6. Steady(w)
    BY <2>3, <2>5, <1>4 DEF DeliveredOnce
  <2>7. QED
    BY <2>1, <2>2, <2>6 DEF OnceInv, AheadInv
<1>9. last # Marker(i)
  <2>1. SUFFICES ASSUME last = Marker(i) PROVE FALSE
    OBVIOUS
  <2>2. /\ Marker(i) = [run |-> r, id |-> log[i].seq, by |-> "sequence"]
        /\ Marker(i) \in MarkerState
    BY <1>1, <1>2, <1>4, <1>5, LogTyped
  <2>3. last # None /\ last.by = "sequence" /\ last.run = r /\ last.id = log[i].seq
    BY <2>1, <2>2, RelayConstants
  <2>4. seqs[r] # None /\ (last.id = seqs[r].next => Draining(r))
    BY <2>3 DEF OnceInv, BehindInv
  <2>5. Draining(r)
    BY <2>3, <2>4, <1>4, <1>6
  <2>6. QED
    BY <2>5, <1>8 DEF Draining
<1>10. PICK o : o = Delivered(s, i, last)
  OBVIOUS
<1>11. o = Outcome(s, i, Marker(i)) /\ o.st = s /\ o.msg = i /\ o.mark = Marker(i)
  BY <1>9, <1>10 DEF Delivered, Outcome
<1>12. /\ s.timer = "none" /\ s.buf = S.buf /\ s.next = S.next /\ s.token = S.token + 1
       /\ S.token \in Nat /\ S.next \in Nat
  BY <1>3, <1>4, ClearedGood DEF GoodState, SequenceState
<1>13. Sound("broker", r, o)
  BY <1>1, <1>2, <1>4, <1>5, <1>8, <1>10 DEF Sound
<1>14. \A j \in S.buf : /\ j <= pos /\ j \in Nat /\ log[j].seq > S.next /\ ~Steady(j)
                        /\ \A k \in S.buf : log[k].seq = log[j].seq => j = k
  BY <1>4, <1>6, <1>7 DEF OnceInv, AheadInv, GoodState, SequenceState
<1>15. \A j \in 1..pos' : j > pos => j = i
  BY <1>2, <1>5
<1>16. Upward("broker", r, o)
  <2>1. o.st.next > 0
    BY <1>4, <1>5, <1>11, <1>12
  <2>2. seqs[r] # None =>
         /\ o.st.next >= seqs[r].next /\ o.st.token >= seqs[r].token
         /\ frame["broker"] = None
    BY <1>4, <1>6, <1>11, <1>12
  <2>3. \A j \in o.st.buf :
         /\ j <= pos' /\ log[j].seq > o.st.next /\ ~Steady(j)
         /\ \A k \in o.st.buf : log[k].seq = log[j].seq => j = k
    BY <1>2, <1>5, <1>11, <1>12, <1>14
  <2>4. /\ o.msg # None /\ o.msg <= pos' /\ log[o.msg].seq = o.st.next /\ o.mark = Marker(o.msg)
    <3>1. i # None
      BY <1>5, RelayConstants
    <3>2. QED
      BY <3>1, <1>2, <1>4, <1>5, <1>11, <1>12
  <2>5. \E m \in 1..pos' : Of(m, r) /\ o.st.next <= log[m].seq + 1
    <3>1. i \in 1..pos' /\ S.next <= log[i].seq + 1
      BY <1>2, <1>4, <1>5
    <3>2. QED
      BY <3>1, <1>4, <1>11, <1>12
  <2>6. \A j \in 1..pos' : j > pos /\ log[j].seq > 0 =>
         /\ log[j].run = r
         /\ log[j].seq <= o.st.next
    BY <1>2, <1>4, <1>5, <1>11, <1>12, <1>15
  <2>7. QED
    BY <2>1, <2>2, <2>3, <2>4, <2>5, <2>6 DEF Upward
<1>17. Timely("broker", r, o)
  <2>1. ASSUME NEW k \in DOMAIN timeouts, timeouts[k] = [run |-> r, token |-> S.token + 1]
        PROVE  FALSE
    <3>1. PICK e : e = timeouts[k]
      OBVIOUS
    <3>2. e.run = r /\ e.token = S.token + 1
      BY <2>1, <3>1
    <3>3. seqs[e.run] # None /\ e.token <= seqs[e.run].token
      BY <3>1 DEF OnceInv, TokenInv
    <3>4. QED
      BY <3>2, <3>3, <1>6, <1>12
  <2>2. QED
    BY <2>1, <1>1, <1>11, <1>12 DEF Timely
<1>18. Keeping("broker", r, o)
  <2>1. \A j : Handled(j) => Handled(j)'
    BY <1>1, HandledStays
  <2>2. \A j : Of(j, r) => j # None
    BY <1>1, LogTyped, RelayConstants DEF Of
  <2>3. \A j \in seqs[r].buf : seqs[r] # None => j \in o.st.buf
    BY <1>6, <1>11, <1>12
  <2>4. Kept(i)'
    <3>1. frame'["broker"] = i
      BY <1>4, <1>10, <1>11, <1>1 DEF Carry, RelayTypeOK, Task
    <3>2. i # None
      BY <1>5, RelayConstants
    <3>3. SameSequence(i, i)'
      BY DEF SameSequence
    <3>4. QED
      BY <3>1, <3>2, <3>3 DEF Kept, Task
  <2>5. \A j \in 1..pos' : j > pos => Kept(j)'
    BY <2>4, <1>15
  <2>6. QED
    BY <2>1, <2>2, <2>3, <2>5, <1>1, <1>4 DEF Keeping
<1>19. AcksMonotonic' /\ NoOvertakingInRun'
  <2>1. DeliveredOnce' <=> DeliveredOnce
    BY <1>1, OnceStays
  <2>2. AcksMonotonic /\ NoOvertakingInRun
    BY DEF OnceInv
  <2>3. QED
    BY <2>1, <2>2, <1>1, LogStays DEF AcksMonotonic, NoOvertakingInRun
<1>20. QED
  BY <1>4, <1>13, <1>16, <1>17, <1>18, <1>19, ReceiveHeld, CarryOnce DEF Task
\* An acknowledgement of the expected sequence, and the handling of its message, extend what
\* has been acknowledged and handled in order.
LEMMA AckOrder ==
    ASSUME HeldInv, OnceInv, NEW t \in Task, NEW acked \in BOOLEAN, AckDone(t, acked),
           DeliveredOnce
    PROVE  AcksMonotonic' /\ NoOvertakingInRun'
<1>1. /\ RelayTypeOK /\ log' = log /\ pos' = pos /\ reconnects' = reconnects /\ restarts' = restarts
      /\ handled \in Seq(DOMAIN log) /\ acks \in Seq([run : Run, seq : Nat])
  BY DEF HeldInv, AckDone, RelayTypeOK
<1>2. PICK i, r : i = frame[t] /\ r = log[i].run
  OBVIOUS
<1>3. i \in DOMAIN log /\ Of(i, r) /\ r \in Run /\ seqs[r] # None /\ i # None
  BY <1>2, AckAsCarry DEF AckDone
<1>4. /\ log[i].seq = seqs[r].next /\ i <= pos /\ pos \in Nat /\ log[i].seq \in Nat /\ i \in Nat
      /\ DOMAIN log = 1..Len(log) /\ Len(log) \in Nat
  BY <1>1, <1>2, <1>3, LogTyped DEF OnceInv, InHandInv, RelayTypeOK
<1>5. PICK a : a = [run |-> r, seq |-> log[i].seq]
  OBVIOUS
<1>6. handled' = Append(handled, i) /\ acks' = (IF acked THEN Append(acks, a) ELSE acks)
  BY <1>2, <1>5 DEF AckDone
<1>7. /\ Len(handled) \in Nat /\ DOMAIN handled = 1..Len(handled)
      /\ DOMAIN handled' = 1..Len(handled) + 1 /\ handled'[Len(handled) + 1] = i
      /\ \A l \in DOMAIN handled : l \in DOMAIN handled' /\ handled'[l] = handled[l]
  BY <1>1, <1>3, <1>6
<1>8. AcksMonotonic'
  <2>1. \A k \in DOMAIN acks : acks[k].run = r => acks[k].seq < log[i].seq
    BY <1>4 DEF OnceInv, BehindInv
  <2>2. \A j, k \in DOMAIN acks : j < k /\ acks[j].run = acks[k].run => acks[j].seq < acks[k].seq
    BY DEF OnceInv, AcksMonotonic
  <2>3. CASE acks' = acks
    BY <2>2, <2>3 DEF AcksMonotonic
  <2>4. CASE acks' = Append(acks, a)
    <3>1. /\ Len(acks) \in Nat /\ DOMAIN acks = 1..Len(acks)
          /\ DOMAIN acks' = 1..Len(acks) + 1 /\ acks'[Len(acks) + 1] = a
          /\ \A l \in DOMAIN acks : l \in DOMAIN acks' /\ acks'[l] = acks[l]
      BY <1>1, <2>4
    <3>2. a.run = r /\ a.seq = log[i].seq
      BY <1>5
    <3>3. ASSUME NEW j \in DOMAIN acks', NEW k \in DOMAIN acks', j < k, acks'[j].run = acks'[k].run
          PROVE  acks'[j].seq < acks'[k].seq
      <4>1. j \in DOMAIN acks /\ acks'[j] = acks[j]
        BY <3>1, <3>3
      <4>2. CASE k \in DOMAIN acks
        BY <2>2, <3>1, <3>3, <4>1, <4>2
      <4>3. CASE k = Len(acks) + 1
        BY <2>1, <3>1, <3>2, <3>3, <4>1, <4>3
      <4>4. QED
        BY <3>1, <4>2, <4>3
    <3>4. QED
      BY <3>3 DEF AcksMonotonic
  <2>5. QED
    BY <2>3, <2>4, <1>6
<1>9. ASSUME NEW k \in DOMAIN handled', NEW n \in DOMAIN log,
             log[n].seq > 0, ~Late(n), n < handled'[k],
             log[n].run = log[handled'[k]].run, log[n].seq < log[handled'[k]].seq
      PROVE  \E l \in 1..k : SameSequence(handled'[l], n)
  <2>1. CASE k \in DOMAIN handled
    <3>1. handled'[k] = handled[k]
      BY <2>1, <1>7
    <3>2. PICK l \in 1..k : SameSequence(handled[l], n)
      BY <2>1, <3>1, <1>9 DEF OnceInv, NoOvertakingInRun
    <3>3. l \in DOMAIN handled
      BY <2>1, <3>2, <1>7
    <3>4. QED
      BY <3>2, <3>3, <1>7
  <2>2. CASE k = Len(handled) + 1
    <3>1. handled'[k] = i /\ n < i /\ log[n].run = r /\ log[n].seq < log[i].seq
      BY <2>2, <1>2, <1>7, <1>9
    <3>2. n \in 1..pos /\ log[n].seq \in Nat
      BY <3>1, <1>1, <1>4, LogTyped
    <3>3. Handled(n) \/ Kept(n)
      BY <3>2, <1>9 DEF OnceInv, KeptInv
    <3>4. ~Kept(n)
      <4>1. ASSUME NEW j \in seqs[r].buf, SameSequence(j, n) PROVE FALSE
        <5>1. log[j].seq > seqs[r].next
          BY <1>3 DEF OnceInv, AheadInv
        <5>2. log[j].seq = log[n].seq
          BY <4>1 DEF SameSequence
        <5>3. QED
          BY <5>1, <5>2, <3>1, <3>2, <1>4
      <4>2. ASSUME NEW u \in Task, frame[u] # None, SameSequence(frame[u], n) PROVE FALSE
        <5>1. log[frame[u]].seq = seqs[r].next
          BY <4>2, <3>1 DEF OnceInv, InHandInv, SameSequence
        <5>2. log[frame[u]].seq = log[n].seq
          BY <4>2 DEF SameSequence
        <5>3. log[n].seq # seqs[r].next
          BY <3>1, <3>2, <1>4
        <5>4. QED
          BY <5>1, <5>2, <5>3
      <4>3. QED
        BY <4>1, <4>2, <3>1 DEF Kept
    <3>5. PICK l \in DOMAIN handled : SameSequence(handled[l], n)
      BY <3>3, <3>4 DEF Handled
    <3>6. l \in 1..k /\ handled'[l] = handled[l]
      BY <2>2, <3>5, <1>7
    <3>7. QED
      BY <3>5, <3>6
  <2>3. QED
    BY <2>1, <2>2, <1>7
<1>10. NoOvertakingInRun'
  BY <1>1, <1>9, LogStays DEF NoOvertakingInRun
<1>11. QED
  BY <1>8, <1>10

LEMMA AckOnce ==
    ASSUME HeldInv, OnceInv, DeliveredOnce, NEW t \in Task, NEW acked \in BOOLEAN, AckDone(t, acked)
    PROVE  OnceInv'
<1>1. /\ RelayTypeOK /\ log' = log /\ timeouts' = timeouts /\ pos' = pos
      /\ handled \in Seq(DOMAIN log) /\ acks \in Seq([run : Run, seq : Nat])
  BY DEF HeldInv, AckDone, RelayTypeOK
<1>2. PICK i, r : i = frame[t] /\ r = log[i].run
  OBVIOUS
<1>3. PICK s, o : s = seqs[r] /\ o = Resumed(s, i)
  OBVIOUS
<1>4. /\ i \in DOMAIN log /\ Of(i, r) /\ r \in Run /\ s # None /\ GoodState(s, r)
      /\ Going(o, r) /\ Carry(t, r, o) /\ frame[t] # None
  BY <1>2, <1>3, AckAsCarry DEF AckDone
<1>5. /\ log[i].seq = s.next /\ i <= pos /\ pos \in Nat /\ log[i].seq \in Nat /\ log[i].seq > 0
      /\ DOMAIN log = 1..Len(log) /\ Len(log) \in Nat /\ pos <= Len(log) /\ i \in Nat
      /\ s.token \in Nat
  BY <1>1, <1>2, <1>3, <1>4, LogTyped
     DEF OnceInv, InHandInv, RelayTypeOK, Of, GoodState, SequenceState
<1>6. \A j \in s.buf : /\ j <= pos /\ j \in Nat /\ log[j].seq > s.next /\ ~Steady(j) /\ Of(j, r)
                       /\ log[j].seq \in Nat
                       /\ \A k \in s.buf : log[k].seq = log[j].seq => j = k
  <2>1. \A j \in s.buf : Of(j, r) /\ j \in Nat
    BY <1>4 DEF GoodState, SequenceState
  <2>2. \A j : Of(j, r) => log[j].seq \in Nat
    BY <1>1, LogTyped DEF Of
  <2>3. QED
    BY <1>3, <1>4, <2>1, <2>2 DEF OnceInv, AheadInv
<1>7. \A j \in s.buf : last # Marker(j)
  BY <1>3, <1>4, <1>6, NotLast DEF OnceInv
<1>8. Drained(o, s, s.next)
  BY <1>1, <1>3, <1>4, <1>5, <1>7, ResumedDrained
<1>9. Sound(t, r, o)
  <2>1. \A u \in Task : u # t /\ frame[u] # None => log[frame[u]].run # r
    BY <1>2, <1>4 DEF Task, OnceInv, InHandInv
  <2>2. QED
    BY <2>1, <1>1, <1>2, <1>4, <1>5 DEF Sound
<1>10. \A j \in o.st.buf : j \in s.buf /\ log[j].seq # s.next + 1
  BY <1>6, <1>8 DEF Drained
<1>11. Upward(t, r, o)
  <2>1. o.st.next = s.next + 1 /\ o.st.token >= s.token
    BY <1>8 DEF Drained
  <2>2. \A j \in o.st.buf :
         /\ j <= pos' /\ log[j].seq > o.st.next /\ ~Steady(j)
         /\ \A k \in o.st.buf : log[k].seq = log[j].seq => j = k
    BY <2>1, <1>1, <1>5, <1>6, <1>10
  <2>3. o.msg # None =>
         /\ o.msg <= pos' /\ log[o.msg].seq = o.st.next /\ o.mark = Marker(o.msg)
         /\ ~Steady(o.msg)
    BY <1>1, <1>6, <1>8 DEF Drained
  <2>4. o.msg = None => o.mark = last
    <3>1. \A j \in s.buf : j # None
      BY <1>6, RelayConstants
    <3>2. QED
      BY <3>1, <1>8 DEF Drained
  <2>5. last # None /\ last.by = "sequence" /\ last.run = r => last.id < o.st.next
    <3>1. last # None => last.id \in Nat
      BY <1>1 DEF RelayTypeOK, MarkerState
    <3>2. last # None /\ last.by = "sequence" /\ last.run = r => last.id <= s.next
      BY <1>3 DEF OnceInv, BehindInv
    <3>3. QED
      BY <2>1, <3>1, <3>2, <1>5
  <2>6. \E m \in 1..pos' : Of(m, r) /\ o.st.next <= log[m].seq + 1
    <3>1. i \in 1..pos' /\ o.st.next <= log[i].seq + 1
      BY <2>1, <1>1, <1>4, <1>5
    <3>2. QED
      BY <3>1, <1>4
  <2>7. o.st.next > 0 /\ o.st.next > s.next
    BY <2>1, <1>5
  <2>8. ~(\E j \in 1..pos' : j > pos)
    BY <1>1, <1>5
  <2>9. o.st.next \in Nat /\ o.st.next >= s.next /\ o.st.next # s.next
    BY <2>1, <1>5
  <2>10. QED
    BY <2>1, <2>2, <2>3, <2>4, <2>5, <2>6, <2>7, <2>8, <2>9, <1>3 DEF Upward
<1>12. Timely(t, r, o)
  <2>1. ASSUME t = "broker", o.msg # None
        PROVE  /\ o.st.timer # "pending"
               /\ \A k \in DOMAIN timeouts : timeouts[k] # [run |-> r, token |-> o.st.token]
    <3>1. o.st.timer = s.timer /\ o.st.token = s.token
      BY <2>1, <1>8 DEF Drained
    <3>2. /\ s.timer # "pending"
          /\ \A k \in DOMAIN timeouts : timeouts[k] # [run |-> r, token |-> s.token]
      BY <2>1, <1>2, <1>3, <1>4 DEF OnceInv, TokenInv
    <3>3. QED
      BY <3>1, <3>2
  <2>2. QED
    BY <2>1, <1>1 DEF Timely
<1>13. Keeping(t, r, o)
  <2>1. /\ handled' = Append(handled, i)
        /\ acks' = IF acked THEN Append(acks, [run |-> r, seq |-> log[i].seq]) ELSE acks
    BY <1>2 DEF AckDone
  <2>2. /\ \A l \in DOMAIN handled : l \in DOMAIN handled' /\ handled'[l] = handled[l]
        /\ Len(handled) + 1 \in DOMAIN handled' /\ handled'[Len(handled) + 1] = i
    BY <2>1, <1>1, <1>4
  <2>3. \A j : Handled(j) => Handled(j)'
    BY <2>2, <1>1, HandledStays
  <2>4. Handled(i)'
    BY <2>2 DEF Handled, SameSequence
  <2>5. \A j \in s.buf : j \in o.st.buf \/ o.msg = j
    BY <1>8 DEF Drained
  <2>6. ASSUME NEW k \in DOMAIN acks'
        PROVE  \/ k \in DOMAIN acks /\ acks'[k] = acks[k]
               \/ acks'[k].run = r /\ acks'[k].seq < o.st.next
    <3>1. PICK a : a = [run |-> r, seq |-> log[i].seq]
      OBVIOUS
    <3>2. a.run = r /\ a.seq < o.st.next
      BY <3>1, <1>5, <1>8 DEF Drained
    <3>3. CASE acks' = acks
      BY <3>3, <2>6
    <3>4. CASE acks' = Append(acks, a)
      <4>1. Len(acks) \in Nat /\ DOMAIN acks = 1..Len(acks) /\ k \in 1..Len(acks) + 1
        BY <3>4, <2>6, <1>1
      <4>2. CASE k \in 1..Len(acks)
        BY <4>1, <4>2, <3>4, <1>1
      <4>3. CASE k = Len(acks) + 1
        BY <4>1, <4>3, <3>2, <3>4, <1>1
      <4>4. QED
        BY <4>1, <4>2, <4>3
    <3>5. QED
      BY <2>1, <3>1, <3>3, <3>4
  <2>7. ~(\E j \in 1..pos' : j > pos)
    BY <1>1, <1>5
  <2>8. QED
    BY <2>3, <2>4, <2>5, <2>6, <2>7, <1>2, <1>3 DEF Keeping
<1>14. QED
  BY <1>4, <1>9, <1>11, <1>12, <1>13, AckHeld, AckOrder, CarryOnce

\* The earliest message behind the gap.
LEMMA TimedOutFirst ==
    ASSUME HeldInv, OnceInv, NEW r \in Run, seqs[r] # None, seqs[r].buf # {}
    PROVE  LET s == seqs[r]
               o == TimedOut(s)
           IN
           /\ o.msg \in s.buf /\ o.mark = Marker(o.msg) /\ log[o.msg].seq = o.st.next
           /\ o.st.buf = s.buf \ {o.msg} /\ o.st.token = s.token /\ o.st.next > s.next
           /\ \A j \in s.buf : log[j].seq >= o.st.next
<1>1. PICK s, low : s = seqs[r] /\ low = Lowest(s)
  OBVIOUS
<1>2. RelayTypeOK /\ s \in SequenceState /\ s.next \in Nat /\ \A j \in s.buf : Of(j, r)
  BY <1>1 DEF HeldInv, GoodState, SequenceState
<1>3. BufferedSeqs(s) \subseteq Nat /\ BufferedSeqs(s) # {}
  BY <1>1, <1>2, LogTyped DEF BufferedSeqs, Of
<1>4. low \in BufferedSeqs(s) /\ \A n \in BufferedSeqs(s) : low <= n
  BY <1>1, <1>3, LeastOf DEF Lowest
<1>5. PICK j \in s.buf : log[j].seq = low
  BY <1>4 DEF BufferedSeqs
<1>6. low > s.next /\ low \in Nat
  BY <1>1, <1>3, <1>4, <1>5 DEF OnceInv, AheadInv
<1>7. PICK t : t = [s EXCEPT !.timer = "none", !.next = IF low > s.next THEN low ELSE s.next]
  OBVIOUS
<1>8. t.next = low /\ t.buf = s.buf /\ t.token = s.token /\ t \in SequenceState
  BY <1>2, <1>6, <1>7 DEF SequenceState
<1>9. AtNext(t) # {}
  BY <1>5, <1>8 DEF AtNext
<1>10. PICK i : i = CHOOSE k \in AtNext(t) : TRUE
  OBVIOUS
<1>11. i \in s.buf /\ log[i].seq = low
  BY <1>8, <1>9, <1>10 DEF AtNext
<1>12. last # Marker(i)
  BY <1>1, <1>2, <1>6, <1>11, NotLast DEF OnceInv
<1>13. TimedOut(s) = Outcome(Popped(t, i), i, Marker(i))
  BY <1>1, <1>7, <1>9, <1>10, <1>12 DEF TimedOut, Delivered
<1>14. Popped(t, i).next = low /\ Popped(t, i).buf = s.buf \ {i} /\ Popped(t, i).token = s.token
  BY <1>8 DEF Popped, SequenceState
<1>15. \A k \in s.buf : log[k].seq >= low
  <2>1. \A k \in s.buf : log[k].seq \in BufferedSeqs(s)
    BY DEF BufferedSeqs
  <2>2. QED
    BY <2>1, <1>3, <1>4
<1>16. QED
  BY <1>1, <1>6, <1>11, <1>13, <1>14, <1>15 DEF Outcome

LEMMA DueOnce ==
    ASSUME HeldInv, OnceInv, DeliveredOnce, HandleTimeout, Due(Head(timeouts).run) PROVE OnceInv'
<1>1. PICK r, s : r = Head(timeouts).run /\ s = seqs[r]
  OBVIOUS
<1>2. PICK o : o = TimedOut(s)
  OBVIOUS
<1>3. /\ r \in Run /\ RelayTypeOK /\ log' = log /\ pos' = pos /\ handled' = handled /\ acks' = acks
      /\ reconnects' = reconnects /\ restarts' = restarts /\ frame["worker"] = None
      /\ s # None /\ s.token = Head(timeouts).token /\ s.buf # {}
      /\ GoodState(s, r) /\ Going(o, r) /\ Carry("worker", r, o)
  <2>1. r \in Run /\ RelayTypeOK /\ log' = log /\ frame["worker"] = None
    BY <1>1, TimeoutTaken
  <2>2. /\ pos' = pos /\ handled' = handled /\ acks' = acks
        /\ reconnects' = reconnects /\ restarts' = restarts
    BY DEF HandleTimeout, broker, out, bounds
  <2>3. s # None /\ s.token = Head(timeouts).token /\ s.buf # {}
    BY <1>1 DEF Due
  <2>4. GoodState(s, r) /\ Going(o, r) /\ Carry("worker", r, o)
    BY <1>1, <1>2, DueAsCarry
  <2>5. QED
    BY <2>1, <2>2, <2>3, <2>4
<1>4. /\ o.msg \in s.buf /\ o.mark = Marker(o.msg) /\ log[o.msg].seq = o.st.next
      /\ o.st.buf = s.buf \ {o.msg} /\ o.st.token = s.token /\ o.st.next > s.next
      /\ \A j \in s.buf : log[j].seq >= o.st.next
  BY <1>1, <1>2, <1>3, TimedOutFirst
<1>5. /\ s.next \in Nat /\ s.token \in Nat /\ o.st.next \in Nat /\ pos \in Nat
      /\ DOMAIN log = 1..Len(log) /\ Len(log) \in Nat /\ pos <= Len(log)
  <2>1. s \in SequenceState /\ o.st \in SequenceState
    BY <1>3 DEF GoodState, Going
  <2>2. s.next \in Nat /\ s.token \in Nat /\ o.st.next \in Nat
    BY <2>1 DEF SequenceState
  <2>3. DOMAIN log = 1..Len(log) /\ Len(log) \in Nat
    BY <1>3, LogTyped
  <2>4. pos \in Nat /\ pos <= Len(log)
    BY <1>3, <2>3 DEF RelayTypeOK
  <2>5. QED
    BY <2>2, <2>3, <2>4
<1>6. \A j \in s.buf : /\ j <= pos /\ j \in Nat /\ log[j].seq > s.next /\ ~Steady(j) /\ Of(j, r)
                       /\ log[j].seq \in Nat
                       /\ \A k \in s.buf : log[k].seq = log[j].seq => j = k
  <2>1. \A j \in s.buf : Of(j, r) /\ j \in Nat
    BY <1>3 DEF GoodState, SequenceState
  <2>2. \A j : Of(j, r) => log[j].seq \in Nat
    BY <1>3, LogTyped DEF Of
  <2>3. QED
    BY <1>1, <1>3, <2>1, <2>2 DEF OnceInv, AheadInv
<1>7. frame["broker"] # None => log[frame["broker"]].run # r
  <2>1. SUFFICES ASSUME frame["broker"] # None, log[frame["broker"]].run = r PROVE FALSE
    OBVIOUS
  <2>2. \A k \in DOMAIN timeouts : timeouts[k] # [run |-> r, token |-> s.token]
    BY <2>1, <1>1 DEF OnceInv, TokenInv
  <2>3. timeouts[1] = Head(timeouts) /\ timeouts \in Seq([run : Run, token : Nat]) /\ timeouts # <<>>
    BY TimeoutTaken
  <2>4. 1 \in DOMAIN timeouts
    BY <2>3
  <2>5. PICK e : e = timeouts[1]
    OBVIOUS
  <2>6. e \in [run : Run, token : Nat]
    <3>1. PICK T : T = [run : Run, token : Nat]
      OBVIOUS
    <3>2. timeouts \in Seq(T)
      BY <2>3, <3>1
    <3>3. timeouts[1] \in T
      BY <3>2, <2>4
    <3>4. QED
      BY <2>5, <3>1, <3>3
  <2>7. e = [run |-> r, token |-> s.token]
    BY <2>3, <2>5, <2>6, <1>1, <1>3
  <2>8. QED
    BY <2>2, <2>4, <2>5, <2>7
<1>8. Sound("worker", r, o)
  <2>1. pos' \in 0..Len(log) /\ pos <= pos'
    BY <1>3, <1>5
  <2>2. QED
    BY <2>1, <1>3, <1>7 DEF Sound, Task
<1>9. Upward("worker", r, o)
  <2>1. \A j \in o.st.buf :
         /\ j <= pos' /\ log[j].seq > o.st.next /\ ~Steady(j)
         /\ \A k \in o.st.buf : log[k].seq = log[j].seq => j = k
    <3>1. \A j \in o.st.buf : j \in s.buf /\ log[j].seq # o.st.next
      BY <1>4, <1>6
    <3>2. QED
      BY <3>1, <1>3, <1>4, <1>5, <1>6
  <2>2. o.msg # None /\ o.msg <= pos' /\ ~Steady(o.msg)
    BY <1>3, <1>4, <1>6, RelayConstants
  <2>3. \E m \in 1..pos' : Of(m, r) /\ o.st.next <= log[m].seq + 1
    <3>1. Of(o.msg, r) /\ o.msg \in Nat /\ o.msg <= pos
      BY <1>4, <1>6
    <3>2. o.msg \in 1..pos' /\ o.st.next <= log[o.msg].seq + 1
      BY <3>1, <1>3, <1>4, <1>5 DEF Of
    <3>3. QED
      BY <3>1, <3>2
  <2>4. o.st.next > 0 /\ o.st.next >= s.next /\ o.st.next # s.next /\ o.st.token >= s.token
    BY <1>4, <1>5
  <2>5. ~(\E j \in 1..pos' : j > pos)
    BY <1>3, <1>5
  <2>6. QED
    BY <2>1, <2>2, <2>3, <2>4, <2>5, <1>1, <1>4 DEF Upward
<1>10. Timely("worker", r, o)
  <2>1. \A k \in DOMAIN timeouts' : \E l \in DOMAIN timeouts : timeouts'[k] = timeouts[l]
    BY TimeoutTaken
  <2>2. QED
    BY <2>1 DEF Timely
<1>11. Keeping("worker", r, o)
  <2>1. handled \in Seq(DOMAIN log)
    BY <1>3 DEF RelayTypeOK
  <2>2. \A j : Handled(j) => Handled(j)'
    BY <2>1, <1>3, HandledStays
  <2>3. \A j \in s.buf : j \in o.st.buf \/ o.msg = j
    BY <1>4
  <2>4. ~(\E j \in 1..pos' : j > pos)
    BY <1>3, <1>5
  <2>5. \A j : Of(j, r) => j # None
    BY <1>3, LogTyped, RelayConstants DEF Of
  <2>6. QED
    BY <2>2, <2>3, <2>4, <2>5, <1>1, <1>3 DEF Keeping
<1>12. AcksMonotonic' /\ NoOvertakingInRun'
  <2>1. DeliveredOnce' <=> DeliveredOnce
    BY <1>3, OnceStays
  <2>2. AcksMonotonic /\ NoOvertakingInRun
    BY DEF OnceInv
  <2>3. QED
    BY <2>1, <2>2, <1>3, LogStays DEF AcksMonotonic, NoOvertakingInRun
<1>13. QED
  BY <1>3, <1>8, <1>9, <1>10, <1>11, <1>12, TimeoutHeld, CarryOnce DEF Task

-----------------------------------------------------------------------------
(* The theorems *)

LEMMA OnceInitial ==
    ASSUME RelayInit PROVE OnceInv
<1>1. pos = 0 /\ (\A r \in Run : seqs[r] = None) /\ (\A t \in Task : frame[t] = None)
      /\ last = None /\ timeouts = <<>> /\ acks = <<>> /\ handled = <<>>
  BY DEF RelayInit
<1>2. \A i \in 1..pos : FALSE
  BY <1>1
<1>3. QED
  BY <1>1, <1>2 DEF OnceInv, InHandInv, AheadInv, SteadyInv, TokenInv, BehindInv, ReachInv, KeptInv,
     AcksMonotonic, NoOvertakingInRun, Task

\* A step of RelaySpec keeps what holds while nothing behind a gap is delivered again; a
\* reconnection or a restart is another delivery.
LEMMA OnceStep ==
    ASSUME RelayInv, [RelayNext]_relayVars PROVE DeliveredOnce' => OnceInv'
<1>1. HeldInv /\ (DeliveredOnce => OnceInv)
  BY DEF RelayInv
<1>2. CASE UNCHANGED relayVars
  <2>1. DeliveredOnce' => DeliveredOnce
    BY <1>2 DEF relayVars, broker, bounds, DeliveredOnce, SameSequence, Steady
  <2>2. OnceInv => OnceInv'
    BY <1>2 DEF relayVars, relayState, broker, out, bounds, OnceInv, InHandInv, AheadInv, SteadyInv,
       TokenInv, BehindInv, ReachInv, KeptInv, AcksMonotonic, NoOvertakingInRun, DeliveredOnce,
       SameSequence, Steady, Draining, Of, Handled, Kept, Late
  <2>3. QED
    BY <2>1, <2>2, <1>1
<1>3. CASE log' = log /\ reconnects' = reconnects /\ restarts' = restarts /\ RelayNext
  <2>1. DeliveredOnce' => DeliveredOnce
    BY <1>3, OnceStays
  <2>2. SUFFICES ASSUME DeliveredOnce, OnceInv PROVE OnceInv'
    BY <2>1, <1>1
  <2>3. reconnects \in Nat /\ restarts \in Nat
    BY <1>1, RelayConstants DEF HeldInv, RelayTypeOK
  <2>4. ~Reconnect /\ ~Restart
    BY <2>3, <1>3 DEF Reconnect, Restart
  <2>5. CASE HandleTimeout
    BY <2>2, <2>5, <1>1, DueOnce, IdleOnce
  <2>6. QED
    BY <2>2, <2>4, <2>5, <1>1, <1>3, DropOnce, BufferOnce, ReceiveOnce, PlainOnce, AckOnce, FireOnce
       DEF RelayNext, Receive
<1>4. CASE Reconnect \/ Restart
  <2>1. reconnects \in Nat /\ restarts \in Nat
    BY <1>1, RelayConstants DEF HeldInv, RelayTypeOK
  <2>2. reconnects' # 0 \/ restarts' # 0
    BY <2>1, <1>4 DEF Reconnect, Restart
  <2>3. QED
    BY <2>2 DEF DeliveredOnce
<1>5. RelayNext => log' = log /\ (Reconnect \/ Restart \/ (reconnects' = reconnects /\ restarts' = restarts))
  BY DEF RelayNext, Receive, DropStale, BufferAhead, ReceiveNext, ReceivePlain, AckDone, Fire,
     HandleTimeout, Reconnect, Restart, broker, out, bounds
<1>6. QED
  BY <1>2, <1>3, <1>4, <1>5

LEMMA RelayInductive == RelaySpec => []RelayInv
<1>1. RelayInit => RelayInv
  BY HeldInitial, OnceInitial DEF RelayInv
<1>2. RelayInv /\ [RelayNext]_relayVars => RelayInv'
  BY HeldStep, OnceStep DEF RelayInv
<1>3. QED
  BY <1>1, <1>2, PTL DEF RelaySpec

\* Whichever task drains a run, and whatever is delivered again, the resequencer holds
\* nothing back without a timeout on its way; and while nothing behind a gap is delivered
\* again it holds back only what is ahead of the expected sequence.
THEOREM HeldBackAlwaysSafely == RelaySpec => []HeldBackSafely
<1>1. RelayInv => HeldBackSafely
  BY DEF RelayInv, HeldInv, OnceInv, AheadInv, HeldBackSafely, BufferIsAhead
<1>2. QED
  BY <1>1, RelayInductive, PTL

\* While nothing behind a gap is delivered again, the acknowledgements of a run go up and no
\* sequence overtakes one that was published ahead of it, though two tasks drain.
THEOREM RunsAlwaysInOrder == RelaySpec => []RunsInOrder
<1>1. RelayInv => RunsInOrder
  BY DEF RelayInv, OnceInv, RunsInOrder, AcksMonotonic, NoOvertakingInRun
<1>2. QED
  BY <1>1, RelayInductive, PTL
=============================================================================
