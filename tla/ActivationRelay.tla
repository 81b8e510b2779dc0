--------------------------- MODULE ActivationRelay ---------------------------
(***************************************************************************)
(* The Gateway's consumer of activation events, for one world.              *)
(*                                                                         *)
(* Two tasks share the consumer's state.  The broker task reads the world's  *)
(* partition and handles one message after the other; the worker task takes   *)
(* gap timeouts from a queue.  Both drain a run's buffer with the same code,  *)
(* whose only suspension is the publication of the acknowledgement: between   *)
(* two acknowledgements a task runs undisturbed (sending to the WebSocket     *)
(* hub is a put_nowait).                                                      *)
(***************************************************************************)
EXTENDS Naturals, Sequences, FiniteSets, Optional

CONSTANTS
    Run,            \* run ids
    Logs,           \* partitions the broker may hold: sequences of messages
    MaxCommitFails, MaxReconnects, MaxRestarts, MaxAckFails    \* bounds

\* seq = 0 is an event without requires_ack (PUT /activation); ver is the
\* version field of the payload, which WorldService fills with the version of
\* the activation document.  A sequence is one of a run.
Message == [run : Run \cup {None}, seq : Nat, ver : Nat]

\* The state of one run: buf holds positions of the log; a pending timer has the current
\* token.
SequenceState ==
    [next : Nat, buf : SUBSET Nat, timer : {"none", "pending", "done"}, token : Nat]

\* The marker of a delivery.
MarkerState == [run : Run \cup {None}, id : Nat, by : {"sequence", "etag"}]

ASSUME RelayConstants ==
    /\ Logs \subseteq Seq(Message)
    /\ MaxCommitFails \in Nat /\ MaxReconnects \in Nat
    /\ MaxRestarts \in Nat /\ MaxAckFails \in Nat
    /\ None \notin Run /\ None \notin Nat
    /\ None \notin SequenceState /\ None \notin MarkerState
    /\ \A l \in Logs : \A i \in DOMAIN l : l[i].seq > 0 => l[i].run \in Run

Task == {"broker", "worker"}

VARIABLES
    log,        \* the world's partition of the activation topic
    pos,        \* messages the broker task has read
    committed,  \* the group's committed offset
    seqs,       \* _activation_sequence_states
    last,       \* _last_seen of the world: the marker of the last delivery
    frame,      \* the message whose acknowledgement a task is awaiting
    timeouts,   \* gap timeouts put into _queue
    handled,    \* messages passed to _dispatch_generic_message, in order
    acks,       \* acknowledgements on the response channel, in order
    commitFails, reconnects, restarts, ackFails   \* what has been spent

relayState == <<seqs, last, frame, timeouts>>
broker == <<log, pos, committed>>
out    == <<handled, acks>>
bounds == <<commitFails, reconnects, restarts, ackFails>>
relayVars   == <<broker, relayState, out, bounds>>

-----------------------------------------------------------------------------
(* One run *)

Marker(i) ==
    IF log[i].seq > 0 THEN [run |-> log[i].run, id |-> log[i].seq, by |-> "sequence"]
    ELSE [run |-> log[i].run, id |-> log[i].ver, by |-> "etag"]

BufferedSeqs(s) == {log[i].seq : i \in s.buf}

\* _schedule_activation_gap_timeout: a timer that still runs is kept.
Scheduled(s) ==
    IF s.timer = "pending" THEN s
    ELSE [s EXCEPT !.timer = "pending", !.token = s.token + 1]

\* _clear_activation_gap_timeout.
Cleared(s) == [s EXCEPT !.timer = "none", !.token = s.token + 1]

\* Defect variant of Rested: the end of a drain is taken for the end of the gap.
RestedCleared(s) == Cleared(s)

\* The end of a drain: nothing contiguous is left.
Rested(s) == IF s.buf = {} THEN Cleared(s) ELSE Scheduled(s)

\* What a task does with a run until its next suspension: the run's new state,
\* the message it goes on with (or None) and the marker it leaves behind.
Outcome(s, i, m) == [st |-> s, msg |-> i, mark |-> m]

Popped(s, i) == [s EXCEPT !.buf = s.buf \ {i}]

AtNext(s) == {i \in s.buf : log[i].seq = s.next}

\* The drain goes on with the successor of a sequence, which is new.
ResumedFresh(s, seq) ==
    LET t == [s EXCEPT !.next = seq + 1]
    IN IF AtNext(t) = {} THEN Outcome(Rested(t), None, last)
       ELSE LET i == CHOOSE j \in AtNext(t) : TRUE
            IN Outcome(Popped(t, i), i, Marker(i))

\* Deliver message i of run state s unless its marker is the last one seen: then
\* the drain moves past it at once.  A marker names one sequence, so the message
\* after a repeated one is never a repeated one itself.
Delivered(s, i, mark) ==
    IF mark = Marker(i) THEN ResumedFresh(s, log[i].seq)
    ELSE Outcome(s, i, Marker(i))

\* The drain goes on after message i has been handled.
Resumed(s, i) ==
    LET t == [s EXCEPT !.next = log[i].seq + 1]
    IN IF AtNext(t) = {} THEN Outcome(Rested(t), None, last)
       ELSE LET j == CHOOSE k \in AtNext(t) : TRUE
            IN Delivered(Popped(t, j), j, last)

-----------------------------------------------------------------------------
RelayInit ==
    /\ log \in Logs
    /\ pos = 0 /\ committed = 0
    /\ seqs = [r \in Run |-> None]
    /\ last = None
    /\ frame = [t \in Task |-> None]
    /\ timeouts = <<>>
    /\ handled = <<>> /\ acks = <<>>
    /\ commitFails = 0 /\ reconnects = 0 /\ restarts = 0 /\ ackFails = 0

\* Task t carries out an outcome for run r.
Carry(t, r, o) ==
    /\ seqs' = [seqs EXCEPT ![r] = o.st]
    /\ last' = o.mark
    /\ frame' = [frame EXCEPT ![t] = o.msg]

\* The broker task commits what it has read once a message is handled; a failing
\* commit is logged and forgotten.
CommitWhen(done) ==
    \/ ~done /\ UNCHANGED <<committed, commitFails>>
    \/ done /\ committed' = pos' /\ UNCHANGED commitFails
    \/ /\ done /\ commitFails < MaxCommitFails
       /\ commitFails' = commitFails + 1 /\ UNCHANGED committed

Reads == frame["broker"] = None /\ pos < Len(log) /\ pos' = pos + 1

\* _process_sequenced_activation_message creates the run's state on demand: the
\* first sequence to arrive is the expected one.
StateFor(i) ==
    IF seqs[log[i].run] # None THEN seqs[log[i].run]
    ELSE [next |-> log[i].seq, buf |-> {}, timer |-> "none", token |-> 0]

\* A sequence below the expected one is dropped.
DropStale ==
    /\ Reads
    /\ log[pos'].seq > 0
    /\ log[pos'].seq < StateFor(pos').next
    /\ CommitWhen(TRUE)
    /\ UNCHANGED <<log, relayState, out, reconnects, restarts, ackFails>>

\* Defect variant of BufferAhead: the buffer has room for one message.
BufferAheadLatest ==
    /\ Reads
    /\ log[pos'].seq > 0
    /\ LET s == StateFor(pos') IN
         /\ log[pos'].seq > s.next
         /\ seqs' = [seqs EXCEPT ![log[pos'].run] = Scheduled([s EXCEPT !.buf = {pos'}])]
    /\ CommitWhen(TRUE)
    /\ UNCHANGED <<log, last, frame, timeouts, out, reconnects, restarts, ackFails>>

\* A sequence above it is buffered (the first copy is kept) and the gap is timed.
BufferAhead ==
    /\ Reads
    /\ log[pos'].seq > 0
    /\ LET s == StateFor(pos') IN
         /\ log[pos'].seq > s.next
         /\ seqs' = [seqs EXCEPT ![log[pos'].run] =
              Scheduled([s EXCEPT !.buf =
                IF log[pos'].seq \in BufferedSeqs(s) THEN s.buf ELSE s.buf \cup {pos'}])]
    /\ CommitWhen(TRUE)
    /\ UNCHANGED <<log, last, frame, timeouts, out, reconnects, restarts, ackFails>>

\* The expected sequence stops the timer and is delivered.
ReceiveNext ==
    /\ Reads
    /\ log[pos'].seq > 0
    /\ log[pos'].seq = StateFor(pos').next
    /\ LET o == Delivered(Cleared(StateFor(pos')), pos', last)
       IN /\ Carry("broker", log[pos'].run, o)
          /\ CommitWhen(o.msg = None)
    /\ UNCHANGED <<log, timeouts, out, reconnects, restarts, ackFails>>

\* An event without requires_ack is handled at once unless it repeats the last.
ReceivePlain ==
    /\ Reads
    /\ log[pos'].seq = 0
    /\ last' = Marker(pos')
    /\ handled' = IF last = Marker(pos') THEN handled ELSE Append(handled, pos')
    /\ CommitWhen(TRUE)
    /\ UNCHANGED <<log, seqs, frame, timeouts, acks, reconnects, restarts, ackFails>>

\* The acknowledgement of task t is out, or has failed for good: the message is
\* dispatched, the expected sequence moves on and the drain continues.
AckDone(t, sent) ==
    /\ frame[t] # None
    /\ LET i == frame[t]
           r == log[i].run
           o == Resumed(seqs[r], i)
       IN /\ acks' = IF sent THEN Append(acks, [run |-> r, seq |-> log[i].seq]) ELSE acks
          /\ handled' = Append(handled, i)
          /\ Carry(t, r, o)
          /\ UNCHANGED pos
          /\ CommitWhen(t = "broker" /\ o.msg = None)
    /\ \/ sent /\ UNCHANGED ackFails
       \/ ~sent /\ ackFails < MaxAckFails /\ ackFails' = ackFails + 1
    /\ UNCHANGED <<log, timeouts, reconnects, restarts>>

\* The timer of run r has slept: _activation_gap_timeout_after.
Fire(r) ==
    /\ seqs[r] # None /\ seqs[r].timer = "pending"
    /\ seqs' = [seqs EXCEPT ![r].timer = "done"]
    /\ timeouts' = Append(timeouts, [run |-> r, token |-> seqs[r].token])
    /\ UNCHANGED <<broker, last, frame, out, bounds>>

\* Defect variant of TimedOut: the resequencing jumps to the newest buffered message.
TimedOutNewest(s) ==
    LET newest == CHOOSE n \in BufferedSeqs(s) : \A m \in BufferedSeqs(s) : n >= m
        t == [s EXCEPT !.timer = "none", !.next = newest]
        i == CHOOSE j \in AtNext(t) : TRUE
    IN Delivered(Popped(t, i), i, last)

Lowest(s) == CHOOSE n \in BufferedSeqs(s) : \A m \in BufferedSeqs(s) : n <= m

\* _handle_activation_gap_timeout: what the worker does with a current timeout.
TimedOut(s) ==
    LET t == [s EXCEPT !.timer = "none",
                       !.next = IF Lowest(s) > s.next THEN Lowest(s) ELSE s.next]
    IN IF AtNext(t) = {} THEN Outcome(Scheduled(t), None, last)
       ELSE LET i == CHOOSE j \in AtNext(t) : TRUE
            IN Delivered(Popped(t, i), i, last)

HandleTimeout ==
    /\ frame["worker"] = None
    /\ timeouts # <<>>
    /\ LET r == Head(timeouts).run
           s == seqs[r]
       IN \/ /\ s = None \/ s.token # Head(timeouts).token
             /\ UNCHANGED <<seqs, last, frame>>
          \/ /\ s # None /\ s.token = Head(timeouts).token /\ s.buf = {}
             /\ seqs' = [seqs EXCEPT ![r].timer = "none"]
             /\ UNCHANGED <<last, frame>>
          \/ /\ s # None /\ s.token = Head(timeouts).token /\ s.buf # {}
             /\ Carry("worker", r, TimedOut(s))
    /\ timeouts' = Tail(timeouts)
    /\ UNCHANGED <<broker, out, bounds>>

\* The connection fails while the broker task waits for a message: the new
\* consumer starts at the committed offset.
Reconnect ==
    /\ reconnects < MaxReconnects /\ reconnects' = reconnects + 1
    /\ frame["broker"] = None
    /\ pos' = committed
    /\ UNCHANGED <<log, committed, relayState, out, commitFails, restarts, ackFails>>

\* The process restarts: everything but the log and the offset is lost.
Restart ==
    /\ restarts < MaxRestarts /\ restarts' = restarts + 1
    /\ pos' = committed
    /\ seqs' = [r \in Run |-> None]
    /\ last' = None
    /\ frame' = [t \in Task |-> None]
    /\ timeouts' = <<>>
    /\ UNCHANGED <<log, committed, out, commitFails, reconnects, ackFails>>

Receive == DropStale \/ BufferAhead \/ ReceiveNext \/ ReceivePlain

RelayNext ==
    \/ Receive
    \/ \E t \in Task, sent \in BOOLEAN : AckDone(t, sent)
    \/ \E r \in Run : Fire(r)
    \/ HandleTimeout
    \/ Reconnect
    \/ Restart

RelaySpec == RelayInit /\ [][RelayNext]_relayVars

\* The event loop runs whatever can run, timers fire, and the publication of an
\* acknowledgement ends one way or the other.
RelayFairness ==
    /\ WF_relayVars(Receive)
    /\ WF_relayVars(HandleTimeout)
    /\ \A t \in Task : WF_relayVars(\E sent \in BOOLEAN : AckDone(t, sent))
    /\ \A r \in Run : WF_relayVars(Fire(r))

-----------------------------------------------------------------------------
(***************************************************************************)
(* Properties.                                                              *)
(***************************************************************************)

\* Every variable has its type; positions and offsets stay inside the partition.
RelayTypeOK ==
    /\ log \in Logs
    /\ pos \in 0..Len(log) /\ committed \in 0..Len(log)
    /\ seqs \in [Run -> SequenceState \cup {None}]
    /\ last \in MarkerState \cup {None}
    /\ frame \in [Task -> DOMAIN log \cup {None}]
    /\ timeouts \in Seq([run : Run, token : Nat])
    /\ handled \in Seq(DOMAIN log)
    /\ acks \in Seq([run : Run, seq : Nat])
    /\ commitFails \in 0..MaxCommitFails /\ reconnects \in 0..MaxReconnects
    /\ restarts \in 0..MaxRestarts /\ ackFails \in 0..MaxAckFails

\* A drain is in progress for run r.
Draining(r) == \E t \in Task : frame[t] # None /\ log[frame[t]].run = r

\* No lost wake-up: a run that holds messages back behind a gap has a timer that
\* will fire, or a timeout with the current token in the queue, or a task that is
\* draining it and will schedule one.
GapIsTimed ==
    \A r \in Run : seqs[r] # None /\ seqs[r].buf # {} =>
        \/ seqs[r].timer = "pending"
        \/ \E k \in DOMAIN timeouts : timeouts[k] = [run |-> r, token |-> seqs[r].token]
        \/ Draining(r)

\* Whatever is held back is still ahead of the expected sequence; otherwise it
\* could never be drained and min(buffered) would hide every later gap.
BufferIsAhead ==
    \A r \in Run : seqs[r] # None => \A i \in seqs[r].buf :
        log[i].seq > seqs[r].next

\* The messages at two positions carry one sequence of one run.
SameSequence(i, j) == log[i].run = log[j].run /\ log[i].seq = log[j].seq

\* Nothing of its run has come out of turn up to position i: every number from 1 on was
\* published before a larger one was.
Steady(i) ==
    \A j \in 1..i : log[j].run = log[i].run => \A n \in 1..log[j].seq :
        \E k \in 1..j : log[k].run = log[i].run /\ log[k].seq = n

\* No message that came after a gap in its run has been delivered again, be it by a
\* reconnection or by a retry of the producer.
DeliveredOnce ==
    /\ reconnects = 0 /\ restarts = 0
    /\ \A i, j \in DOMAIN log : i < j /\ log[i].seq > 0 /\ SameSequence(i, j) => Steady(i)

\* Whichever task drains, the resequencer never holds anything back without a timeout on
\* its way; and while nothing behind a gap is delivered again it holds back only what is
\* ahead.  (With such a delivery both tasks can drain one run at once, the expected
\* sequence goes back, and a message that is in hand is held back a second time.)
HeldBackSafely == RelayTypeOK /\ GapIsTimed /\ (DeliveredOnce => BufferIsAhead)

\* A larger sequence of its run was published ahead of the message at position i: once
\* that one has been delivered this one is dropped.
Late(i) ==
    log[i].seq > 0 /\ \E m \in 1..i - 1 : log[m].run = log[i].run /\ log[m].seq > log[i].seq

\* Acknowledgements of a run go up, "SHOULD advance monotonically per run", as long
\* as no message behind a gap is delivered again.
AcksMonotonic ==
    DeliveredOnce => \A j, k \in DOMAIN acks : j < k /\ acks[j].run = acks[k].run => acks[j].seq < acks[k].seq

\* No sequence of a run overtakes an earlier one that was published ahead of it: an
\* unfreeze is not applied before the freezes, as long as no message behind a gap is
\* delivered again.
NoOvertakingInRun ==
    DeliveredOnce => \A k \in DOMAIN handled : \A i \in DOMAIN log :
        LET j == handled[k] IN
        log[i].seq > 0 /\ ~Late(i)
        /\ i < j /\ log[i].run = log[j].run /\ log[i].seq < log[j].seq
            => \E l \in 1..k : SameSequence(handled[l], i)

\* What the drain task and the timeout task do to a run comes out in the order of its
\* sequence numbers, towards WorldService and towards the clients of the Gateway.
RunsInOrder == AcksMonotonic /\ NoOvertakingInRun

SameEvent(i, j) == SameSequence(i, j) /\ (log[i].seq = 0 => log[i].ver = log[j].ver)

AllHandled ==
    \A i \in DOMAIN log : Late(i) \/ \E k \in DOMAIN handled : SameEvent(handled[k], i)

\* At-least-once: unless the process is restarted or holds back what it has passed, every
\* event that was not published late is handled in the end, in spite of gaps that never
\* close, acknowledgements that fail and reconnections.
EveryEventHandled == [](restarts = 0 /\ BufferIsAhead) => <>AllHandled

\* "If the gap remains open longer than activation_gap_timeout_ms, Gateway forces
\* resequencing to the earliest buffered sequence and resumes ordered replay from there":
\* a timeout that is not out of date, of a run with messages ahead of the expected
\* sequence, has the worker deliver one of them.
GapsAreForced ==
    [][\A r \in Run :
         (/\ HandleTimeout /\ Head(timeouts).run = r /\ seqs[r] # None
          /\ Head(timeouts).token = seqs[r].token
          /\ \E i \in seqs[r].buf : log[i].seq > seqs[r].next)
            => seqs'[r].next > seqs[r].next]_relayVars
=============================================================================
