----------------------------- MODULE DiffStream -----------------------------
(***************************************************************************)
(* How the result of a diff travels: DiffServiceServicer.Diff streams chunks   *)
(* to the Gateway's DagManagerClient, which acknowledges each of them with a   *)
(* call of its own.  The diff runs in a thread (_ChunkStreamer over            *)
(* _GrpcStream); a window limits the chunks that wait for an acknowledgement,  *)
(* and what is pending is sent again when none arrives in time.                *)
(*                                                                         *)
(* Acknowledgements carry no chunk number; they find their stream through       *)
(* _streams, which has one entry per strategy.  All calls here are for one     *)
(* strategy: a submission and the worker that processes it both ask for its    *)
(* diff.                                                                    *)
(***************************************************************************)
EXTENDS Naturals, Sequences, FiniteSets, Optional

CONSTANTS
    Client,         \* calls of DagManagerClient.diff
    Setups,         \* how many chunks a result has and how many RPCs a call may make
    Window,         \* ack_window
    Patience,       \* timeouts in a row after which the deadline has passed
    MaxAckFails     \* bound of the failing calls: of AckChunk and of publications

ASSUME StreamConstants ==
    /\ Setups \subseteq [chunks : Nat \ {0}, tries : Nat \ {0}]
    /\ Window \in Nat \ {0} /\ Patience \in Nat \ {0}
    /\ MaxAckFails \in Nat

VARIABLES
    setup,      \* the one of this behaviour
    registry,   \* _streams: the call whose stream acknowledgements go to
    stream,     \* _ChunkStreamer and _GrpcStream of each call's RPC
    wire,       \* chunks in the stream's queue and, yielded, in gRPC
    client,     \* DiffStreamClient.collect and the retries around it
    lapsed,     \* failed calls so far
    crossed     \* two RPCs have been open at the same time

streamVars == <<registry, stream, wire, client, lapsed, crossed>>

Chunks == setup.chunks
Tries  == setup.tries

\* The end of a stream, with and without the error of the diff.
End  == 0
Fail == Chunks + 1

\* pc: the thread runs, has raised TimeoutError, or the RPC is over.  acked: the chunks
\* that were acknowledged while the thread ran.
StreamState == [pc : {"run", "raised", "closed"}, sent : Nat, outstanding : Nat,
                pending : Seq(Nat), acks : Nat, timeouts : Nat, acked : SUBSET Nat]

NewStream == [pc |-> "run", sent |-> 0, outstanding |-> 0, pending |-> <<>>,
              acks |-> 0, timeouts |-> 0, acked |-> {}]
Closed == [NewStream EXCEPT !.pc = "closed"]

ClientState == [pc : {"idle", "open", "ack", "retry", "ok", "failed"}, tries : Nat, got : Seq(Nat)]

StreamInit ==
    /\ setup \in Setups
    /\ registry = None
    /\ stream = [c \in Client |-> Closed]
    /\ wire = [c \in Client |-> <<>>]
    /\ client = [c \in Client |-> [pc |-> "idle", tries |-> 0, got |-> <<>>]]
    /\ lapsed = 0
    /\ crossed = FALSE

-----------------------------------------------------------------------------
(* The Gateway *)

\* collect calls Diff: the servicer registers a stream and starts the thread.
OpenDiff(c) ==
    /\ client[c].pc \in {"idle", "retry"}
    /\ client' = [client EXCEPT ![c] = [pc |-> "open", tries |-> @.tries + 1, got |-> <<>>]]
    /\ stream' = [stream EXCEPT ![c] = NewStream]
    /\ wire' = [wire EXCEPT ![c] = <<>>]
    /\ registry' = c
    /\ crossed' = (crossed \/ \E d \in Client \ {c} : client[d].pc \in {"open", "ack"})
    /\ UNCHANGED lapsed

\* _collect_with_retries, after an exception.
Retry(k) == [k EXCEPT !.pc = IF k.tries < Tries THEN "retry" ELSE "failed"]

\* The next chunk: its buffer nodes are added to the result, then it is acknowledged.
ReceiveChunk(c) ==
    /\ client[c].pc = "open" /\ wire[c] # <<>>
    /\ Head(wire[c]) \in 1..Chunks
    /\ client' = [client EXCEPT ![c].got = Append(@, Head(wire[c])), ![c].pc = "ack"]
    /\ wire' = [wire EXCEPT ![c] = Tail(@)]
    /\ UNCHANGED <<registry, stream, lapsed, crossed>>

\* The stream has ended, well or with the error of the diff.
ReceiveEnd(c) ==
    /\ client[c].pc = "open" /\ wire[c] # <<>>
    /\ Head(wire[c]) \in {End, Fail}
    /\ client' = [client EXCEPT ![c] = IF Head(wire[c]) = End THEN [client[c] EXCEPT !.pc = "ok"]
                                       ELSE Retry(client[c])]
    /\ UNCHANGED <<registry, stream, wire, lapsed, crossed>>

Runs(c) == stream[c].pc = "run"

\* _GrpcStream.ack
Acknowledged(s) == [s EXCEPT !.acks = @ + 1, !.pending = IF @ = <<>> THEN @ ELSE Tail(@)]

\* AckChunk: whatever stream is registered for the strategy counts it.  What a stream counts
\* whose RPC is over is not kept.
ServeAck(c) ==
    /\ client[c].pc = "ack"
    /\ stream' = [d \in Client |->
         LET s == IF d = c /\ Runs(c) THEN [stream[d] EXCEPT !.acked = @ \cup {client[c].got[Len(client[c].got)]}]
                                       ELSE stream[d]
         IN IF d = registry /\ s.pc # "closed" THEN Acknowledged(s) ELSE s]
    /\ client' = [client EXCEPT ![c].pc = "open"]
    /\ UNCHANGED <<registry, wire, lapsed, crossed>>

\* The call of AckChunk fails: collect is left, and the RPC is cancelled, which runs
\* _finalize_diff.  The thread goes on alone.
LoseAck(c) ==
    /\ client[c].pc = "ack" /\ lapsed < MaxAckFails
    /\ lapsed' = lapsed + 1
    /\ client' = [client EXCEPT ![c] = Retry(@)]
    /\ stream' = [stream EXCEPT ![c] = Closed]
    /\ wire' = [wire EXCEPT ![c] = <<>>]
    /\ registry' = None
    /\ UNCHANGED crossed

-----------------------------------------------------------------------------
(* The thread: _ChunkStreamer.stream *)

\* The thread has to wait: the window is full, or everything is sent.
AwaitsAck(c) ==
    /\ Runs(c)
    /\ \/ stream[c].outstanding >= Window
       \/ stream[c].sent = Chunks /\ stream[c].outstanding > 0

\* _send_chunk
SendChunk(c) ==
    /\ Runs(c) /\ ~AwaitsAck(c) /\ stream[c].sent < Chunks
    /\ LET chunk == stream[c].sent + 1 IN
       /\ stream' = [stream EXCEPT ![c] =
            [stream[c] EXCEPT !.sent = chunk, !.outstanding = @ + 1, !.pending = Append(@, chunk)]]
       /\ wire' = [wire EXCEPT ![c] = Append(@, chunk)]
    /\ UNCHANGED <<registry, client, lapsed, crossed>>

\* wait_for_ack returns OK.
TakeAck(c) ==
    /\ AwaitsAck(c) /\ stream[c].acks > 0
    /\ stream' = [stream EXCEPT ![c] =
         [stream[c] EXCEPT !.acks = @ - 1, !.outstanding = @ - 1, !.timeouts = 0]]
    /\ UNCHANGED <<registry, wire, client, lapsed, crossed>>

\* Defect variant of AckTimesOut: a chunk that is not acknowledged in time counts as sent.
AckTimesOutSkipping(c) ==
    /\ AwaitsAck(c) /\ stream[c].acks = 0 /\ wire[c] # <<>>
    /\ stream' = [stream EXCEPT ![c] = [stream[c] EXCEPT !.outstanding = @ - 1]]
    /\ wire' = [wire EXCEPT ![c] = Tail(@)]
    /\ UNCHANGED <<registry, client, lapsed, crossed>>

\* wait_for_ack returns TIMEOUT: everything pending is queued again, and when the
\* deadline has passed the diff ends with TimeoutError.
AckTimesOut(c) ==
    /\ AwaitsAck(c) /\ stream[c].acks = 0
    /\ stream' = [stream EXCEPT ![c] =
         [stream[c] EXCEPT !.timeouts = @ + 1, !.pc = IF stream[c].timeouts + 1 >= Patience THEN "raised" ELSE @]]
    /\ wire' = [wire EXCEPT ![c] = @ \o stream[c].pending]
    /\ UNCHANGED <<registry, client, lapsed, crossed>>

-----------------------------------------------------------------------------
(* DiffServiceServicer.Diff on the event loop *)

\* The diff has returned or raised.
DiffOver(c) ==
    \/ Runs(c) /\ stream[c].sent = Chunks /\ stream[c].outstanding = 0
    \/ stream[c].pc = "raised"

\* Defect variant of FinishDiff: only a diff that returns ends its queue.
FinishDiffReturned(c) ==
    /\ Runs(c) /\ stream[c].sent = Chunks /\ stream[c].outstanding = 0
    /\ registry' = None
    /\ wire' = [wire EXCEPT ![c] = Append(@, End)]
    /\ stream' = [stream EXCEPT ![c] = Closed]
    /\ UNCHANGED <<client, lapsed, crossed>>

\* The done callback ends the queue, whose chunks come first; _finalize_diff removes the
\* strategy's entry, whosever stream it names, and an error of the diff ends the RPC.
FinishDiff(c) ==
    /\ DiffOver(c)
    /\ registry' = None
    /\ wire' = [wire EXCEPT ![c] = Append(@, IF stream[c].pc = "raised" THEN Fail ELSE End)]
    /\ stream' = [stream EXCEPT ![c] = Closed]
    /\ UNCHANGED <<client, lapsed, crossed>>

\* A publication fails, of a weight or of new nodes, ahead of a chunk that is about to be
\* yielded, or of a weight in _finalize_diff: the RPC ends with its error behind the chunks
\* that were yielded.  When the second one fails the entry stays; that of a stream that is over
\* counts for none.  The thread goes on alone.
PublishingFails(c) ==
    /\ lapsed < MaxAckFails /\ lapsed' = lapsed + 1
    /\ client[c].pc \in {"open", "ack"}
    /\ stream[c].pc # "closed" \/ (wire[c] # <<>> /\ wire[c][Len(wire[c])] = End)
    /\ \E n \in {m \in 0..Len(wire[c]) : m = 0 \/ wire[c][m] # End} :
         wire' = [wire EXCEPT ![c] = Append(SubSeq(@, 1, n), Fail)]
    /\ stream' = [stream EXCEPT ![c] = Closed]
    /\ registry' \in {None} \cup ({registry} \ {c})
    /\ UNCHANGED <<client, crossed>>

ClientStep(c) ==
    OpenDiff(c) \/ ReceiveChunk(c) \/ ReceiveEnd(c) \/ ServeAck(c)

ThreadStep(c) == SendChunk(c) \/ TakeAck(c)

StreamNext ==
    /\ \E c \in Client : \/ ClientStep(c) \/ LoseAck(c) \/ ThreadStep(c) \/ AckTimesOut(c)
                         \/ FinishDiff(c) \/ PublishingFails(c)
    /\ UNCHANGED setup

\* Threads, event loops and clients run on; a wait that gets no acknowledgement times out.
StreamFairness ==
    \A c \in Client :
        /\ WF_streamVars(ClientStep(c))
        /\ WF_streamVars(ThreadStep(c))
        /\ WF_streamVars(FinishDiff(c))
        /\ WF_streamVars(AckTimesOut(c))

StreamSpec == StreamInit /\ [][StreamNext]_<<streamVars, setup>> /\ StreamFairness

-----------------------------------------------------------------------------
(***************************************************************************)
(* Properties.                                                              *)
(***************************************************************************)

\* Every variable has its type.
StreamTypeOK ==
    /\ registry \in Client \cup {None}
    /\ stream \in [Client -> StreamState]
    /\ wire \in [Client -> Seq(Nat)]
    /\ client \in [Client -> ClientState]
    /\ lapsed \in 0..MaxAckFails
    /\ crossed \in BOOLEAN

\* A call that succeeds has every chunk of the result: acknowledgements that are
\* counted for another stream or twice, chunks that are sent again, and an RPC that is
\* repeated from the start take none away.
ResultComplete ==
    /\ StreamTypeOK
    /\ \A c \in Client : client[c].pc = "ok" =>
         {client[c].got[i] : i \in DOMAIN client[c].got} = 1..Chunks

\* "Client did not acknowledge diff chunk": when the diff of a call fails with this
\* error, some chunk of it was not acknowledged.  Holds while RPCs do not overlap.
TimeoutMeansUnacked ==
    ~crossed => \A c \in Client : stream[c].pc = "raised" => stream[c].acked # 1..stream[c].sent

\* What a caller is told of a diff is true: success means that all of the result is
\* there, an acknowledgement timeout that one is really missing.
AnswerTellsTruth == ResultComplete /\ TimeoutMeansUnacked

\* Every call comes to an end.
DiffEnds == \A c \in Client : client[c].pc = "open" ~> client[c].pc \in {"ok", "failed"}
=============================================================================
