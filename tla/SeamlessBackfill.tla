-------------------------- MODULE SeamlessBackfill --------------------------
(***************************************************************************)
(* Several SDK processes read one window of one node through the Seamless     *)
(* provider, with the partial-fill strategy, over one history table.           *)
(*                                                                         *)
(* A fetch first starts a backfill of the whole window in the background: one  *)
(* flight per process, and one lease per window at the coordinator.  Then the  *)
(* planner reads what storage has and backfills the rest itself, without        *)
(* flight or lease.  Both go chunk by chunk through AutoBackfiller.backfill,    *)
(* which has the history provider fill the gaps of a chunk and read it, each     *)
(* under the lock of the process, and falls back to the bare fetcher when the    *)
(* storage fails.  A fetcher may answer with fewer bars than it was asked for.   *)
(*                                                                         *)
(* Task <<p, 0>> is the planner's own backfill in process p, <<p, k>> the k-th  *)
(* backfill p starts in the background; k is also the token of its flight.      *)
(***************************************************************************)
EXTENDS RangeMath, Optional

CONSTANTS
    Proc,               \* SDK processes
    Request,            \* the window [start, end) they all read
    ChunkBars,          \* window_bars
    Attempts,           \* max_attempts
    Tables,             \* contents the table may start with
    MaxFetches,         \* bound: fetches of a process
    MaxMishaps          \* bound: expiries, failed calls, storage errors, short answers

Task == Proc \X (0..MaxFetches)
Owner(t) == t[1]

ASSUME SeamlessConstants ==
    /\ Request \in Grid \X Grid /\ Request[1] < Request[2]
    /\ ChunkBars \in Nat /\ Attempts \in Nat \ {0} /\ Tables \subseteq SUBSET Grid
    /\ MaxFetches \in Nat /\ MaxMishaps \in Nat /\ None \notin Task

VARIABLES
    fetches,    \* per process: what its fetch is doing, the ranges left to read and the gaps
                \* left to fill, their last bars (ends), what it got, and the bars the
                \* fetcher left out of an answer to it (short)
    fills,      \* per task: the chunks left, and where it is in the first of them
    flights,    \* _active_backfills: per process the token of its flight
    lease,      \* the coordinator's lease on the window: the task it was granted to
    rows,       \* the table: per bar and process, how often the process inserted it
    found,      \* the bars that were in the table from the start
    raises,     \* whether the backend raises when it reads nothing, as QuestDB's does
    known,      \* _coverage_cache of each process
    locks,      \* the lock of each process on (node, interval): the task that has it
    mishaps     \* what went wrong so far: leases run out or never known, and the rest

seamlessVars == <<fetches, fills, flights, lease, rows, found, raises, known, locks, mishaps>>

Stored == {b \in Grid : b \in found \/ \E p \in Proc : rows[b][p] > 0}

NoFetch == [pc |-> "idle", n |-> 0, due |-> <<>>, gaps |-> <<>>, ends |-> {}, got |-> {},
            short |-> {}, clean |-> TRUE]

NoFill == [pc |-> "none", chunks |-> <<>>, tries |-> 0, reads |-> FALSE, miss |-> {}, new |-> {},
           cover |-> {}, refreshed |-> FALSE, frame |-> {}]
Filling(range) == [NoFill EXCEPT !.pc = "next", !.chunks = Chunks(range, ChunkBars)]

\* One more thing goes wrong.
Mishap(kind) ==
    /\ mishaps.lease + mishaps.other < MaxMishaps
    /\ mishaps' = [mishaps EXCEPT ![kind] = @ + 1]

SeamlessInit ==
    /\ fetches = [p \in Proc |-> NoFetch]
    /\ fills = [t \in Task |-> NoFill]
    /\ flights = [p \in Proc |-> None] /\ lease = None
    /\ found \in Tables /\ raises \in BOOLEAN /\ rows = [b \in Grid |-> [p \in Proc |-> 0]]
    /\ known = [p \in Proc |-> None] /\ locks = [p \in Proc |-> None]
    /\ mishaps = [lease |-> 0, other |-> 0]

-----------------------------------------------------------------------------
(* Starting a backfill in the background *)

\* _fetch_partial_fill up to the claim: a window in flight is left to that flight.
StartFetch(p) ==
    /\ fetches[p].pc = "idle" /\ fetches[p].n < MaxFetches
    /\ LET k == fetches[p].n + 1
       IN /\ fetches' = [fetches EXCEPT ![p] =
                 [NoFetch EXCEPT !.pc = IF flights[p] = None THEN "claim" ELSE "plan", !.n = k]]
          /\ flights' = [flights EXCEPT ![p] = IF @ = None THEN k ELSE @]
    /\ UNCHANGED <<fills, lease, rows, found, raises, known, locks, mishaps>>

\* The coordinator grants a lease on what nobody has a running lease on.
Free(held) == held = None

\* The claim is granted: the backfill runs as a task of its own and the fetch goes on.
LeaseGranted(p) ==
    /\ fetches[p].pc = "claim" /\ Free(lease)
    /\ lease' = <<p, fetches[p].n>>
    /\ fills' = [fills EXCEPT ![<<p, fetches[p].n>>] = Filling(Request)]
    /\ fetches' = [fetches EXCEPT ![p].pc = "plan"]
    /\ UNCHANGED <<flights, rows, found, raises, known, locks, mishaps>>

\* The claim returns None, because the window is taken or because the coordinator cannot
\* be reached or its answer is lost: the flight is given up, whoever it belongs to by now.
LeaseRefused(p) ==
    /\ fetches[p].pc = "claim"
    /\ \/ ~Free(lease) /\ UNCHANGED <<lease, mishaps>>
       \/ /\ Mishap("other")
          /\ lease' \in {lease} \cup {<<p, fetches[p].n>> : x \in {y \in {lease} : Free(y)}}
    /\ flights' = [flights EXCEPT ![p] = None]
    /\ fetches' = [fetches EXCEPT ![p].pc = "plan"]
    /\ UNCHANGED <<fills, rows, found, raises, known, locks>>

\* The claim raises: the backfill goes on without a lease.  If the coordinator granted one,
\* nobody gives it back (<<p, 0>> stands for it: the planner has no lease).
ClaimRaises(p) ==
    /\ fetches[p].pc = "claim" /\ Mishap("lease")
    /\ lease' \in {lease} \cup {<<p, 0>> : x \in {y \in {lease} : Free(y)}}
    /\ fills' = [fills EXCEPT ![<<p, fetches[p].n>>] = Filling(Request)]
    /\ fetches' = [fetches EXCEPT ![p].pc = "plan"]
    /\ UNCHANGED <<flights, rows, found, raises, known, locks>>

\* A flight is over its TTL: the next fetch drops it from the table of flights.
FlightExpires(p) ==
    /\ flights[p] # None /\ Mishap("other")
    /\ flights' = [flights EXCEPT ![p] = None]
    /\ UNCHANGED <<fetches, fills, lease, rows, found, raises, known, locks>>

\* Nobody renews a lease: the coordinator may drop it while its backfill still runs.
LeaseExpires ==
    /\ lease # None /\ Mishap("lease")
    /\ lease' = None
    /\ UNCHANGED <<fetches, fills, flights, rows, found, raises, known, locks>>

\* The flight a finished backfill leaves, unless it is that of a later backfill.
Lands(t) == [flights EXCEPT ![Owner(t)] = IF @ = t[2] THEN None ELSE @]

\* A background backfill that is through, with or without success, gives its lease back
\* (the call may not get through) and ends its flight.
BackfillEnds(t) ==
    /\ t[2] > 0 /\ fills[t].pc \in {"done", "failed"}
    /\ \/ lease' = (IF lease = t THEN None ELSE lease) /\ UNCHANGED mishaps
       \/ Mishap("other") /\ UNCHANGED lease
    /\ flights' = Lands(t)
    /\ fills' = [fills EXCEPT ![t] = NoFill]
    /\ UNCHANGED <<fetches, rows, found, raises, known, locks>>

-----------------------------------------------------------------------------
(* The planner *)

\* Defect variant of LockFree: the lock does not keep a second fill out.
LockFreeAlways(p) == TRUE

LockFree(p) == locks[p] = None

LastBars(ranges) == {ranges[k][2] : k \in DOMAIN ranges}

\* _consume_source for the storage: its coverage comes from the cache of the process when
\* it has one.  Coverage that cannot be read leaves the whole window to be backfilled.
ReadCoverage(p) ==
    LET coverage  == IF known[p] = None THEN Stored ELSE known[p]
        available == IntersectWith(Request, RunsOf(SetToSeq(coverage)))
        Split(due, gaps) ==
            fetches' = [fetches EXCEPT ![p] = [@ EXCEPT
                !.pc = "gaps", !.due = due, !.gaps = gaps, !.ends = LastBars(due) \cup LastBars(gaps)]]
    IN /\ fetches[p].pc = "plan" /\ LockFree(p)
       /\ \/ /\ Split(available,
                      IF available = <<>> THEN <<Request>> ELSE SubtractFrom(Request, available))
             /\ known' = [known EXCEPT ![p] = coverage]
             /\ UNCHANGED mishaps
          \/ /\ known[p] = None /\ Mishap("other")
             /\ Split(<<>>, <<Request>>)
             /\ UNCHANGED known
       /\ UNCHANGED <<fills, flights, lease, rows, found, raises, locks>>

\* What a backend reads is empty, and the backend is one that raises on that.
ReadRaises(bars) == raises /\ bars \cap Stored = {}

\* fetch reads the coverage anew before it reads a range, unless that is one bar, of which
\* nothing is read.
Recovered(p) ==
    IF HalfOpen(Head(fetches[p].due)) = {} THEN known ELSE [known EXCEPT ![p] = Stored]

\* _fetch_available: the next range is read, without its end.  None of it is missing.
ReadRange(p) ==
    /\ fetches[p].pc = "gaps" /\ fetches[p].due # <<>> /\ LockFree(p)
    /\ ~ReadRaises(HalfOpen(Head(fetches[p].due)))
    /\ fetches' = [fetches EXCEPT
          ![p].due = Tail(@), ![p].got = @ \cup (HalfOpen(Head(fetches[p].due)) \cap Stored)]
    /\ known' = Recovered(p)
    /\ UNCHANGED <<fills, flights, lease, rows, found, raises, locks, mishaps>>

\* A range cannot be read, or nothing is read of it and the backend raises: the error is
\* that of the fetch.
RangeFails(p) ==
    /\ fetches[p].pc = "gaps" /\ fetches[p].due # <<>> /\ LockFree(p)
    /\ \/ Mishap("other") /\ known' \in {known, Recovered(p)}
       \/ ReadRaises(HalfOpen(Head(fetches[p].due))) /\ known' = Recovered(p) /\ UNCHANGED mishaps
    /\ fetches' = [fetches EXCEPT ![p] = [@ EXCEPT
          !.pc = "idle", !.due = <<>>, !.gaps = <<>>, !.clean = FALSE]]
    /\ UNCHANGED <<fills, flights, lease, rows, found, raises, locks>>

\* _backfill_remaining: the next gap.
NextGap(p) ==
    /\ fetches[p].pc = "gaps" /\ fetches[p].due = <<>> /\ fetches[p].gaps # <<>>
    /\ fills[<<p, 0>>].pc = "none"
    /\ fills' = [fills EXCEPT ![<<p, 0>>] = Filling(Head(fetches[p].gaps))]
    /\ UNCHANGED <<fetches, flights, lease, rows, found, raises, known, locks, mishaps>>

\* The frames of a gap are added to the result; a gap that failed adds none.
GapEnds(p) ==
    LET fill == fills[<<p, 0>>]
    IN /\ fetches[p].pc = "gaps" /\ fill.pc \in {"done", "failed"}
       /\ fetches' = [fetches EXCEPT
             ![p].gaps = Tail(@),
             ![p].got = IF fill.pc = "done" THEN @ \cup fill.frame ELSE @,
             ![p].clean = @ /\ fill.pc = "done"]
       /\ fills' = [fills EXCEPT ![<<p, 0>>] = NoFill]
       /\ UNCHANGED <<flights, lease, rows, found, raises, known, locks, mishaps>>

\* The fetch returns what it has.
FetchReturns(p) ==
    /\ fetches[p].pc = "gaps" /\ fetches[p].due = <<>> /\ fetches[p].gaps = <<>>
    /\ fetches' = [fetches EXCEPT ![p].pc = "idle"]
    /\ UNCHANGED <<fills, flights, lease, rows, found, raises, known, locks, mishaps>>

-----------------------------------------------------------------------------
(* One chunk: AutoBackfiller.backfill over AugmentedHistoryProvider.fill_missing and fetch *)

Chunk(t) == Head(fills[t].chunks)

\* Defect variant of Asked: the end of the chunk is not asked for.
AskedHalfOpen(t) == HalfOpen(Chunk(t))

\* fill_missing takes both ends of a chunk in; fetch, which also fills before it reads,
\* leaves out the end.
Asked(t) == IF fills[t].reads THEN HalfOpen(Chunk(t)) ELSE Bars(Chunk(t))

\* The chunk is through.  The planner collects the frames, the background does not.
ChunkDone(t, frame) ==
    LET rest == Tail(fills[t].chunks)
    IN fills' = [fills EXCEPT ![t] =
           [NoFill EXCEPT !.pc = IF rest = <<>> THEN "done" ELSE "next", !.chunks = rest,
                          !.frame = IF t[2] = 0 THEN fills[t].frame \cup frame ELSE {}]]

\* Defect variant of Unlocked: the lock stays taken.
UnlockedNever(p) == locks

Unlocked(p) == [locks EXCEPT ![p] = None]

\* The chunk at the start of a part of its work.
Begun(t, pc, reads) ==
    [NoFill EXCEPT !.pc = pc, !.reads = reads, !.chunks = fills[t].chunks,
                   !.tries = fills[t].tries, !.frame = fills[t].frame]

\* A pass over the gaps of the chunk ends and sets the cached coverage.  After fill_missing
\* the lock is given back, and taken again by fetch, which passes over them once more and
\* then reads.
PassEnds(t, covered) ==
    /\ known' = [known EXCEPT ![Owner(t)] = covered]
    /\ \/ /\ ~fills[t].reads
          /\ fills' = [fills EXCEPT ![t] = Begun(t, "next", TRUE)]
          /\ locks' = Unlocked(Owner(t))
       \/ /\ fills[t].reads
          /\ fills' = [fills EXCEPT ![t] = Begun(t, "read", TRUE)]
          /\ locks' = [locks EXCEPT ![Owner(t)] = t]

\* Under the lock the coverage is read anew.  There is nothing to cover in a chunk of one
\* bar that is read without its end.
CoverChunk(t) ==
    LET miss == Asked(t) \ Stored
    IN /\ fills[t].pc = "next" /\ LockFree(Owner(t))
       /\ \/ /\ miss # {}
             /\ fills' = [fills EXCEPT ![t] = [@ EXCEPT !.pc = "ask", !.miss = miss, !.cover = Stored]]
             /\ known' = [known EXCEPT ![Owner(t)] = Stored]
             /\ locks' = [locks EXCEPT ![Owner(t)] = t]
          \/ miss = {} /\ PassEnds(t, IF Asked(t) = {} THEN known[Owner(t)] ELSE Stored)
       /\ UNCHANGED <<fetches, flights, lease, rows, found, raises, mishaps>>

\* The first run of missing bars.
FirstGap(miss) ==
    {b \in miss : \A c \in Grid : c <= b /\ (\E d \in miss : d <= c) => c \in miss}

\* A fetcher answers, possibly with fewer bars than it was asked for, or with none.
Answers(answer, asked) ==
    \/ answer = asked /\ UNCHANGED mishaps
    \/ answer # asked /\ Mishap("other")

\* A gap is through.  The coverage is read anew after the last one if bars of some gap had
\* come into the table meanwhile; otherwise what was written is counted as covered.
GapDone(t, fill) ==
    \/ /\ fill.miss # {} \/ fill.refreshed
       /\ fills' = [fills EXCEPT ![t] = [fill EXCEPT !.pc = "ask"]]
       /\ UNCHANGED <<known, locks>>
    \/ fill.miss = {} /\ ~fill.refreshed /\ PassEnds(t, fill.cover)

\* The fetcher is asked for the next gap.  A gap it has no bars of is passed over; of its
\* answer, the bars that came into the table meanwhile are not written.
FetchGap(t) ==
    LET gap == FirstGap(fills[t].miss)
    IN /\ fills[t].pc = "ask" /\ fills[t].miss # {}
       /\ \E answer \in SUBSET gap :
             LET fill == [fills[t] EXCEPT !.miss = @ \ gap, !.refreshed = @ \/ answer \cap Stored # {}]
             IN /\ Answers(answer, gap)
                /\ answer # {} => ~ReadRaises(gap)
                /\ \/ /\ ~(answer \subseteq Stored)
                      /\ fills' = [fills EXCEPT ![t] = [fill EXCEPT !.pc = "write", !.new = answer \ Stored]]
                      /\ UNCHANGED <<known, locks>>
                   \/ answer \subseteq Stored /\ GapDone(t, fill)
                /\ fetches' = [fetches EXCEPT ![Owner(t)].short =
                      IF t[2] = 0 THEN @ \cup (gap \ answer) ELSE @]
       /\ UNCHANGED <<flights, lease, rows, found, raises>>

Insert(t, bars) ==
    rows' = [b \in Grid |-> [rows[b] EXCEPT ![Owner(t)] = IF b \in bars THEN @ + 1 ELSE @]]

\* The rows of a gap are inserted.
WriteGap(t) ==
    /\ fills[t].pc = "write"
    /\ Insert(t, fills[t].new)
    /\ GapDone(t, [fills[t] EXCEPT !.new = {}, !.cover = @ \cup fills[t].new])
    /\ UNCHANGED <<fetches, flights, lease, found, raises, mishaps>>

\* No gap is left, and the coverage is read anew.
RefreshCoverage(t) ==
    /\ fills[t].pc = "ask" /\ fills[t].miss = {}
    /\ PassEnds(t, Stored)
    /\ UNCHANGED <<fetches, flights, lease, rows, found, raises, mishaps>>

\* What the table has of [start, end) is read.
ReadChunk(t) ==
    /\ fills[t].pc = "read" /\ ~ReadRaises(HalfOpen(Chunk(t)))
    /\ ChunkDone(t, HalfOpen(Chunk(t)) \cap Stored)
    /\ locks' = Unlocked(Owner(t))
    /\ UNCHANGED <<fetches, flights, lease, rows, found, raises, known, mishaps>>

\* An error of the storage, or of the fetcher under it, is logged, and the fetcher is asked
\* directly.
AskDirectly(t) ==
    /\ fills' = [fills EXCEPT ![t] = Begun(t, "direct", FALSE)]
    /\ locks' = Unlocked(Owner(t))

\* The backend raises: there are no rows that came into a gap meanwhile, or none to read.
EmptyRead(t) ==
    /\ \/ fills[t].pc = "ask" /\ fills[t].miss # {} /\ ReadRaises(FirstGap(fills[t].miss))
       \/ fills[t].pc = "read" /\ ReadRaises(HalfOpen(Chunk(t)))
    /\ AskDirectly(t)
    /\ UNCHANGED <<fetches, flights, lease, rows, found, raises, known, mishaps>>

\* A call fails, be it for coverage, bars or rows; rows go in one by one, so some of them
\* may be there.
StorageFails(t) ==
    /\ \/ fills[t].pc = "next" /\ LockFree(Owner(t))
       \/ fills[t].pc \in {"ask", "write", "read"}
    /\ Mishap("other")
    /\ \E bars \in SUBSET fills[t].new : Insert(t, bars)
    /\ AskDirectly(t)
    /\ UNCHANGED <<fetches, flights, lease, found, raises, known>>

\* _fetch_from_source: the chunk is fetched, both ends in, and stored nowhere.
FetchDirectly(t) ==
    /\ fills[t].pc = "direct"
    /\ \E answer \in SUBSET Bars(Chunk(t)) : Answers(answer, Bars(Chunk(t))) /\ ChunkDone(t, answer)
    /\ fetches' = [fetches EXCEPT ![Owner(t)].clean = @ /\ t[2] > 0]
    /\ UNCHANGED <<flights, lease, rows, found, raises, known, locks>>

\* The fetcher fails too: the chunk is tried again, and the task fails with its last try.
FetcherFails(t) ==
    /\ fills[t].pc = "direct"
    /\ LET tries == fills[t].tries + 1
       IN fills' = [fills EXCEPT ![t] =
              IF tries < Attempts THEN [fills[t] EXCEPT !.pc = "next", !.tries = tries]
              ELSE [NoFill EXCEPT !.pc = "failed"]]
    /\ UNCHANGED <<fetches, flights, lease, rows, found, raises, known, locks, mishaps>>

-----------------------------------------------------------------------------
FetchStep(p) ==
    StartFetch(p) \/ LeaseGranted(p) \/ LeaseRefused(p) \/ ClaimRaises(p) \/ ReadCoverage(p)
        \/ ReadRange(p) \/ RangeFails(p) \/ NextGap(p) \/ GapEnds(p) \/ FetchReturns(p)

FillStep(t) ==
    CoverChunk(t) \/ FetchGap(t) \/ WriteGap(t) \/ RefreshCoverage(t) \/ ReadChunk(t) \/ EmptyRead(t)
        \/ StorageFails(t) \/ FetchDirectly(t) \/ FetcherFails(t) \/ BackfillEnds(t)

SeamlessNext ==
    \/ \E p \in Proc : FetchStep(p) \/ FlightExpires(p)
    \/ \E t \in Task : FillStep(t)
    \/ LeaseExpires

\* The event loop of a process goes on as long as one of its tasks can: calls end with an
\* answer or an error, and there are finitely many steps to a fetch and its backfills.  Each
\* of these steps is seen in the fetch or in a fill of the process.
Work(p) == <<fetches[p], [k \in 0..MaxFetches |-> fills[<<p, k>>]]>>

LoopStep(p) ==
    /\ Work(p)' # Work(p)
    /\ \/ fetches[p].pc # "idle" /\ FetchStep(p)
       \/ \E k \in 0..MaxFetches : FillStep(<<p, k>>)

\* ENABLED LoopStep(p), written out.
Busy(p) ==
    \/ fetches[p].pc = "claim"
    \/ fetches[p].pc = "plan" /\ LockFree(p)
    \/ fetches[p].pc = "gaps" /\ fetches[p].due # <<>> /\ LockFree(p)
    \/ /\ fetches[p].pc = "gaps" /\ fetches[p].due = <<>>
       /\ fetches[p].gaps = <<>> \/ fills[<<p, 0>>].pc \in {"none", "done", "failed"}
    \/ \E k \in 0..MaxFetches :
          \/ fills[<<p, k>>].pc \in {"ask", "write", "read", "direct"}
          \/ fills[<<p, k>>].pc = "next" /\ LockFree(p)
          \/ k > 0 /\ fills[<<p, k>>].pc \in {"done", "failed"}

\* Weak fairness of LoopStep.
SeamlessFairness == \A p \in Proc : ([]<>(~Busy(p))) \/ ([]<><<LoopStep(p)>>_seamlessVars)

SeamlessSpec == SeamlessInit /\ [][SeamlessNext]_seamlessVars /\ SeamlessFairness

-----------------------------------------------------------------------------
SeamlessTypeOK ==
    /\ fetches \in [Proc -> [pc : {"idle", "claim", "plan", "gaps"}, n : 0..MaxFetches,
                             due : Seq(Time \X Time), gaps : Seq(Time \X Time), ends : SUBSET Time,
                             got : SUBSET Grid, short : SUBSET Grid, clean : BOOLEAN]]
    /\ \A t \in Task :
          /\ fills[t].pc \in {"none", "next", "ask", "write", "read", "direct", "done", "failed"}
          /\ fills[t].pc \in {"next", "ask", "write", "read", "direct"} => fills[t].chunks # <<>>
          /\ fills[t].pc \in {"ask", "write", "read"} => locks[Owner(t)] = t
    /\ \A p \in Proc : known[p] = None \/ known[p] \subseteq Grid

\* A process inserts no bar twice: not when a background backfill and the planner fill
\* the same window, not when a chunk is tried again after some of its rows went in.
OncePerProcess == \A b \in Grid, p \in Proc : rows[b][p] <= 1

\* Backfills in the background write a bar twice only when a lease ran out under one of
\* them, or a claim that raised left one without: as long as neither happened, no two
\* processes run one at the same time.
BackgroundAlone ==
    mishaps.lease = 0 =>
        \A s, t \in Task :
            s[2] > 0 /\ t[2] > 0 /\ fills[s].pc # "none" /\ fills[t].pc # "none" => s = t

\* The cached coverage of a process names no bar the table has not, whatever failed
\* while it was written and whoever else writes.
KnownIsStored == \A p \in Proc : known[p] # None => known[p] \subseteq Stored

\* A flight in the table of flights is that of a backfill still claimed or running, so
\* none stays behind and keeps later fetches from starting one.
FlightIsFlown ==
    \A p \in Proc : flights[p] # None =>
        \/ fetches[p].pc = "claim" /\ fetches[p].n = flights[p]
        \/ fills[<<p, flights[p]>>].pc # "none"

\* Backfills that run into each other do no harm: no process inserts a bar twice, none
\* runs in the background beside another while leases last, and neither the cached
\* coverage nor the table of flights names what is not there.
BackfillSafe ==
    SeamlessTypeOK /\ OncePerProcess /\ BackgroundAlone /\ KnownIsStored /\ FlightIsFlown

\* A fetch that met no error leaves every bar of its window in the table, its end too,
\* unless the fetcher left the bar out of an answer: a short or an empty frame is no error
\* to ensure_range.  It returns bars of [start, end) only, and all of them but those and
\* the last bars of the ranges and gaps the window was split into, which are read without
\* their ends.
CleanFetchFills ==
    \A p \in Proc :
        fetches[p].pc = "idle" /\ fetches[p].n > 0 /\ fetches[p].clean =>
            /\ Bars(Request) \subseteq Stored \cup fetches[p].short
            /\ fetches[p].got \subseteq HalfOpen(Request)
            /\ HalfOpen(Request) \subseteq fetches[p].got \cup fetches[p].short \cup fetches[p].ends

\* Every fetch ends, though it waits for the lock of the other backfills of its process.
FetchEnds == \A p \in Proc : fetches[p].pc # "idle" ~> fetches[p].pc = "idle"
=============================================================================
