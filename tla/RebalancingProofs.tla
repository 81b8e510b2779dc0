-------------------------- MODULE RebalancingProofs --------------------------
(*********************************************************************************)
(* Proofs about the two halves of a rebalancing.                                 *)
(* AllocationRuns: requests for overlapping sets of worlds follow one another    *)
(* without a circular wait, and a run that is not in doubt is carried out at     *)
(* most once, for any number of requests, runs and worlds, failing calls and     *)
(* crashes.  RebalanceOrders: for any number of requests and worlds, any plans   *)
(* and any number of failing calls, no order of a world read to be in shadow     *)
(* mode is published, every batch is published once, and the one writer is free  *)
(* again.  The halves share no state.                                            *)
(*********************************************************************************)
EXTENDS AllocationRuns, RebalanceOrders, FiniteSetTheorems, WellFoundedInduction, TLAPS

-----------------------------------------------------------------------------
(* Least and greatest elements *)

\* A set of natural numbers that is not empty has a least element.
LEMMA LeastNatural ==
    ASSUME NEW T, T \subseteq Nat, T # {}
    PROVE  \E x \in T : \A y \in T : x <= y
<1> DEFINE R == OpToRel(<, Nat)
<1>1. IsWellFoundedOn(R, Nat)
  BY NatLessThanWellFounded
<1>2. \A x, y \in Nat : y < x => <<y, x>> \in R
  BY DEF OpToRel
<1> HIDE DEF R
<1>3. PICK x \in T : \A y \in T : ~ (<<y, x>> \in R)
  BY <1>1, WFMin
<1>4. ASSUME NEW y \in T PROVE x <= y
  <2>1. x \in Nat /\ y \in Nat /\ ~ (<<y, x>> \in R)
    BY <1>3
  <2> QED
    BY <1>2, <2>1
<1> QED
  BY <1>4

\* _lock_worlds takes the least of the worlds that it has not got yet.
LEMMA MinIsLeast ==
    ASSUME NEW T, T \subseteq Nat, T # {}
    PROVE  Min(T) \in T /\ \A y \in T : Min(T) <= y
BY LeastNatural DEF Min

\* A finite set of natural numbers that is not empty has a greatest element: there is no
\* smallest set without one.
LEMMA GreatestOfFinite ==
    ASSUME NEW S, S \subseteq Nat, S # {}, IsFiniteSet(S)
    PROVE  \E x \in S : \A y \in S : y <= x
<1> DEFINE Without == {D \in SUBSET S : D # {} /\ ~ \E x \in D : \A y \in D : y <= x}
           Sizes == {Cardinality(D) : D \in Without}
<1>1. \A D \in SUBSET S : IsFiniteSet(D) /\ Cardinality(D) \in Nat
  BY FS_Subset, FS_CardinalityType
<1> SUFFICES ASSUME S \in Without PROVE FALSE
  OBVIOUS
<1>2. Sizes \subseteq Nat /\ Sizes # {}
  BY <1>1
<1>3. PICK n \in Sizes : \A m \in Sizes : n <= m
  BY <1>2, LeastNatural
<1>4. PICK D \in Without : Cardinality(D) = n
  BY <1>3
<1>5. PICK a \in D : TRUE
  BY <1>4
<1> DEFINE E == D \ {a}
<1>6. IsFiniteSet(D) /\ E \in SUBSET S /\ Cardinality(E) = Cardinality(D) - 1
  BY <1>1, <1>4, <1>5, FS_RemoveElement
<1>7. Cardinality(E) \in Nat /\ Cardinality(D) \in Nat
  BY <1>1, <1>4, <1>6
<1>8. E \notin Without
  <2>1. E \in Without => Cardinality(E) \in Sizes
    OBVIOUS
  <2> HIDE DEF Sizes, Without, E
  <2> QED
    BY <1>3, <1>4, <1>6, <1>7, <2>1
<1>9. CASE E = {}
  <2>1. D = {a} /\ a \in Nat
    BY <1>4, <1>5, <1>9
  <2>2. \A y \in D : y <= a
    BY <2>1
  <2> QED
    BY <1>4, <1>5, <2>2
<1>10. CASE E # {}
  <2>1. PICK b \in E : \A y \in E : y <= b
    BY <1>6, <1>8, <1>10
  <2>2. a \in Nat /\ b \in Nat /\ b \in D /\ \A y \in D : y = a \/ y <= b
    BY <1>4, <1>5, <2>1
  <2>3. \A y \in D : y \in Nat
    BY <1>4
  <2>4. (\A y \in D : y <= a) \/ (\A y \in D : y <= b)
    BY <2>2, <2>3
  <2> QED
    BY <1>4, <1>5, <2>2, <2>4
<1> QED
  BY <1>9, <1>10

-----------------------------------------------------------------------------
(* The inductive invariant *)

Share == [run : Run, etag : {p.etag : p \in Payloads}] \cup {None}
Seen == UNION {[ws -> Share] : ws \in SUBSET World}
CallState ==
    [pc : {"idle", "look", "lock", "context", "record", "store", "announce", "execute", "mark"},
     want : Payloads \cup {None}, todo : SUBSET World, before : Seen \cup {None}]

TablesInv ==
    /\ runTable \in [Run -> RunRow \cup {None}]
    /\ held \in [World -> Share]
    /\ doubtful \subseteq Run /\ executed \in [Run -> Nat]

\* The request has the locks of all its worlds.
Holding(c) ==
    \/ calls[c].pc \in {"context", "record", "store", "announce"}
    \/ calls[c].pc \in {"execute", "mark"} /\ calls[c].before # None

\* Where a request is tells what it wants, what it has read and which locks it has.
CallInv(c) ==
    /\ ~CallAt(c, "idle") => Want(c) \in Payloads
    /\ calls[c].pc \in {"idle", "look", "lock", "context"} => calls[c].before = None
    /\ calls[c].pc \in {"lock", "record", "store"} => calls[c].todo \subseteq Want(c).worlds
    /\ CallAt(c, "lock") => calls[c].todo # {}
    /\ CallAt(c, "lock") => \A w \in Want(c).worlds \ calls[c].todo : worldLock[w] = c
    /\ Holding(c) => \A w \in Want(c).worlds : worldLock[w] = c
    /\ calls[c].pc \in {"store", "announce", "execute", "mark"} => runTable[RunOf(c)] # None

CallsInv == calls \in [Caller -> CallState] /\ \A c \in Caller : CallInv(c)

\* A lock belongs to a request that has got beyond its first look, and is of a smaller
\* world than all it still waits for.
LockInv(w, c) ==
    worldLock[w] = c =>
        /\ calls[c].pc \notin {"idle", "look"}
        /\ CallAt(c, "lock") => w \notin calls[c].todo /\ \A v \in calls[c].todo : w < v

LocksInv ==
    /\ worldLock \in [World -> Caller \cup {None}]
    /\ \A w \in World, c \in Caller : LockInv(w, c)

\* The row says that the run was carried out.
Flagged(r) == runTable[r] # None /\ runTable[r].executed

\* Between its first look and the executor, and just behind it.
Planning == {"lock", "context", "record", "store", "announce", "execute"}

\* Of a run that is not in doubt there is one request at most, and how often the run was
\* carried out can be told from its row and from where that request is.
OnceInv ==
    /\ \A c, d \in Caller :
         c # d /\ ~CallAt(c, "idle") /\ ~CallAt(d, "idle") /\ RunOf(c) = RunOf(d)
           => RunOf(c) \in doubtful
    /\ \A r \in Run \ doubtful :
         /\ executed[r] \in {0, 1}
         /\ Flagged(r) => executed[r] = 1
         /\ executed[r] = 1 => Flagged(r) \/ \E c \in Caller : CallAt(c, "mark") /\ RunOf(c) = r
         /\ \A c \in Caller : calls[c].pc \in Planning \cup {"mark"} /\ RunOf(c) = r =>
              /\ calls[c].pc \in Planning => executed[r] = 0
              /\ CallAt(c, "mark") => executed[r] = 1

AllocInv == TablesInv /\ CallsInv /\ LocksInv /\ PlanIsCurrent /\ OnceInv

-----------------------------------------------------------------------------
(* The invariant under the step of one request *)

\* What a valid payload names.
LEMMA PayloadNames ==
    ASSUME NEW p \in Payloads
    PROVE  p.run \in Run /\ p.worlds \subseteq World /\ p.worlds # {}
           /\ p.etag \in {q.etag : q \in Payloads}
BY AllocationBounds DEF Run, World

\* A request goes on: only its own record changes.
OnlyMoves(c) ==
    /\ calls' \in [Caller -> CallState]
    /\ \A d \in Caller \ {c} : calls'[d] = calls[d]

\* Rows stay, and the shares that change are of worlds whose lock c has.
TablesGrow(c) ==
    /\ TablesInv'
    /\ \A r \in Run : runTable[r] # None => runTable'[r] # None
    /\ \A w \in World : held'[w] = held[w] \/ worldLock[w] = c

\* The other requests are not disturbed when c goes on, gets a free lock or gives its
\* locks back.
LEMMA OthersKept ==
    ASSUME AllocInv, NEW c \in Caller, OnlyMoves(c), TablesGrow(c),
           worldLock' \in [World -> Caller \cup {None}],
           \A w \in World : \/ worldLock'[w] = worldLock[w]
                            \/ worldLock[w] \in {c, None} /\ worldLock'[w] \in {c, None},
           NEW d \in Caller, d # c
    PROVE  /\ CallInv(d)'
           /\ \A w \in World : LockInv(w, d)'
           /\ calls'[d].before # None =>
                \A w \in Want(d)'.worlds :
                    held'[w] = IF w \in calls'[d].todo THEN calls'[d].before[w] ELSE Own(d)'
<1>0. None # d /\ calls'[d] = calls[d] /\ CallInv(d) /\ calls[d] \in CallState
  BY AllocationBounds DEF OnlyMoves, AllocInv, CallsInv
<1>1. /\ Want(d)' = Want(d) /\ RunOf(d)' = RunOf(d) /\ Own(d)' = Own(d)
      /\ \A pc : CallAt(d, pc)' = CallAt(d, pc)
  BY <1>0 DEF Want, RunOf, Own, CallAt
<1>2. \A w \in World : worldLock'[w] = d <=> worldLock[w] = d
  BY <1>0
<1>3. ~CallAt(d, "idle") => RunOf(d) \in Run /\ Want(d).worlds \subseteq World
  BY <1>0, PayloadNames DEF CallInv, RunOf
<1>4. calls[d].pc \notin {"idle"} => ~CallAt(d, "idle")
  BY DEF CallAt
<1>5. CallInv(d)'
  <2>1. Holding(d)' => Holding(d) /\ ~CallAt(d, "idle")
    BY <1>0 DEF Holding, CallAt
  <2>2. Holding(d)' => \A w \in Want(d).worlds : worldLock'[w] = d
    BY <1>0, <1>2, <1>3, <2>1 DEF CallInv
  <2>3. CallAt(d, "lock") => \A w \in Want(d).worlds \ calls[d].todo : worldLock'[w] = d
    BY <1>0, <1>2, <1>3 DEF CallInv, CallAt
  <2>4. calls[d].pc \in {"store", "announce", "execute", "mark"} => runTable'[RunOf(d)] # None
    BY <1>0, <1>3 DEF CallInv, CallAt, TablesGrow
  <2> QED
    BY <1>0, <1>1, <2>2, <2>3, <2>4 DEF CallInv
<1>6. \A w \in World : LockInv(w, d)'
  BY <1>0, <1>1, <1>2 DEF LockInv, AllocInv, LocksInv
<1>7. ASSUME calls'[d].before # None, NEW w \in Want(d)'.worlds
      PROVE  held'[w] = IF w \in calls'[d].todo THEN calls'[d].before[w] ELSE Own(d)'
  <2>1. Holding(d) /\ ~CallAt(d, "idle")
    BY <1>0, <1>7 DEF CallInv, Holding, CallAt, CallState
  <2>2. worldLock[w] = d /\ w \in World
    BY <1>0, <1>1, <1>3, <1>7, <2>1 DEF CallInv
  <2>3. held'[w] = held[w]
    BY <2>2 DEF TablesGrow
  <2> QED
    BY <1>0, <1>1, <1>7, <2>3 DEF AllocInv, PlanIsCurrent
<1> QED
  BY <1>5, <1>6, <1>7

\* The request c goes on with the locks as they are.
LEMMA GoesOnInv ==
    ASSUME AllocInv, NEW c \in Caller, OnlyMoves(c), TablesGrow(c), UNCHANGED worldLock,
           CallInv(c)', \A w \in World : LockInv(w, c)',
           calls'[c].before # None =>
                \A w \in Want(c)'.worlds :
                    held'[w] = IF w \in calls'[c].todo THEN calls'[c].before[w] ELSE Own(c)'
    PROVE  TablesInv' /\ CallsInv' /\ LocksInv' /\ PlanIsCurrent'
<1>1. worldLock' \in [World -> Caller \cup {None}]
  BY DEF AllocInv, LocksInv
<1>2. ASSUME NEW d \in Caller
      PROVE  /\ CallInv(d)' /\ \A w \in World : LockInv(w, d)'
             /\ calls'[d].before # None =>
                  \A w \in Want(d)'.worlds :
                    held'[w] = IF w \in calls'[d].todo THEN calls'[d].before[w] ELSE Own(d)'
  <2>1. CASE d = c
    BY <2>1
  <2>2. CASE d # c
    BY <1>1, <2>2, OthersKept
  <2> QED
    BY <2>1, <2>2
<1>3. CallsInv' /\ LocksInv'
  BY <1>1, <1>2 DEF CallsInv, LocksInv, OnlyMoves
<1>4. PlanIsCurrent'
  BY <1>2 DEF PlanIsCurrent
<1> QED
  BY <1>3, <1>4 DEF TablesGrow

\* The record of a request that is over.
LEMMA NoCallType == NoCall \in CallState /\ NoCall.pc = "idle" /\ NoCall.before = None
BY DEF NoCall, CallState

\* The request c is answered, or an exception leaves it.
LEMMA LeavesInv ==
    ASSUME AllocInv, NEW c \in Caller, Leaves(c), TablesGrow(c)
    PROVE  /\ TablesInv' /\ CallsInv' /\ LocksInv' /\ PlanIsCurrent'
           /\ OnlyMoves(c) /\ calls'[c].pc = "idle"
<1>0. calls \in [Caller -> CallState] /\ worldLock \in [World -> Caller \cup {None}] /\ None # c
  BY AllocationBounds DEF AllocInv, CallsInv, LocksInv
<1>1. OnlyMoves(c) /\ calls'[c] = NoCall
  BY <1>0, NoCallType DEF Leaves, OnlyMoves
<1>2. /\ worldLock' \in [World -> Caller \cup {None}]
      /\ \A w \in World : worldLock'[w] = IF worldLock[w] = c THEN None ELSE worldLock[w]
  BY <1>0 DEF Leaves
<1>3. ASSUME NEW d \in Caller
      PROVE  /\ CallInv(d)' /\ \A w \in World : LockInv(w, d)'
             /\ calls'[d].before # None =>
                  \A w \in Want(d)'.worlds :
                    held'[w] = IF w \in calls'[d].todo THEN calls'[d].before[w] ELSE Own(d)'
  <2>1. CASE d = c
    <3>1. CallInv(c)'
      BY <1>1, NoCallType DEF CallInv, CallAt, Holding
    <3>2. \A w \in World : LockInv(w, c)'
      BY <1>0, <1>2 DEF LockInv
    <3> QED
      BY <1>1, <2>1, <3>1, <3>2, NoCallType
  <2>2. CASE d # c
    BY <1>1, <1>2, <2>2, OthersKept
  <2> QED
    BY <2>1, <2>2
<1>4. CallsInv' /\ LocksInv'
  BY <1>1, <1>2, <1>3 DEF CallsInv, LocksInv, OnlyMoves
<1>5. PlanIsCurrent'
  BY <1>3 DEF PlanIsCurrent
<1> QED
  BY <1>1, <1>4, <1>5, NoCallType DEF TablesGrow

\* How often the runs were carried out, when c goes on or leaves.
LEMMA OnceKept ==
    ASSUME AllocInv, NEW c \in Caller, OnlyMoves(c), ~CallAt(c, "idle"),
           calls'[c].pc = "idle" \/ calls'[c].want = calls[c].want,
           doubtful \subseteq doubtful', NEW r \in Run, r = RunOf(c),
           \A x \in Run \ {r} : runTable'[x] = runTable[x] /\ executed'[x] = executed[x],
           r \notin doubtful' =>
             /\ executed'[r] \in {0, 1}
             /\ Flagged(r)' => executed'[r] = 1
             /\ executed'[r] = 1 => Flagged(r)' \/ calls'[c].pc = "mark"
             /\ calls'[c].pc \in Planning => executed'[r] = 0
             /\ calls'[c].pc = "mark" => executed'[r] = 1
    PROVE  OnceInv'
<1>0. \A d \in Caller \ {c} : RunOf(d)' = RunOf(d) /\ \A pc : CallAt(d, pc)' = CallAt(d, pc)
  BY DEF OnlyMoves, RunOf, Want, CallAt
<1>1. \/ CallAt(c, "idle")' /\ calls'[c].pc \notin Planning /\ ~CallAt(c, "mark")'
      \/ RunOf(c)' = r
  BY DEF CallAt, Planning, RunOf, Want
<1>2. ASSUME NEW b \in Caller, NEW d \in Caller, b # d, ~CallAt(b, "idle")', ~CallAt(d, "idle")',
             RunOf(b)' = RunOf(d)'
      PROVE  RunOf(b)' \in doubtful'
  <2>1. \A x \in {b, d} : ~CallAt(x, "idle") /\ RunOf(x)' = RunOf(x)
    BY <1>0, <1>1, <1>2
  <2> QED
    BY <1>2, <2>1 DEF AllocInv, OnceInv
<1>3. ASSUME NEW x \in Run \ doubtful'
      PROVE  /\ executed'[x] \in {0, 1}
             /\ Flagged(x)' => executed'[x] = 1
             /\ executed'[x] = 1 =>
                  Flagged(x)' \/ \E d \in Caller : CallAt(d, "mark")' /\ RunOf(d)' = x
             /\ \A d \in Caller : RunOf(d)' = x =>
                  /\ calls'[d].pc \in Planning => executed'[x] = 0
                  /\ CallAt(d, "mark")' => executed'[x] = 1
  <2>0. x \in Run \ doubtful
    BY <1>3
  <2>1. CASE x = r
    <3>1. ASSUME NEW d \in Caller, d # c, RunOf(d)' = r PROVE CallAt(d, "idle")'
      <4>1. RunOf(d) = r /\ CallAt(d, "idle")' = CallAt(d, "idle")
        BY <1>0, <3>1
      <4> QED
        BY <2>0, <2>1, <3>1, <4>1 DEF AllocInv, OnceInv
    <3>2. ASSUME NEW d \in Caller, RunOf(d)' = x
          PROVE  /\ calls'[d].pc \in Planning => executed'[x] = 0
                 /\ CallAt(d, "mark")' => executed'[x] = 1
      BY <1>3, <2>1, <3>1, <3>2 DEF CallAt, Planning
    <3>3. calls'[c].pc = "mark" => CallAt(c, "mark")' /\ RunOf(c)' = x
      BY <1>1, <2>1 DEF CallAt
    <3> QED
      BY <1>3, <2>1, <3>2, <3>3
  <2>2. CASE x # r
    <3>1. runTable'[x] = runTable[x] /\ executed'[x] = executed[x] /\ Flagged(x)' = Flagged(x)
      BY <2>2 DEF Flagged
    <3>2. ASSUME NEW d \in Caller, RunOf(d)' = x
          PROVE  /\ calls'[d].pc \in Planning => executed'[x] = 0
                 /\ CallAt(d, "mark")' => executed'[x] = 1
      <4>1. CASE d = c
        BY <1>1, <2>2, <3>2, <4>1
      <4>2. CASE d # c
        <5>1. RunOf(d) = x /\ calls'[d] = calls[d] /\ CallAt(d, "mark")' = CallAt(d, "mark")
          BY <1>0, <3>2, <4>2 DEF OnlyMoves
        <5> QED
          BY <2>0, <3>1, <5>1 DEF AllocInv, OnceInv, CallAt
      <4> QED
        BY <4>1, <4>2
    <3>3. ASSUME NEW d \in Caller, CallAt(d, "mark"), RunOf(d) = x
          PROVE  CallAt(d, "mark")' /\ RunOf(d)' = x
      BY <1>0, <2>2, <3>3
    <3> QED
      BY <2>0, <3>1, <3>2, <3>3 DEF AllocInv, OnceInv
  <2> QED
    BY <2>1, <2>2
<1> QED
  BY <1>2, <1>3 DEF OnceInv

\* The request goes on to another step.
LEMMA ProceedsTo ==
    ASSUME AllocInv, NEW c \in Caller, NEW pc, Proceeds(c, pc),
           pc \in {"store", "execute", "mark"}
    PROVE  /\ OnlyMoves(c) /\ worldLock' = worldLock
           /\ calls'[c].pc = pc /\ calls'[c].want = calls[c].want
           /\ calls'[c].todo = calls[c].todo /\ calls'[c].before = calls[c].before
<1>0. calls \in [Caller -> CallState] /\ calls[c] \in CallState
  BY DEF AllocInv, CallsInv
<1> DEFINE u == [calls[c] EXCEPT !.pc = pc]
<1>1. u \in CallState
  BY <1>0 DEF CallState
<1>2. u.pc = pc /\ u.want = calls[c].want /\ u.todo = calls[c].todo /\ u.before = calls[c].before
  BY <1>0 DEF CallState
<1>3. calls' = [calls EXCEPT ![c] = u] /\ worldLock' = worldLock
  BY <1>0 DEF Proceeds
<1> HIDE DEF u
<1>4. calls'[c] = u /\ OnlyMoves(c)
  BY <1>0, <1>1, <1>3 DEF OnlyMoves
<1> QED
  BY <1>2, <1>3, <1>4

\* What is known of a request that is under way.
LEMMA UnderWay ==
    ASSUME AllocInv, NEW c \in Caller, calls[c].pc # "idle"
    PROVE  /\ calls \in [Caller -> CallState] /\ calls[c] \in CallState /\ CallInv(c)
           /\ Want(c) \in Payloads /\ RunOf(c) \in Run /\ Want(c).worlds \subseteq World
           /\ Want(c).worlds # {} /\ ~CallAt(c, "idle") /\ Own(c) \in Share
           /\ Want(c).etag \in {q.etag : q \in Payloads}
<1>1. Want(c) \in Payloads /\ ~CallAt(c, "idle") /\ CallInv(c)
  BY DEF AllocInv, CallsInv, CallInv, CallAt
<1>2. RunOf(c) \in Run /\ Want(c).worlds \subseteq World /\ Want(c).worlds # {}
      /\ Want(c).etag \in {q.etag : q \in Payloads}
  BY <1>1, PayloadNames DEF RunOf
<1> QED
  BY <1>1, <1>2 DEF AllocInv, CallsInv, Own, Share

\* The tables are not touched.
LEMMA TablesSame ==
    ASSUME AllocInv, NEW c \in Caller, UNCHANGED <<runTable, held, executed>>,
           doubtful' \subseteq Run
    PROVE  TablesGrow(c)
BY DEF AllocInv, TablesInv, TablesGrow

\* A request leaves without having touched the run's row and the count.
LEMMA LeavesQuietly ==
    ASSUME AllocInv, NEW c \in Caller, Leaves(c), TablesGrow(c), calls[c].pc # "idle",
           UNCHANGED <<runTable, executed>>, doubtful \subseteq doubtful',
           calls[c].pc # "mark" \/ RunOf(c) \in doubtful'
    PROVE  AllocInv'
<1>1. /\ TablesInv' /\ CallsInv' /\ LocksInv' /\ PlanIsCurrent'
      /\ OnlyMoves(c) /\ calls'[c].pc = "idle"
  BY LeavesInv
<1>2. RunOf(c) \in Run /\ ~CallAt(c, "idle")
  BY UnderWay
<1> DEFINE r == RunOf(c)
<1>3. ASSUME r \notin doubtful'
      PROVE  /\ executed[r] \in {0, 1} /\ (Flagged(r) => executed[r] = 1)
             /\ executed[r] = 1 => Flagged(r)
  <2>1. r \in Run \ doubtful /\ calls[c].pc # "mark"
    BY <1>2, <1>3
  <2>2. ~ \E d \in Caller : CallAt(d, "mark") /\ RunOf(d) = r
    BY <1>2, <2>1 DEF AllocInv, OnceInv, CallAt
  <2> QED
    BY <2>1, <2>2 DEF AllocInv, OnceInv
<1> HIDE DEF r
<1>4. ASSUME NEW x, x = r PROVE Flagged(x)' = Flagged(x)
  BY DEF Flagged
<1>5. "idle" \notin Planning
  BY DEF Planning
<1>6. OnceInv'
  BY <1>1, <1>2, <1>3, <1>4, <1>5, OnceKept DEF r
<1> QED
  BY <1>1, <1>6 DEF AllocInv

\* Before the executor is called the run has not been carried out.
LEMMA NotYetCarriedOut ==
    ASSUME AllocInv, NEW c \in Caller, RunOf(c) \in Run \ doubtful,
           \/ calls[c].pc \in Planning
           \/ CallAt(c, "look") /\ ~Flagged(RunOf(c))
    PROVE  executed[RunOf(c)] = 0 /\ ~Flagged(RunOf(c))
<1>1. CASE calls[c].pc \in Planning
  BY <1>1 DEF AllocInv, OnceInv
<1>2. CASE CallAt(c, "look") /\ ~Flagged(RunOf(c))
  <2>1. ~CallAt(c, "idle") /\ ~CallAt(c, "mark")
    BY <1>2 DEF CallAt
  <2>2. ASSUME NEW d \in Caller, CallAt(d, "mark"), RunOf(d) = RunOf(c) PROVE FALSE
    <3>1. ~CallAt(d, "idle") /\ d # c
      BY <2>1, <2>2 DEF CallAt
    <3> QED
      BY <2>1, <2>2, <3>1 DEF AllocInv, OnceInv
  <2> QED
    BY <1>2, <2>2 DEF AllocInv, OnceInv
<1> QED
  BY <1>1, <1>2

\* Such a request goes on to another step before the executor, or leaves.
LEMMA PlanningOnce ==
    ASSUME AllocInv, NEW c \in Caller, OnlyMoves(c), calls[c].pc # "idle",
           \/ calls[c].pc \in Planning
           \/ CallAt(c, "look") /\ ~Flagged(RunOf(c)),
           \/ calls'[c].pc = "idle"
           \/ calls'[c].pc \in Planning /\ calls'[c].want = calls[c].want,
           UNCHANGED <<executed, doubtful>>,
           \A x \in Run : runTable'[x] = runTable[x] \/ (x = RunOf(c) /\ ~Flagged(x)')
    PROVE  OnceInv'
<1>1. RunOf(c) \in Run /\ ~CallAt(c, "idle")
  BY UnderWay
<1> DEFINE r == RunOf(c)
<1>2. ASSUME r \notin doubtful PROVE executed[r] = 0 /\ ~Flagged(r)
  BY <1>1, <1>2, NotYetCarriedOut
<1> HIDE DEF r
<1>3. ASSUME NEW x \in Run, x = r, r \notin doubtful PROVE ~Flagged(x)'
  BY <1>2, <1>3 DEF Flagged, r
<1>4. calls'[c].pc # "mark"
  BY DEF Planning
<1> QED
  BY <1>1, <1>2, <1>3, <1>4, OnceKept DEF r

\* A new request.
LEMMA PostAllocationsInv == ASSUME AllocInv, NEW c \in Caller, PostAllocations(c) PROVE AllocInv'
<1>0. /\ CallAt(c, "idle") /\ calls \in [Caller -> CallState]
      /\ UNCHANGED <<runTable, held, worldLock, executed>>
  BY DEF PostAllocations, AllocInv, CallsInv
<1>1. PICK p \in Payloads :
        /\ calls' = [calls EXCEPT ![c] = [NoCall EXCEPT !.pc = "look", !.want = p]]
        /\ doubtful' = doubtful \cup
              (IF \E d \in Caller : ~CallAt(d, "idle") /\ RunOf(d) = p.run THEN {p.run} ELSE {})
  BY DEF PostAllocations
<1> DEFINE u == [NoCall EXCEPT !.pc = "look", !.want = p]
<1>2. u \in CallState /\ u.pc = "look" /\ u.want = p /\ u.before = None
  BY DEF NoCall, CallState
<1> HIDE DEF u
<1>3. calls'[c] = u /\ OnlyMoves(c)
  BY <1>0, <1>1, <1>2 DEF OnlyMoves, u
<1>4. p.run \in Run /\ RunOf(c)' = p.run
  BY <1>2, <1>3, PayloadNames DEF RunOf, Want
<1>5. TablesGrow(c)
  <2>1. doubtful' \subseteq Run
    BY <1>1, <1>4 DEF AllocInv, TablesInv
  <2> QED
    BY <1>0, <2>1, TablesSame
<1>6. CallInv(c)'
  BY <1>2, <1>3 DEF CallInv, CallAt, Want, Holding
<1>7. \A w \in World : LockInv(w, c)'
  BY <1>0 DEF AllocInv, LocksInv, LockInv, CallAt
<1>8. TablesInv' /\ CallsInv' /\ LocksInv' /\ PlanIsCurrent'
  BY <1>0, <1>2, <1>3, <1>5, <1>6, <1>7, GoesOnInv
<1>9. OnceInv'
  <2>0. /\ \A d \in Caller \ {c} : RunOf(d)' = RunOf(d) /\ \A pc : CallAt(d, pc)' = CallAt(d, pc)
        /\ \A d \in Caller \ {c} : calls'[d] = calls[d]
        /\ \A x : Flagged(x)' = Flagged(x)
    BY <1>0, <1>3 DEF OnlyMoves, RunOf, Want, CallAt, Flagged
  <2>1. ASSUME NEW d \in Caller \ {c}, ~CallAt(d, "idle")', RunOf(d)' = RunOf(c)'
        PROVE  RunOf(c)' \in doubtful'
    BY <1>1, <1>4, <2>0, <2>1
  <2>2. ASSUME NEW b \in Caller, NEW d \in Caller, b # d, ~CallAt(b, "idle")', ~CallAt(d, "idle")',
               RunOf(b)' = RunOf(d)'
        PROVE  RunOf(b)' \in doubtful'
    <3>1. CASE b = c \/ d = c
      BY <2>1, <2>2, <3>1
    <3>2. CASE b # c /\ d # c
      BY <1>1, <2>0, <2>2, <3>2 DEF AllocInv, OnceInv
    <3> QED
      BY <3>1, <3>2
  <2>3. ASSUME NEW x \in Run \ doubtful'
        PROVE  /\ executed'[x] \in {0, 1}
               /\ Flagged(x)' => executed'[x] = 1
               /\ executed'[x] = 1 =>
                    Flagged(x)' \/ \E d \in Caller : CallAt(d, "mark")' /\ RunOf(d)' = x
               /\ \A d \in Caller : RunOf(d)' = x =>
                    /\ calls'[d].pc \in Planning => executed'[x] = 0
                    /\ CallAt(d, "mark")' => executed'[x] = 1
    <3>0. x \in Run \ doubtful
      BY <1>1
    <3>1. ~CallAt(c, "mark") /\ ~CallAt(c, "mark")' /\ calls'[c].pc \notin Planning
      BY <1>0, <1>2, <1>3 DEF CallAt, Planning
    <3>2. \A d \in Caller : CallAt(d, "mark") /\ RunOf(d) = x => CallAt(d, "mark")' /\ RunOf(d)' = x
      BY <2>0, <3>1
    <3>3. ASSUME NEW d \in Caller, RunOf(d)' = x
          PROVE  /\ calls'[d].pc \in Planning => executed'[x] = 0
                 /\ CallAt(d, "mark")' => executed'[x] = 1
      BY <1>0, <2>0, <3>0, <3>1, <3>3 DEF AllocInv, OnceInv, CallAt
    <3> QED
      BY <1>0, <2>0, <3>0, <3>2, <3>3 DEF AllocInv, OnceInv
  <2> QED
    BY <2>2, <2>3 DEF OnceInv
<1> QED
  BY <1>8, <1>9 DEF AllocInv

\* get_allocation_run.
LEMMA FindRunInv == ASSUME AllocInv, NEW c \in Caller, FindRun(c) PROVE AllocInv'
<1> DEFINE row == runTable[RunOf(c)]
           pending == row # None /\ row.etag = Want(c).etag /\ Want(c).execute /\ ~row.executed
<1>0. calls[c].pc = "look" /\ CallAt(c, "look") /\ UNCHANGED <<runTable, held, executed>>
  BY DEF FindRun, CallAt
<1>1. /\ calls \in [Caller -> CallState] /\ calls[c] \in CallState /\ CallInv(c)
      /\ Want(c) \in Payloads /\ RunOf(c) \in Run /\ Want(c).worlds \subseteq World
      /\ Want(c).worlds # {} /\ ~CallAt(c, "idle") /\ doubtful \subseteq Run
      /\ calls[c].before = None
  BY <1>0, UnderWay DEF AllocInv, TablesInv, CallInv
<1>2. CASE doubtful' = doubtful /\ Leaves(c)
  <2>1. TablesGrow(c)
    BY <1>0, <1>1, <1>2, TablesSame
  <2> QED
    BY <1>0, <1>2, <2>1, LeavesQuietly
<1>3. CASE row = None /\ Smooth /\ UNCHANGED worldLock
           /\ calls' = [calls EXCEPT ![c].pc = "lock", ![c].todo = Want(c).worlds]
  <2> DEFINE u == [calls[c] EXCEPT !.pc = "lock", !.todo = Want(c).worlds]
  <2>1. u \in CallState /\ u.pc = "lock" /\ u.want = Want(c) /\ u.todo = Want(c).worlds /\ u.before = None
    BY <1>1 DEF CallState, Want
  <2>2. calls' = [calls EXCEPT ![c] = u]
    BY <1>1, <1>3
  <2> HIDE DEF u
  <2>3. calls'[c] = u /\ OnlyMoves(c) /\ Want(c)' = Want(c)
    BY <1>1, <2>1, <2>2 DEF OnlyMoves, Want
  <2>4. TablesGrow(c)
    BY <1>0, <1>1, <1>3, TablesSame DEF Smooth
  <2>5. CallInv(c)'
    BY <1>1, <2>1, <2>3 DEF CallInv, CallAt, Holding
  <2>6. \A w \in World : LockInv(w, c)'
    BY <1>0, <1>3 DEF AllocInv, LocksInv, LockInv
  <2>7. TablesInv' /\ CallsInv' /\ LocksInv' /\ PlanIsCurrent'
    BY <1>3, <2>1, <2>3, <2>4, <2>5, <2>6, GoesOnInv
  <2>8. ~Flagged(RunOf(c)) /\ calls'[c].pc \in Planning /\ calls'[c].want = calls[c].want
    BY <1>3, <2>1, <2>3 DEF Flagged, Planning, Want
  <2>9. OnceInv'
    BY <1>0, <1>3, <2>3, <2>8, PlanningOnce DEF Smooth
  <2> QED
    BY <2>7, <2>9 DEF AllocInv
<1>4. CASE pending /\ Proceeds(c, "execute") /\ Smooth
  <2>1. /\ OnlyMoves(c) /\ worldLock' = worldLock
        /\ calls'[c].pc = "execute" /\ calls'[c].want = calls[c].want
        /\ calls'[c].todo = calls[c].todo /\ calls'[c].before = None
    BY <1>1, <1>4, ProceedsTo
  <2>2. Want(c)' = Want(c) /\ RunOf(c)' = RunOf(c)
    BY <2>1 DEF Want, RunOf
  <2>3. TablesGrow(c)
    BY <1>0, <1>1, <1>4, TablesSame DEF Smooth
  <2>4. CallInv(c)'
    BY <1>0, <1>1, <1>4, <2>1, <2>2 DEF CallInv, CallAt, Holding
  <2>5. \A w \in World : LockInv(w, c)'
    BY <1>0, <2>1 DEF AllocInv, LocksInv, LockInv
  <2>6. TablesInv' /\ CallsInv' /\ LocksInv' /\ PlanIsCurrent'
    BY <2>1, <2>3, <2>4, <2>5, GoesOnInv
  <2>7. ~Flagged(RunOf(c)) /\ calls'[c].pc \in Planning
    BY <1>4, <2>1 DEF Flagged, Planning
  <2>8. OnceInv'
    BY <1>0, <1>4, <2>1, <2>7, PlanningOnce DEF Smooth
  <2> QED
    BY <2>6, <2>8 DEF AllocInv
<1>5. \/ row = None /\ Smooth /\ UNCHANGED worldLock
           /\ calls' = [calls EXCEPT ![c].pc = "lock", ![c].todo = Want(c).worlds]
      \/ pending /\ Proceeds(c, "execute") /\ Smooth
      \/ Leaves(c) /\ (Smooth \/ Mishap({}))
  BY DEF FindRun
<1>6. Smooth \/ Mishap({}) => doubtful' = doubtful
  BY DEF Smooth, Mishap
<1> QED
  BY <1>2, <1>3, <1>4, <1>5, <1>6

\* _lock_worlds takes one more lock.
LEMMA LockWorldInv == ASSUME AllocInv, NEW c \in Caller, LockWorld(c) PROVE AllocInv'
<1> DEFINE todo == calls[c].todo
           w == Min(todo)
           u == [calls[c] EXCEPT !.todo = todo \ {w},
                                 !.pc = IF todo = {w} THEN "context" ELSE "lock"]
<1>0. /\ calls[c].pc = "lock" /\ worldLock[w] = None
      /\ worldLock' = [worldLock EXCEPT ![w] = c]
      /\ UNCHANGED <<runTable, held, executed, doubtful>>
  BY DEF LockWorld, CallAt, Smooth
<1>1. /\ calls \in [Caller -> CallState] /\ calls[c] \in CallState /\ CallInv(c)
      /\ Want(c).worlds \subseteq World /\ doubtful \subseteq Run
      /\ worldLock \in [World -> Caller \cup {None}] /\ Want(c) \in Payloads
  BY <1>0, UnderWay DEF AllocInv, TablesInv, LocksInv
<1>2. todo # {} /\ todo \subseteq Want(c).worlds /\ todo \subseteq Nat /\ calls[c].before = None
  BY <1>0, <1>1, AllocationBounds DEF CallInv, CallAt
<1>3. w \in todo /\ \A y \in todo : w <= y
  BY <1>2, MinIsLeast
<1>4. calls' = [calls EXCEPT ![c] = u]
  BY <1>1 DEF LockWorld
<1> HIDE DEF w
<1>5. /\ u \in CallState /\ u.want = calls[c].want /\ u.todo = todo \ {w} /\ u.before = None
      /\ u.pc = IF todo = {w} THEN "context" ELSE "lock"
  BY <1>1, <1>2 DEF CallState
<1> HIDE DEF u
<1>6. calls'[c] = u /\ OnlyMoves(c) /\ Want(c)' = Want(c)
  BY <1>1, <1>4, <1>5 DEF OnlyMoves, Want
<1>7. TablesGrow(c)
  BY <1>0, <1>1, TablesSame
<1>8. /\ worldLock' \in [World -> Caller \cup {None}]
      /\ \A v \in World : worldLock'[v] = IF v = w THEN c ELSE worldLock[v]
  BY <1>0, <1>1, <1>2, <1>3
<1>9. CallInv(c)'
  <2>1. \A v \in Want(c).worlds \ u.todo : worldLock'[v] = c
    BY <1>0, <1>1, <1>2, <1>5, <1>8 DEF CallInv, CallAt
  <2>2. u.pc = "context" => u.todo = {}
    BY <1>5
  <2>3. u.pc = "lock" => u.todo # {}
    BY <1>3, <1>5
  <2> QED
    BY <1>1, <1>2, <1>5, <1>6, <2>1, <2>2, <2>3 DEF CallInv, CallAt, Holding
<1>10. ASSUME NEW v \in World, worldLock'[v] = c
       PROVE  v \notin u.todo /\ \A x \in u.todo : v < x
  <2>1. CASE v = w
    BY <1>2, <1>3, <1>5, <2>1
  <2>2. CASE v # w
    <3>1. worldLock[v] = c
      BY <1>8, <1>10, <2>2
    <3>2. v \notin todo /\ \A x \in todo : v < x
      BY <1>0, <3>1 DEF AllocInv, LocksInv, LockInv, CallAt
    <3> QED
      BY <1>5, <3>2
  <2> QED
    BY <2>1, <2>2
<1>11. \A v \in World : LockInv(v, c)'
  BY <1>5, <1>6, <1>10 DEF LockInv, CallAt
<1>12. ASSUME NEW d \in Caller
       PROVE  /\ CallInv(d)' /\ \A v \in World : LockInv(v, d)'
              /\ calls'[d].before # None =>
                   \A v \in Want(d)'.worlds :
                     held'[v] = IF v \in calls'[d].todo THEN calls'[d].before[v] ELSE Own(d)'
  <2>1. CASE d = c
    BY <1>5, <1>6, <1>9, <1>11, <2>1
  <2>2. CASE d # c
    BY <1>0, <1>6, <1>7, <1>8, <2>2, OthersKept
  <2> QED
    BY <2>1, <2>2
<1>13. TablesInv' /\ CallsInv' /\ LocksInv' /\ PlanIsCurrent'
  BY <1>6, <1>7, <1>8, <1>12 DEF TablesGrow, CallsInv, LocksInv, PlanIsCurrent, OnlyMoves
<1>14. OnceInv'
  BY <1>0, <1>5, <1>6, PlanningOnce DEF Planning
<1> QED
  BY <1>13, <1>14 DEF AllocInv

\* A request that holds its locks, and may hold on to them, has an empty LockInv.
LEMMA PastLocking ==
    ASSUME AllocInv, NEW c \in Caller, UNCHANGED worldLock, calls[c].pc \notin {"idle", "look"},
           calls'[c].pc \notin {"idle", "look", "lock"}
    PROVE  \A w \in World : LockInv(w, c)'
BY DEF LockInv, CallAt

\* The shares are read.
LEMMA ReadContextInv == ASSUME AllocInv, NEW c \in Caller, ReadContext(c) PROVE AllocInv'
<1>0. /\ calls[c].pc = "context" /\ UNCHANGED <<runTable, held, executed, doubtful>>
  BY DEF ReadContext, CallAt, Smooth, Mishap
<1>1. /\ calls \in [Caller -> CallState] /\ calls[c] \in CallState /\ CallInv(c)
      /\ Want(c).worlds \subseteq World /\ doubtful \subseteq Run /\ held \in [World -> Share]
  BY <1>0, UnderWay DEF AllocInv, TablesInv
<1>2. TablesGrow(c)
  BY <1>0, <1>1, TablesSame
<1>3. CASE Leaves(c)
  BY <1>0, <1>2, <1>3, LeavesQuietly
<1>4. CASE /\ calls' = [calls EXCEPT ![c].pc = "record", ![c].todo = Want(c).worlds,
                                    ![c].before = [w \in Want(c).worlds |-> held[w]]]
           /\ UNCHANGED worldLock
  <2> DEFINE read == [w \in Want(c).worlds |-> held[w]]
             u == [calls[c] EXCEPT !.pc = "record", !.todo = Want(c).worlds, !.before = read]
  <2>1. read \in [Want(c).worlds -> Share] /\ \A w \in Want(c).worlds : read[w] = held[w]
    BY <1>1
  <2>2. calls' = [calls EXCEPT ![c] = u]
    BY <1>1, <1>4
  <2> HIDE DEF read
  <2>3. read \in Seen
    BY <1>1, <2>1 DEF Seen
  <2>4. /\ u \in CallState /\ u.pc = "record" /\ u.want = calls[c].want
        /\ u.todo = Want(c).worlds /\ u.before = read
    BY <1>1, <2>3 DEF CallState
  <2> HIDE DEF u
  <2>5. calls'[c] = u /\ OnlyMoves(c) /\ Want(c)' = Want(c)
    BY <1>1, <2>2, <2>4 DEF OnlyMoves, Want
  <2>6. CallInv(c)'
    BY <1>0, <1>1, <1>4, <2>4, <2>5 DEF CallInv, CallAt, Holding
  <2>7. \A w \in World : LockInv(w, c)'
    BY <1>0, <1>4, <2>4, <2>5, PastLocking
  <2>8. \A w \in Want(c)'.worlds :
          held'[w] = IF w \in calls'[c].todo THEN calls'[c].before[w] ELSE Own(c)'
    BY <1>0, <2>1, <2>4, <2>5
  <2>9. TablesInv' /\ CallsInv' /\ LocksInv' /\ PlanIsCurrent'
    BY <1>2, <1>4, <2>5, <2>6, <2>7, <2>8, GoesOnInv
  <2>10. OnceInv'
    BY <1>0, <2>4, <2>5, PlanningOnce DEF Planning
  <2> QED
    BY <2>9, <2>10 DEF AllocInv
<1> QED
  BY <1>3, <1>4 DEF ReadContext

\* A step that leaves the request's plan and its locks as they are.
LEMMA PlanCarriedOn ==
    ASSUME AllocInv, NEW c \in Caller, OnlyMoves(c), TablesGrow(c), UNCHANGED <<worldLock, held>>,
           calls[c].pc \in {"record", "announce", "execute"},
           calls'[c].pc \in {"store", "execute", "mark"}, calls'[c].want = calls[c].want,
           calls[c].pc = "record" <=> calls'[c].pc = "store",
           calls'[c].todo = calls[c].todo, calls'[c].before = calls[c].before,
           runTable'[RunOf(c)] # None
    PROVE  TablesInv' /\ CallsInv' /\ LocksInv' /\ PlanIsCurrent'
<1>1. CallInv(c) /\ Want(c)' = Want(c) /\ RunOf(c)' = RunOf(c) /\ Own(c)' = Own(c)
  BY DEF AllocInv, CallsInv, Want, RunOf, Own
<1>2. CallInv(c)'
  BY <1>1 DEF CallInv, CallAt, Holding
<1>3. \A w \in World : LockInv(w, c)'
  BY PastLocking
<1>4. calls'[c].before # None =>
        \A w \in Want(c)'.worlds :
            held'[w] = IF w \in calls'[c].todo THEN calls'[c].before[w] ELSE Own(c)'
  BY <1>1 DEF AllocInv, PlanIsCurrent
<1> QED
  BY <1>2, <1>3, <1>4, GoesOnInv

\* record_allocation_run.
LEMMA RecordRunInv == ASSUME AllocInv, NEW c \in Caller, RecordRun(c) PROVE AllocInv'
<1> DEFINE r == RunOf(c)
           new == [etag |-> Want(c).etag, executed |-> FALSE]
<1>0. /\ calls[c].pc = "record" /\ UNCHANGED <<held, executed, doubtful>>
      /\ runTable' \in {runTable, Recorded(c)}
  BY DEF RecordRun, CallAt, Smooth, Mishap
<1>1. /\ r \in Run /\ Want(c).etag \in {q.etag : q \in Payloads}
      /\ runTable \in [Run -> RunRow \cup {None}] /\ held \in [World -> Share]
      /\ doubtful \subseteq Run /\ executed \in [Run -> Nat]
  BY <1>0, UnderWay DEF AllocInv, TablesInv
<1>2. new \in RunRow /\ ~new.executed /\ new # None
  <2>1. new \in RunRow
    BY <1>1 DEF RunRow
  <2>2. None \notin RunRow
    BY AllocationBounds
  <2> QED
    BY <2>1, <2>2
<1>3. Recorded(c) = [runTable EXCEPT ![r] = new]
  BY DEF Recorded
<1> HIDE DEF new, r
<1>4. TablesGrow(c)
  BY <1>0, <1>1, <1>2, <1>3 DEF TablesGrow, TablesInv
<1>5. ASSUME NEW x \in Run PROVE runTable'[x] = runTable[x] \/ (x = r /\ ~Flagged(x)')
  BY <1>0, <1>1, <1>2, <1>3, <1>5 DEF Flagged
<1>6. CASE Leaves(c)
  <2>1. /\ TablesInv' /\ CallsInv' /\ LocksInv' /\ PlanIsCurrent'
        /\ OnlyMoves(c) /\ calls'[c].pc = "idle"
    BY <1>4, <1>6, LeavesInv
  <2>2. OnceInv'
    BY <1>0, <1>5, <2>1, PlanningOnce DEF Planning, r
  <2> QED
    BY <2>1, <2>2 DEF AllocInv
<1>7. CASE runTable' = Recorded(c) /\ Proceeds(c, "store")
  <2>1. /\ OnlyMoves(c) /\ worldLock' = worldLock
        /\ calls'[c].pc = "store" /\ calls'[c].want = calls[c].want
        /\ calls'[c].todo = calls[c].todo /\ calls'[c].before = calls[c].before
    BY <1>7, ProceedsTo
  <2>2. runTable'[r] # None
    BY <1>1, <1>2, <1>3, <1>7
  <2>3. TablesInv' /\ CallsInv' /\ LocksInv' /\ PlanIsCurrent'
    BY <1>0, <1>4, <2>1, <2>2, PlanCarriedOn DEF r
  <2>4. OnceInv'
    BY <1>0, <1>5, <2>1, PlanningOnce DEF Planning, r
  <2> QED
    BY <2>3, <2>4 DEF AllocInv
<1> QED
  BY <1>6, <1>7 DEF RecordRun

\* set_world_allocations stores the share of one world.
LEMMA StoreWorldInv == ASSUME AllocInv, NEW c \in Caller, StoreWorld(c) PROVE AllocInv'
<1> DEFINE todo == calls[c].todo
<1>0. /\ calls[c].pc = "store" /\ UNCHANGED <<runTable, executed, doubtful>>
  BY DEF StoreWorld, CallAt, Smooth, Mishap
<1>1. /\ calls \in [Caller -> CallState] /\ calls[c] \in CallState /\ CallInv(c)
      /\ Want(c).worlds \subseteq World /\ Own(c) \in Share
      /\ held \in [World -> Share] /\ doubtful \subseteq Run /\ executed \in [Run -> Nat]
      /\ runTable \in [Run -> RunRow \cup {None}]
  BY <1>0, UnderWay DEF AllocInv, TablesInv
<1>2. PICK w \in todo :
        \/ /\ held' = [held EXCEPT ![w] = Own(c)] /\ UNCHANGED worldLock
           /\ calls' = [calls EXCEPT ![c].todo = todo \ {w},
                                     ![c].pc = IF todo = {w} THEN "announce" ELSE "store"]
        \/ held' \in {held, [held EXCEPT ![w] = Own(c)]} /\ Leaves(c)
  BY <1>1 DEF StoreWorld
<1>3. w \in Want(c).worlds /\ w \in World /\ worldLock[w] = c /\ todo \subseteq Want(c).worlds
  BY <1>0, <1>1 DEF CallInv, Holding
<1>4. TablesGrow(c)
  <2>1. held' \in [World -> Share] /\ \A v \in World : held'[v] = held[v] \/ v = w
    BY <1>1, <1>2, <1>3
  <2> QED
    BY <1>0, <1>1, <1>3, <2>1 DEF TablesGrow, TablesInv
<1>5. CASE Leaves(c)
  BY <1>0, <1>4, <1>5, LeavesQuietly
<1>6. CASE /\ held' = [held EXCEPT ![w] = Own(c)] /\ UNCHANGED worldLock
           /\ calls' = [calls EXCEPT ![c].todo = todo \ {w},
                                     ![c].pc = IF todo = {w} THEN "announce" ELSE "store"]
  <2> DEFINE u == [calls[c] EXCEPT !.todo = todo \ {w},
                                   !.pc = IF todo = {w} THEN "announce" ELSE "store"]
  <2>1. calls' = [calls EXCEPT ![c] = u]
    BY <1>1, <1>6
  <2>2. /\ u \in CallState /\ u.want = calls[c].want /\ u.todo = todo \ {w}
        /\ u.before = calls[c].before /\ u.pc \in {"announce", "store"}
    BY <1>1 DEF CallState
  <2> HIDE DEF u
  <2>3. /\ calls'[c] = u /\ OnlyMoves(c)
    BY <1>1, <2>1, <2>2 DEF OnlyMoves
  <2>4. Want(c)' = Want(c) /\ RunOf(c)' = RunOf(c) /\ Own(c)' = Own(c)
    BY <2>2, <2>3 DEF Want, RunOf, Own
  <2>5. CallInv(c)'
    BY <1>0, <1>1, <1>3, <1>6, <2>2, <2>3, <2>4 DEF CallInv, CallAt, Holding
  <2>6. \A v \in World : LockInv(v, c)'
    BY <1>0, <1>6, <2>2, <2>3, PastLocking
  <2>7. ASSUME calls'[c].before # None, NEW v \in Want(c)'.worlds
        PROVE  held'[v] = IF v \in calls'[c].todo THEN calls'[c].before[v] ELSE Own(c)'
    <3>1. held[v] = IF v \in todo THEN calls[c].before[v] ELSE Own(c)
      BY <2>2, <2>3, <2>4, <2>7 DEF AllocInv, PlanIsCurrent
    <3>2. held'[v] = IF v = w THEN Own(c) ELSE held[v]
      BY <1>1, <1>3, <1>6, <2>4
    <3> QED
      BY <2>2, <2>3, <2>4, <3>1, <3>2
  <2>8. TablesInv' /\ CallsInv' /\ LocksInv' /\ PlanIsCurrent'
    BY <1>4, <1>6, <2>3, <2>5, <2>6, <2>7, GoesOnInv
  <2>9. OnceInv'
    BY <1>0, <2>2, <2>3, PlanningOnce DEF Planning
  <2> QED
    BY <2>8, <2>9 DEF AllocInv
<1> QED
  BY <1>2, <1>5, <1>6

\* record_rebalance_plan and the publication of the plan.
LEMMA AnnouncePlanInv == ASSUME AllocInv, NEW c \in Caller, AnnouncePlan(c) PROVE AllocInv'
<1>0. /\ calls[c].pc = "announce" /\ UNCHANGED <<runTable, held, executed, doubtful>>
      /\ Leaves(c) \/ Proceeds(c, "execute")
  BY DEF AnnouncePlan, CallAt, Smooth, Mishap
<1>1. TablesGrow(c) /\ runTable'[RunOf(c)] # None
  BY <1>0, UnderWay, TablesSame DEF AllocInv, TablesInv, CallInv
<1>2. CASE Leaves(c)
  BY <1>0, <1>1, <1>2, LeavesQuietly
<1>3. CASE Proceeds(c, "execute")
  <2>1. /\ OnlyMoves(c) /\ worldLock' = worldLock
        /\ calls'[c].pc = "execute" /\ calls'[c].want = calls[c].want
        /\ calls'[c].todo = calls[c].todo /\ calls'[c].before = calls[c].before
    BY <1>3, ProceedsTo
  <2>2. TablesInv' /\ CallsInv' /\ LocksInv' /\ PlanIsCurrent'
    BY <1>0, <1>1, <2>1, PlanCarriedOn
  <2>3. OnceInv'
    BY <1>0, <2>1, PlanningOnce DEF Planning
  <2> QED
    BY <2>2, <2>3 DEF AllocInv
<1> QED
  BY <1>0, <1>2, <1>3

\* _execute_rebalance: once, unless the answer was lost.
LEMMA ExecuteInv == ASSUME AllocInv, NEW c \in Caller, Execute(c) PROVE AllocInv'
<1> DEFINE r == RunOf(c)
           once == [executed EXCEPT ![r] = @ + 1]
<1>0. /\ calls[c].pc = "execute" /\ UNCHANGED <<runTable, held>>
      /\ \/ executed' = once /\ Proceeds(c, "mark") /\ doubtful' = doubtful
         \/ executed' = executed /\ Leaves(c) /\ doubtful' = doubtful
         \/ executed' = once /\ Leaves(c) /\ doubtful' = doubtful \cup {r}
  BY DEF Execute, CallAt, Smooth, Mishap
<1>1. /\ r \in Run /\ ~CallAt(c, "idle") /\ runTable[r] # None
      /\ runTable \in [Run -> RunRow \cup {None}] /\ held \in [World -> Share]
      /\ doubtful \subseteq Run /\ executed \in [Run -> Nat]
  BY <1>0, UnderWay DEF AllocInv, TablesInv, CallInv
<1> HIDE DEF r
<1>2. /\ once \in [Run -> Nat] /\ once[r] = executed[r] + 1
      /\ \A x \in Run \ {r} : once[x] = executed[x]
  BY <1>1
<1> HIDE DEF once
<1>3. TablesGrow(c) /\ doubtful \subseteq doubtful'
  BY <1>0, <1>1, <1>2 DEF TablesGrow, TablesInv
<1>4. CASE executed' = once /\ Proceeds(c, "mark") /\ doubtful' = doubtful
  <2>1. /\ OnlyMoves(c) /\ worldLock' = worldLock
        /\ calls'[c].pc = "mark" /\ calls'[c].want = calls[c].want
        /\ calls'[c].todo = calls[c].todo /\ calls'[c].before = calls[c].before
    BY <1>4, ProceedsTo
  <2>2. TablesInv' /\ CallsInv' /\ LocksInv' /\ PlanIsCurrent'
    BY <1>0, <1>1, <1>3, <2>1, PlanCarriedOn DEF r
  <2>3. ASSUME r \notin doubtful PROVE executed'[r] = 1
    BY <1>0, <1>1, <1>2, <1>4, <2>3, NotYetCarriedOut DEF r, Planning
  <2>4. "mark" \notin Planning
    BY DEF Planning
  <2>5. OnceInv'
    BY <1>0, <1>1, <1>2, <1>4, <2>1, <2>3, <2>4, OnceKept DEF r
  <2> QED
    BY <2>2, <2>5 DEF AllocInv
<1>5. CASE executed' = executed /\ Leaves(c) /\ doubtful' = doubtful
  BY <1>0, <1>3, <1>5, LeavesQuietly
<1>6. CASE executed' = once /\ Leaves(c) /\ doubtful' = doubtful \cup {r}
  <2>1. /\ TablesInv' /\ CallsInv' /\ LocksInv' /\ PlanIsCurrent'
        /\ OnlyMoves(c) /\ calls'[c].pc = "idle"
    BY <1>3, <1>6, LeavesInv
  <2>2. OnceInv'
    BY <1>0, <1>1, <1>2, <1>3, <1>6, <2>1, OnceKept DEF r
  <2> QED
    BY <2>1, <2>2 DEF AllocInv
<1> QED
  BY <1>0, <1>4, <1>5, <1>6

\* mark_allocation_run_executed.
LEMMA MarkExecutedInv == ASSUME AllocInv, NEW c \in Caller, MarkExecuted(c) PROVE AllocInv'
<1> DEFINE r == RunOf(c)
           row == [runTable[r] EXCEPT !.executed = TRUE]
<1>0. /\ calls[c].pc = "mark" /\ Leaves(c) /\ UNCHANGED <<held, executed>>
      /\ \/ runTable' = [runTable EXCEPT ![r].executed = TRUE] /\ doubtful' = doubtful
         \/ runTable' = runTable /\ doubtful' = doubtful \cup {r}
  BY DEF MarkExecuted, CallAt, Smooth, Mishap
<1>1. /\ r \in Run /\ ~CallAt(c, "idle") /\ runTable[r] # None
      /\ runTable \in [Run -> RunRow \cup {None}] /\ held \in [World -> Share]
      /\ doubtful \subseteq Run /\ executed \in [Run -> Nat]
  BY <1>0, UnderWay DEF AllocInv, TablesInv, CallInv
<1>2. row \in RunRow /\ row.executed
  <2>1. runTable[r] \in RunRow
    BY <1>1
  <2> QED
    BY <2>1 DEF RunRow
<1>3. row # None
  BY <1>2, AllocationBounds
<1>4. CASE runTable' = [runTable EXCEPT ![r].executed = TRUE] /\ doubtful' = doubtful
  <2>1. runTable' = [runTable EXCEPT ![r] = row]
    BY <1>1, <1>4
  <2> HIDE DEF r, row
  <2>2. TablesGrow(c)
    BY <1>0, <1>1, <1>2, <1>3, <1>4, <2>1 DEF TablesGrow, TablesInv
  <2>3. /\ TablesInv' /\ CallsInv' /\ LocksInv' /\ PlanIsCurrent'
        /\ OnlyMoves(c) /\ calls'[c].pc = "idle"
    BY <1>0, <2>2, LeavesInv
  <2>4. ASSUME NEW x, x = r PROVE Flagged(x)'
    BY <1>1, <1>2, <1>3, <2>1, <2>4 DEF Flagged
  <2>5. ASSUME r \notin doubtful PROVE executed[r] = 1
    BY <1>0, <1>1, <2>5 DEF AllocInv, OnceInv, CallAt, r
  <2>6. "idle" \notin Planning /\ \A x \in Run \ {r} : runTable'[x] = runTable[x]
    BY <1>1, <2>1 DEF Planning
  <2>7. OnceInv'
    BY <1>0, <1>1, <1>4, <2>3, <2>4, <2>5, <2>6, OnceKept DEF r
  <2> QED
    BY <2>3, <2>7 DEF AllocInv
<1>5. CASE runTable' = runTable /\ doubtful' = doubtful \cup {r}
  <2>1. TablesGrow(c)
    BY <1>0, <1>1, <1>5, TablesSame
  <2> QED
    BY <1>0, <1>5, <2>1, LeavesQuietly
<1> QED
  BY <1>0, <1>4, <1>5

\* The process ends; a run behind the executor and before the mark is in doubt.
LEMMA CrashServiceInv == AllocInv /\ CrashService => AllocInv'
<1> SUFFICES ASSUME AllocInv, CrashService PROVE AllocInv'
  OBVIOUS
<1>0. /\ calls' = [c \in Caller |-> NoCall] /\ worldLock' = [w \in World |-> None]
      /\ doubtful' = doubtful \cup {RunOf(c) : c \in {d \in Caller : CallAt(d, "mark")}}
      /\ UNCHANGED <<runTable, held, executed>>
  BY DEF CrashService, Mishap
<1>1. \A c \in Caller : CallAt(c, "mark") => RunOf(c) \in Run
  BY UnderWay DEF CallAt
<1>2. TablesInv'
  BY <1>0, <1>1 DEF AllocInv, TablesInv
<1>3. \A c \in Caller : calls'[c] = NoCall /\ calls'[c].pc = "idle" /\ calls'[c].before = None
  BY <1>0, NoCallType
<1>4. CallsInv'
  <2>1. ASSUME NEW c \in Caller PROVE CallInv(c)'
    BY <1>3 DEF CallInv, CallAt, Holding
  <2> QED
    BY <1>0, <2>1, NoCallType DEF CallsInv
<1>5. LocksInv' /\ PlanIsCurrent'
  BY <1>0, <1>3, AllocationBounds DEF LocksInv, LockInv, PlanIsCurrent
<1>6. ASSUME NEW r \in Run \ doubtful'
      PROVE  /\ executed'[r] \in {0, 1} /\ (Flagged(r)' => executed'[r] = 1)
             /\ executed'[r] = 1 => Flagged(r)'
  <2>1. r \in Run \ doubtful /\ ~ \E c \in Caller : CallAt(c, "mark") /\ RunOf(c) = r
    BY <1>0
  <2>2. Flagged(r)' = Flagged(r)
    BY <1>0 DEF Flagged
  <2> QED
    BY <1>0, <2>1, <2>2 DEF AllocInv, OnceInv
<1>7. \A c \in Caller : CallAt(c, "idle")' /\ ~CallAt(c, "mark")' /\ calls'[c].pc \notin Planning
  BY <1>3 DEF CallAt, Planning
<1>8. OnceInv'
  BY <1>6, <1>7 DEF OnceInv
<1> QED
  BY <1>2, <1>4, <1>5, <1>8 DEF AllocInv

-----------------------------------------------------------------------------
(* The theorems *)

\* The two tables are empty when they are created (_initialize_schema), and nobody waits.
LEMMA AllocInitInv == AllocInit => AllocInv
<1> SUFFICES ASSUME AllocInit PROVE AllocInv
  OBVIOUS
<1>1. \A c \in Caller : calls[c] = NoCall /\ calls[c].pc = "idle" /\ calls[c].before = None
  BY NoCallType DEF AllocInit
<1>2. TablesInv
  BY DEF AllocInit, TablesInv, Share
<1>3. CallsInv
  <2>1. ASSUME NEW c \in Caller PROVE CallInv(c)
    BY <1>1 DEF CallInv, CallAt, Holding
  <2> QED
    BY <2>1, NoCallType DEF CallsInv, AllocInit
<1>4. LocksInv /\ PlanIsCurrent
  BY <1>1, AllocationBounds DEF AllocInit, LocksInv, LockInv, PlanIsCurrent
<1>5. OnceInv
  BY <1>1 DEF AllocInit, OnceInv, CallAt, Planning, Flagged
<1> QED
  BY <1>2, <1>3, <1>4, <1>5 DEF AllocInv

\* Every step keeps the invariant.
LEMMA AllocStepInv == AllocInv /\ [AllocNext]_allocVars => AllocInv'
<1> SUFFICES ASSUME AllocInv, [AllocNext]_allocVars PROVE AllocInv'
  OBVIOUS
<1>1. ASSUME NEW c \in Caller, PostAllocations(c) PROVE AllocInv'
  BY <1>1, PostAllocationsInv
<1>2. ASSUME NEW c \in Caller, CallStep(c) PROVE AllocInv'
  BY <1>2, FindRunInv, LockWorldInv, ReadContextInv, RecordRunInv, StoreWorldInv,
     AnnouncePlanInv, ExecuteInv, MarkExecutedInv DEF CallStep
<1>3. CASE CrashService
  BY <1>3, CrashServiceInv
<1>4. CASE UNCHANGED allocVars
  BY <1>4 DEF AllocInv, TablesInv, CallsInv, CallInv, LocksInv, LockInv, PlanIsCurrent, OnceInv,
     Flagged, Holding, CallAt, Want, RunOf, Own, allocVars
<1> QED
  BY <1>1, <1>2, <1>3, <1>4 DEF AllocNext

\* The invariant holds in every state.
LEMMA AllocInvariant == AllocSpec => []AllocInv
<1>1. AllocInit => AllocInv
  BY AllocInitInv
<1>2. AllocInv /\ [AllocNext]_allocVars => AllocInv'
  BY AllocStepInv
<1> QED
  BY <1>1, <1>2, PTL DEF AllocSpec

\* Along a chain of requests that wait for each other the worlds they wait for ascend, so
\* among those of a set the one that waits for the greatest waits for nobody of the set.
LEMMA NobodyWaitsInCircles == AllocInv => NoCircularWait
<1> SUFFICES ASSUME AllocInv, NEW C \in SUBSET Caller, C # {},
                    \A c \in C : Waits(c) /\ Blocker(c) \in C
             PROVE  FALSE
  BY DEF NoCircularWait
<1> DEFINE next(c) == Min(calls[c].todo)
           nexts == {next(c) : c \in C}
<1>1. ASSUME NEW c \in C
      PROVE  next(c) \in calls[c].todo /\ next(c) \in World /\ next(c) \in Nat
  <2>1. calls[c].pc = "lock" /\ calls[c].pc # "idle"
    BY DEF Waits, CallAt
  <2>2. CallInv(c) /\ Want(c).worlds \subseteq World
    BY <2>1, UnderWay
  <2>3. calls[c].todo # {} /\ calls[c].todo \subseteq World /\ World \subseteq Nat
    BY <2>1, <2>2, AllocationBounds DEF CallInv, CallAt
  <2> QED
    BY <2>3, MinIsLeast
<1>2. nexts # {} /\ nexts \subseteq World /\ World \subseteq Nat
  BY <1>1, AllocationBounds
<1>3. IsFiniteSet(nexts)
  BY <1>2, FS_Subset, AllocationBounds
<1>4. PICK x \in nexts : \A y \in nexts : y <= x
  BY <1>2, <1>3, GreatestOfFinite
<1>5. PICK c \in C : next(c) = x
  BY <1>4
<1>6. Blocker(c) \in C /\ worldLock[next(c)] = Blocker(c)
  BY DEF Blocker
<1>7. LockInv(next(c), Blocker(c)) /\ Waits(Blocker(c))
  BY <1>1, <1>6 DEF AllocInv, LocksInv
<1>8. \A v \in calls[Blocker(c)].todo : next(c) < v
  BY <1>6, <1>7 DEF LockInv, Waits
<1>9. next(c) < next(Blocker(c)) /\ next(Blocker(c)) \in nexts
  BY <1>1, <1>6, <1>8
<1>10. next(c) \in Nat /\ next(Blocker(c)) \in Nat
  BY <1>1, <1>6
<1> HIDE DEF nexts, next
<1> QED
  BY <1>4, <1>5, <1>9, <1>10

\* upsert_allocations and _lock_worlds: from the reading of the context to the end of a
\* request nobody else changes the shares of its worlds, and no set of requests waits for
\* each other's locks, whatever fails and whenever the process ends.
THEOREM AllocationsAlwaysInTurn == AllocSpec => []AllocationsInTurn
<1>1. AllocInv => AllocationsInTurn
  BY NobodyWaitsInCircles DEF AllocInv, TablesInv, LocksInv, AllocationsInTurn, AllocTypeOK
<1> QED
  BY <1>1, AllocInvariant, PTL

\* _handle_existing_allocation_run and mark_allocation_run_executed: a run that had one
\* request at a time and of which neither the executor's answer nor the mark was lost is
\* carried out at most once, and exactly once if its row says so.
THEOREM RunsExecutedInTurn == AllocSpec => []ExecutedInTurn
<1>1. AllocInv => ExecutedInTurn
  <2> SUFFICES ASSUME AllocInv, NEW r \in Run \ doubtful
               PROVE  /\ executed[r] <= 1
                      /\ runTable[r] # None /\ runTable[r].executed => executed[r] = 1
    BY DEF ExecutedInTurn
  <2>1. executed[r] \in {0, 1} /\ (Flagged(r) => executed[r] = 1)
    BY DEF AllocInv, OnceInv
  <2> QED
    BY <2>1 DEF Flagged
<1> QED
  BY <1>1, AllocInvariant, PTL

-----------------------------------------------------------------------------
(* The orders of a rebalancing *)

Scopes == {"world", "global", "split"}
Item == Desk \cup {"global"}

AskState ==
    [pc : {"idle", "plan", "modes", "batch", "begin", "send", "commit", "abort",
           "answered", "refused", "unavailable"},
     want : Orders \cup {None}, knew : [Desk -> Modes \cup {None}],
     scope : Scopes \cup {"ingest", None}, todo : SUBSET Item, item : Item \cup {None}]

BatchState ==
    [by : Requester, scope : Scopes \cup {"ingest"}, item : Item \cup {None},
     worlds : SUBSET Desk, knew : [Desk -> Modes \cup {None}]]

\* The request has a batch in hand; it is between the first batch and the last.
InHand(q) == asks[q].pc \in {"begin", "send", "commit", "abort"}
Batching(q) == asks[q].scope \in Scopes /\ (InHand(q) \/ asks[q].pc \in {"batch", "answered"})

\* The batches of this scope come before those at hand.
Past(q, s) ==
    \/ asks[q].scope = "global" /\ s = "world"
    \/ asks[q].scope = "split" /\ s \in {"world", "global"}

\* The request has dealt, or is dealing, with the batch of x.
Reached(q, s, x) == Past(q, s) \/ (s = asks[q].scope /\ x \notin asks[q].todo)

IsLogged(q, s, x) ==
    \E n \in DOMAIN batches :
        batches[n].by = q /\ batches[n].scope = s /\ batches[n].item = x

\* A request with batches knows what it was asked for and where it is.
PlaceInv(q) ==
    /\ asks[q].pc # "idle" => asks[q].want \in Orders
    /\ asks[q].pc = "batch" => asks[q].scope \in Scopes
    /\ asks[q].pc \in {"plan", "modes", "batch"} => ~Asked(q).ingest
    /\ InHand(q) => \/ asks[q].scope = "ingest" /\ Asked(q).ingest
                    \/ asks[q].scope \in Scopes /\ ~Asked(q).ingest
    /\ asks[q].pc = "answered" => \/ asks[q].scope = "ingest" /\ Asked(q).ingest
                                  \/ asks[q].scope = "split" /\ asks[q].todo = {}

\* No world whose turn has come was read to be in shadow mode.
ClearInv(q) ==
    Batching(q) => \A w \in Asked(q).worlds :
        asks[q].scope # "world" \/ w \notin asks[q].todo => asks[q].knew[w] # "shadow"

\* What is in hand is no longer to be done, and what is done is in the log.
LoggedInv(q) ==
    /\ Batching(q) => asks[q].todo \subseteq Published(q, asks[q].scope)
    /\ Batching(q) /\ InHand(q) =>
         asks[q].item \in Published(q, asks[q].scope) \ asks[q].todo
    /\ Batching(q) => \A s \in Scopes : \A x \in Published(q, s) \ Asked(q).empty :
         Reached(q, s, x) => \/ InHand(q) /\ s = asks[q].scope /\ x = asks[q].item
                             \/ IsLogged(q, s, x)

AskInv(q) == PlaceInv(q) /\ ClearInv(q) /\ LoggedInv(q)

AsksInv == asks \in [Requester -> AskState] /\ \A q \in Requester : AskInv(q)

\* A batch was published by a request that has reached it and does not have it in hand.
BatchInv(b) ==
    /\ \A w \in Desk : w \in b.worlds => b.knew[w] # "shadow"
    /\ asks[b.by].pc \notin {"idle", "plan", "modes"}
    /\ b.scope \in Scopes =>
         /\ Reached(b.by, b.scope, b.item)
         /\ asks[b.by].pc \in {"begin", "send", "commit"} /\ asks[b.by].scope = b.scope
              => asks[b.by].item # b.item

SameBatch(m, n) ==
    /\ batches[m].by = batches[n].by /\ batches[m].scope = batches[n].scope
    /\ batches[m].item = batches[n].item

BatchesInv ==
    /\ batches \in Seq(BatchState)
    /\ \A n \in DOMAIN batches : BatchInv(batches[n])
    /\ \A m, n \in DOMAIN batches :
         batches[m].scope \in Scopes /\ SameBatch(m, n) => m = n

TxnInv == txn \in Transaction \cup {None} /\ WriterIsFree

OrderInv == AsksInv /\ BatchesInv /\ TxnInv

-----------------------------------------------------------------------------
(* The invariant under the step of one request *)

\* What the batches of a scope may be.
LEMMA PublishedItems ==
    ASSUME NEW q \in Requester, asks[q].want \in Orders, NEW s \in Scopes
    PROVE  /\ Published(q, s) \subseteq Item
           /\ Published(q, "world") = Asked(q).worlds
           /\ s # "global" => Published(q, s) \subseteq Asked(q).worlds
           /\ Asked(q).worlds \subseteq Desk
<1>1. Asked(q).worlds \subseteq Desk
  BY OrderBounds DEF Asked
<1>2. /\ Published(q, "world") = Asked(q).worlds
      /\ Published(q, "global") \subseteq {"global"}
      /\ Published(q, "split") \subseteq Asked(q).worlds
  BY DEF Published
<1> QED
  BY <1>1, <1>2 DEF Scopes, Item

\* A request goes on: only its own record changes.
OnlyTurns(q) ==
    /\ asks' \in [Requester -> AskState]
    /\ \A p \in Requester \ {q} : asks'[p] = asks[p]

\* A request with the same plan has the same batches.
LEMMA SamePlan ==
    ASSUME NEW q \in Requester, asks'[q].want = asks[q].want
    PROVE  Asked(q)' = Asked(q) /\ \A s \in Scopes : Published(q, s)' = Published(q, s)
BY DEF Asked, Published, Scopes

\* The batches stay where they are; others may follow.
LogGrows ==
    /\ DOMAIN batches \subseteq DOMAIN batches'
    /\ \A n \in DOMAIN batches : batches'[n] = batches[n]

\* A request that waits while another one moves keeps what it has published.
LEMMA OtherAsks ==
    ASSUME OrderInv, NEW q \in Requester, OnlyTurns(q), LogGrows, NEW p \in Requester, p # q
    PROVE  AskInv(p)'
<1>1. asks'[p] = asks[p] /\ AskInv(p)
  BY DEF OnlyTurns, OrderInv, AsksInv
<1>2. Asked(p)' = Asked(p) /\ \A s \in Scopes : Published(p, s)' = Published(p, s)
  BY <1>1, SamePlan
<1>3. \A s, x : IsLogged(p, s, x) => IsLogged(p, s, x)'
  BY DEF IsLogged, LogGrows
<1>4. /\ InHand(p)' = InHand(p) /\ Batching(p)' = Batching(p)
      /\ \A s, x : Reached(p, s, x)' = Reached(p, s, x)
  BY <1>1 DEF InHand, Batching, Reached, Past
<1>5. PlaceInv(p)' /\ ClearInv(p)'
  BY <1>1, <1>2, <1>4 DEF AskInv, PlaceInv, ClearInv
<1>6. LoggedInv(p)'
  <2>1. Batching(p) => asks[p].scope \in Scopes
    BY DEF Batching
  <2> QED
    BY <1>1, <1>2, <1>3, <1>4, <2>1 DEF AskInv, LoggedInv
<1> QED
  BY <1>5, <1>6 DEF AskInv

\* Who published a batch.
LEMMA LoggedBy ==
    ASSUME OrderInv, NEW n \in DOMAIN batches
    PROVE  batches[n] \in BatchState /\ batches[n].by \in Requester
<1>1. batches \in Seq(BatchState)
  BY DEF OrderInv, BatchesInv
<1>2. batches[n] \in BatchState
  BY <1>1
<1> QED
  BY <1>2 DEF BatchState

\* The requests and the log, when q goes on and publishes nothing.
LEMMA TurnsInv ==
    ASSUME OrderInv, NEW q \in Requester, OnlyTurns(q), UNCHANGED batches, AskInv(q)',
           \A n \in DOMAIN batches : batches[n].by = q => BatchInv(batches[n])'
    PROVE  AsksInv' /\ BatchesInv'
<1>1. LogGrows
  BY DEF LogGrows
<1>2. \A p \in Requester : AskInv(p)'
  BY <1>1, OtherAsks
<1>3. ASSUME NEW n \in DOMAIN batches PROVE BatchInv(batches[n])'
  <2>1. CASE batches[n].by = q
    BY <2>1
  <2>2. CASE batches[n].by # q
    <3>1. BatchInv(batches[n]) /\ batches'[n] = batches[n]
      BY DEF OrderInv, BatchesInv
    <3>2. asks'[batches[n].by] = asks[batches[n].by]
      BY <2>2, LoggedBy DEF OnlyTurns
    <3> QED
      BY <3>1, <3>2 DEF BatchInv, Reached, Past
  <2> QED
    BY <2>1, <2>2
<1> QED
  BY <1>2, <1>3 DEF AsksInv, OnlyTurns, OrderInv, BatchesInv, SameBatch
\* What is known of a request that is not idle.
LEMMA Underway ==
    ASSUME OrderInv, NEW q \in Requester, asks[q].pc # "idle"
    PROVE  /\ asks \in [Requester -> AskState] /\ asks[q] \in AskState
           /\ AskInv(q) /\ asks[q].want \in Orders
BY DEF OrderInv, AsksInv, AskInv, PlaceInv

\* The request goes on to another step and nothing else happens to it.
LEMMA TurnsTo ==
    ASSUME OrderInv, NEW q \in Requester, NEW pc, Turns(q, pc),
           pc \in {"batch", "send", "commit", "abort", "answered", "refused", "unavailable"}
    PROVE  /\ OnlyTurns(q) /\ asks'[q].pc = pc
           /\ asks'[q].want = asks[q].want /\ asks'[q].knew = asks[q].knew
           /\ asks'[q].scope = asks[q].scope /\ asks'[q].todo = asks[q].todo
           /\ asks'[q].item = asks[q].item
<1>0. asks \in [Requester -> AskState] /\ asks[q] \in AskState
  BY DEF OrderInv, AsksInv
<1> DEFINE u == [asks[q] EXCEPT !.pc = pc]
<1>1. u \in AskState
  BY <1>0 DEF AskState
<1>2. /\ u.pc = pc /\ u.want = asks[q].want /\ u.knew = asks[q].knew
      /\ u.scope = asks[q].scope /\ u.todo = asks[q].todo /\ u.item = asks[q].item
  BY <1>0 DEF AskState
<1>3. asks' = [asks EXCEPT ![q] = u]
  BY <1>0 DEF Turns
<1> HIDE DEF u
<1>4. asks'[q] = u /\ OnlyTurns(q)
  BY <1>0, <1>1, <1>3 DEF OnlyTurns
<1> QED
  BY <1>2, <1>4

\* A request that gives up, or that goes on with the batch in hand.
LEMMA PassesOn ==
    ASSUME OrderInv, NEW q \in Requester, NEW pc, Turns(q, pc), UNCHANGED batches,
           asks[q].pc # "idle",
           \/ pc \in {"refused", "unavailable"}
           \/ InHand(q) /\ pc \in {"send", "commit", "abort"}
              /\ (asks[q].pc = "abort" => pc = "abort")
    PROVE  AsksInv' /\ BatchesInv'
<1>1. /\ OnlyTurns(q) /\ asks'[q].pc = pc
      /\ asks'[q].want = asks[q].want /\ asks'[q].knew = asks[q].knew
      /\ asks'[q].scope = asks[q].scope /\ asks'[q].todo = asks[q].todo
      /\ asks'[q].item = asks[q].item
  BY TurnsTo
<1>2. AskInv(q) /\ asks[q].want \in Orders
  BY Underway
<1>3. Asked(q)' = Asked(q) /\ \A s \in Scopes : Published(q, s)' = Published(q, s)
  BY <1>1, SamePlan
<1>4. \A s, x : Reached(q, s, x)' = Reached(q, s, x) /\ IsLogged(q, s, x)' = IsLogged(q, s, x)
  BY <1>1 DEF Reached, Past, IsLogged
<1>5. InHand(q)' => InHand(q)
  BY <1>1 DEF InHand
<1>6. Batching(q)' => Batching(q) /\ InHand(q) /\ InHand(q)' /\ asks[q].scope \in Scopes
  BY <1>1 DEF InHand, Batching
<1>7. PlaceInv(q)'
  BY <1>1, <1>2, <1>3, <1>5 DEF AskInv, PlaceInv
<1>8. ClearInv(q)'
  BY <1>1, <1>2, <1>3, <1>6 DEF AskInv, ClearInv
<1>9. LoggedInv(q)'
  BY <1>1, <1>2, <1>3, <1>4, <1>6 DEF AskInv, LoggedInv
<1>10. ASSUME NEW n \in DOMAIN batches, batches[n].by = q PROVE BatchInv(batches[n])'
  <2>1. BatchInv(batches[n]) /\ batches' = batches
    BY DEF OrderInv, BatchesInv
  <2>2. pc \in {"begin", "send", "commit"} => asks[q].pc \in {"begin", "send", "commit"}
    BY DEF InHand
  <2> QED
    BY <1>1, <1>4, <1>10, <2>1, <2>2 DEF BatchInv
<1> QED
  BY <1>1, <1>7, <1>8, <1>9, <1>10, TurnsInv DEF AskInv

\* The writer is not concerned when a request that is not in its transaction goes on.
LEMMA WriterKept ==
    ASSUME OrderInv, NEW q \in Requester, OnlyTurns(q), UNCHANGED txn,
           InTxn(q)' <=> InTxn(q)
    PROVE  TxnInv'
<1>1. \A p \in Requester : InTxn(p)' = InTxn(p)
  BY DEF OnlyTurns, InTxn
<1>2. txn # None => txn.by \in Requester
  BY DEF OrderInv, TxnInv, Transaction
<1> QED
  BY <1>1, <1>2 DEF OrderInv, TxnInv, WriterIsFree

-----------------------------------------------------------------------------
(* The actions *)

\* A request comes in.
LEMMA AskKeeps ==
    ASSUME OrderInv, NEW q \in Requester, Ask(q)
    PROVE  OrderInv'
<1>0. asks \in [Requester -> AskState] /\ asks[q].pc = "idle"
  BY DEF OrderInv, AsksInv, Ask, AskAt
<1>1. PICK o \in Orders :
        asks' = [asks EXCEPT ![q] = [NoAsk EXCEPT !.pc = IF o.ingest THEN "begin" ELSE "plan",
                                                  !.want = o,
                                                  !.scope = IF o.ingest THEN "ingest" ELSE None]]
  BY DEF Ask
<1> DEFINE u == [NoAsk EXCEPT !.pc = IF o.ingest THEN "begin" ELSE "plan", !.want = o,
                              !.scope = IF o.ingest THEN "ingest" ELSE None]
<1>2. /\ u.want = o /\ u.pc = (IF o.ingest THEN "begin" ELSE "plan")
      /\ u.scope = (IF o.ingest THEN "ingest" ELSE None)
  BY DEF NoAsk
<1>3. u \in AskState
  BY DEF NoAsk, AskState
<1>4. asks' = [asks EXCEPT ![q] = u]
  BY <1>1
<1> HIDE DEF u
<1>5. asks'[q] = u /\ OnlyTurns(q)
  BY <1>0, <1>3, <1>4 DEF OnlyTurns
<1>6. AskInv(q)'
  <2>1. Asked(q)' = o
    BY <1>2, <1>5 DEF Asked
  <2>2. ~Batching(q)'
    BY <1>2, <1>5 DEF Batching, InHand, Scopes
  <2>3. PlaceInv(q)'
    BY <1>2, <1>5, <2>1 DEF PlaceInv, InHand
  <2> QED
    BY <2>2, <2>3 DEF AskInv, ClearInv, LoggedInv
<1>7. \A n \in DOMAIN batches : batches[n].by # q
  BY <1>0 DEF OrderInv, BatchesInv, BatchInv
<1>8. batches' = batches /\ txn' = txn
  BY DEF Ask
<1>9. AsksInv' /\ BatchesInv'
  BY <1>5, <1>6, <1>7, <1>8, TurnsInv
<1>10. ~InTxn(q) /\ ~InTxn(q)'
  BY <1>0, <1>2, <1>5 DEF InTxn
<1> QED
  BY <1>5, <1>8, <1>9, <1>10, WriterKept DEF OrderInv

\* A request that gives up without a transaction.
LEMMA GivesUp ==
    ASSUME OrderInv, NEW q \in Requester, NEW pc, Turns(q, pc), UNCHANGED <<txn, batches>>,
           asks[q].pc \in {"plan", "modes", "batch", "begin"}, pc \in {"refused", "unavailable"}
    PROVE  OrderInv'
<1>1. AsksInv' /\ BatchesInv'
  BY PassesOn
<1>2. OnlyTurns(q) /\ asks'[q].pc = pc
  BY TurnsTo
<1>3. ~InTxn(q) /\ ~InTxn(q)'
  BY <1>2 DEF InTxn
<1> QED
  BY <1>1, <1>2, <1>3, WriterKept DEF OrderInv

\* A request reads the plan and the modes: it has no batch yet.
LEMMA PlanningInv ==
    ASSUME OrderInv, NEW q \in Requester, NEW u \in AskState, UNCHANGED <<txn, batches>>,
           asks' = [asks EXCEPT ![q] = u], asks[q].pc \in {"plan", "modes"},
           u.pc = "modes", u.want = asks[q].want
    PROVE  OrderInv'
<1>1. asks \in [Requester -> AskState] /\ AskInv(q) /\ asks[q].want \in Orders
  BY Underway
<1>2. asks'[q] = u /\ OnlyTurns(q)
  BY <1>1 DEF OnlyTurns
<1>3. Asked(q)' = Asked(q)
  BY <1>2 DEF Asked
<1>4. ~InHand(q)' /\ ~Batching(q)'
  BY <1>2 DEF InHand, Batching
<1>5. PlaceInv(q)'
  BY <1>1, <1>2, <1>3, <1>4 DEF AskInv, PlaceInv
<1>6. AskInv(q)'
  BY <1>4, <1>5 DEF AskInv, ClearInv, LoggedInv
<1>7. \A n \in DOMAIN batches : batches[n].by # q
  BY DEF OrderInv, BatchesInv, BatchInv
<1>8. AsksInv' /\ BatchesInv'
  BY <1>2, <1>6, <1>7, TurnsInv
<1>9. ~InTxn(q) /\ ~InTxn(q)'
  BY <1>2 DEF InTxn
<1> QED
  BY <1>2, <1>8, <1>9, WriterKept DEF OrderInv

\* The plan that POST /rebalancing/execute has fetched is one that was asked for.
LEMMA FetchPlanInv ==
    ASSUME OrderInv, NEW q \in Requester, FetchPlan(q)
    PROVE  OrderInv'
<1>1. asks[q].pc = "plan" /\ UNCHANGED <<txn, batches>>
  BY DEF FetchPlan, AskAt
<1>2. asks \in [Requester -> AskState] /\ asks[q] \in AskState /\ asks[q].want \in Orders
  BY <1>1, Underway
<1>3. CASE asks' = [asks EXCEPT ![q].pc = "modes", ![q].todo = Asked(q).worlds]
  <2> DEFINE u == [asks[q] EXCEPT !.pc = "modes", !.todo = Asked(q).worlds]
  <2>1. Asked(q).worlds \subseteq Item
    BY <1>2, OrderBounds DEF Asked, Item
  <2>2. u \in AskState
    BY <1>2, <2>1 DEF AskState
  <2>3. u.pc = "modes" /\ u.want = asks[q].want
    BY <1>2 DEF AskState
  <2>4. asks' = [asks EXCEPT ![q] = u]
    BY <1>2, <1>3
  <2> HIDE DEF u
  <2> QED
    BY <1>1, <2>2, <2>3, <2>4, PlanningInv
<1>4. CASE Turns(q, "refused") \/ Turns(q, "unavailable")
  BY <1>1, <1>4, GivesUp
<1> QED
  BY <1>3, <1>4 DEF FetchPlan

\* _resolve_world_modes asks for one world after the other and adds it to those known.
LEMMA ReadModeInv ==
    ASSUME OrderInv, NEW q \in Requester, ReadMode(q)
    PROVE  OrderInv'
<1>1. asks[q].pc = "modes" /\ UNCHANGED <<txn, batches>>
  BY DEF ReadMode, AskAt
<1>2. asks \in [Requester -> AskState] /\ asks[q] \in AskState /\ asks[q].want \in Orders
  BY <1>1, Underway
<1>3. PICK w \in asks[q].todo, m \in Modes \cup {None} :
        asks' = [asks EXCEPT ![q].knew[w] = m, ![q].todo = @ \ {w}]
  BY DEF ReadMode
<1> DEFINE k == [asks[q].knew EXCEPT ![w] = m]
           u == [asks[q] EXCEPT !.knew = k, !.todo = @ \ {w}]
<1>4. asks[q].knew \in [Desk -> Modes \cup {None}] /\ asks[q].todo \subseteq Item
  BY <1>2 DEF AskState
<1>5. k \in [Desk -> Modes \cup {None}]
  BY <1>4
<1>6. asks' = [asks EXCEPT ![q] = u]
  BY <1>2, <1>3
<1> HIDE DEF k
<1>7. u \in AskState
  BY <1>2, <1>4, <1>5 DEF AskState
<1>8. u.pc = "modes" /\ u.want = asks[q].want
  BY <1>1, <1>2 DEF AskState
<1> HIDE DEF u
<1> QED
  BY <1>1, <1>6, <1>7, <1>8, PlanningInv

\* A request goes through its batches: nothing is in hand before and after.
LEMMA BatchingInv ==
    ASSUME OrderInv, NEW q \in Requester, NEW u \in AskState, UNCHANGED <<txn, batches>>,
           asks' = [asks EXCEPT ![q] = u], asks[q].pc # "idle", ~InTxn(q), u.pc \notin {"send", "commit", "abort"},
           AskInv(q)', \A n \in DOMAIN batches : batches[n].by = q => BatchInv(batches[n])'
    PROVE  OrderInv'
<1>1. asks \in [Requester -> AskState]
  BY Underway
<1>2. asks'[q] = u /\ OnlyTurns(q)
  BY <1>1 DEF OnlyTurns
<1>3. AsksInv' /\ BatchesInv'
  BY <1>2, TurnsInv
<1>4. ~InTxn(q)'
  BY <1>2 DEF InTxn
<1> QED
  BY <1>2, <1>3, <1>4, WriterKept DEF OrderInv

\* _submit_rebalance_orders drops the orders of shadow worlds before the first batch.
LEMMA StartBatchesInv ==
    ASSUME OrderInv, NEW q \in Requester, StartBatches(q)
    PROVE  OrderInv'
<1>1. asks[q].pc = "modes" /\ UNCHANGED <<txn, batches>>
  BY DEF StartBatches, AskAt
<1>2. /\ asks \in [Requester -> AskState] /\ asks[q] \in AskState /\ AskInv(q)
      /\ asks[q].want \in Orders /\ ~Asked(q).ingest
  BY <1>1, Underway DEF AskInv, PlaceInv
<1> DEFINE u == [asks[q] EXCEPT !.pc = "batch", !.scope = "world", !.todo = Published(q, "world")]
<1>3. Published(q, "world") = Asked(q).worlds /\ Published(q, "world") \subseteq Item
  BY <1>2, PublishedItems DEF Scopes
<1>4. u \in AskState
  BY <1>2, <1>3 DEF AskState, Scopes
<1>5. /\ u.pc = "batch" /\ u.scope = "world" /\ u.todo = Published(q, "world")
      /\ u.want = asks[q].want
  BY <1>2 DEF AskState
<1>6. asks' = [asks EXCEPT ![q] = u]
  BY <1>2 DEF StartBatches
<1> HIDE DEF u
<1>7. asks'[q] = u
  BY <1>2, <1>6
<1>8. Asked(q)' = Asked(q) /\ \A s \in Scopes : Published(q, s)' = Published(q, s)
  BY <1>5, <1>7, SamePlan
<1>9. AskInv(q)'
  <2>1. ~InHand(q)' /\ asks'[q].scope \in Scopes
    BY <1>5, <1>7 DEF InHand, Scopes
  <2>2. PlaceInv(q)'
    BY <1>2, <1>5, <1>7, <1>8, <2>1 DEF PlaceInv
  <2>3. ClearInv(q)'
    BY <1>3, <1>5, <1>7, <1>8 DEF ClearInv
  <2>4. \A s \in Scopes : \A x \in Published(q, s) : ~Reached(q, s, x)'
    BY <1>3, <1>5, <1>7 DEF Reached, Past, Scopes
  <2>5. LoggedInv(q)'
    BY <1>5, <1>7, <1>8, <2>1, <2>4 DEF LoggedInv
  <2> QED
    BY <2>2, <2>3, <2>5 DEF AskInv
<1>10. \A n \in DOMAIN batches : batches[n].by # q
  BY <1>1 DEF OrderInv, BatchesInv, BatchInv
<1>11. ~InTxn(q)
  BY <1>1 DEF InTxn
<1> QED
  BY <1>1, <1>4, <1>5, <1>6, <1>9, <1>10, <1>11, BatchingInv

\* The request takes up x, which is not in shadow mode, or leaves it because it is empty.
LEMMA TakesUpInv ==
    ASSUME OrderInv, NEW q \in Requester, asks[q].pc = "batch", UNCHANGED <<txn, batches>>,
           NEW x \in asks[q].todo, x \in Desk => asks[q].knew[x] # "shadow",
           NEW u \in AskState, asks' = [asks EXCEPT ![q] = u],
           u.want = asks[q].want, u.knew = asks[q].knew, u.scope = asks[q].scope,
           u.todo = asks[q].todo \ {x},
           (u.pc = "batch" /\ x \in Asked(q).empty) \/ (u.pc = "begin" /\ u.item = x)
    PROVE  OrderInv'
<1>1. /\ asks \in [Requester -> AskState] /\ asks[q] \in AskState /\ AskInv(q)
      /\ asks[q].want \in Orders /\ ~Asked(q).ingest /\ asks[q].scope \in Scopes
  BY Underway DEF AskInv, PlaceInv
<1>2. asks'[q] = u
  BY <1>1
<1>3. Asked(q)' = Asked(q) /\ \A s \in Scopes : Published(q, s)' = Published(q, s)
  BY <1>2, SamePlan
<1>4. Batching(q) /\ Batching(q)' /\ ~InHand(q)
  BY <1>1, <1>2 DEF Batching, InHand
<1>5. Asked(q).worlds \subseteq Desk
  BY <1>1, OrderBounds DEF Asked
<1>6. PlaceInv(q)'
  BY <1>1, <1>2, <1>3 DEF PlaceInv, InHand
<1>7. ClearInv(q)'
  BY <1>1, <1>2, <1>3, <1>4, <1>5 DEF AskInv, ClearInv
<1>8. \A s \in Scopes : \A y : Reached(q, s, y)' <=> Reached(q, s, y) \/ (s = asks[q].scope /\ y = x)
  BY <1>2 DEF Reached, Past
<1>9. \A s, y : IsLogged(q, s, y)' <=> IsLogged(q, s, y)
  BY DEF IsLogged
<1>10. LoggedInv(q)'
  <2>1. asks'[q].todo \subseteq Published(q, asks'[q].scope)
    BY <1>1, <1>2, <1>4 DEF AskInv, LoggedInv
  <2>2. InHand(q)' => asks'[q].item \in Published(q, asks'[q].scope) \ asks'[q].todo
    BY <1>1, <1>2, <1>3, <1>4 DEF AskInv, LoggedInv, InHand
  <2>3. ASSUME NEW s \in Scopes, NEW y \in Published(q, s) \ Asked(q).empty, Reached(q, s, y)'
        PROVE  (InHand(q)' /\ s = asks'[q].scope /\ y = asks'[q].item) \/ IsLogged(q, s, y)'
    <3>1. CASE Reached(q, s, y)
      BY <1>1, <1>4, <1>9, <2>3, <3>1 DEF AskInv, LoggedInv
    <3>2. CASE s = asks[q].scope /\ y = x
      <4>1. u.pc = "begin" /\ u.item = x
        BY <2>3, <3>2
      <4> QED
        BY <1>2, <3>2, <4>1 DEF InHand
    <3> QED
      BY <1>8, <2>3, <3>1, <3>2
  <2>4. asks'[q].scope \in Scopes
    BY <1>1, <1>2
  <2> QED
    BY <1>3, <2>1, <2>2, <2>3, <2>4 DEF LoggedInv
<1>11. ASSUME NEW n \in DOMAIN batches, batches[n].by = q PROVE BatchInv(batches[n])'
  <2>1. BatchInv(batches[n]) /\ batches' = batches
    BY DEF OrderInv, BatchesInv
  <2>2. /\ batches[n].scope \in Scopes => Reached(q, batches[n].scope, batches[n].item)'
        /\ batches[n].scope = asks[q].scope => batches[n].item \notin asks[q].todo
    BY <1>1, <1>8, <1>11, <2>1 DEF BatchInv, Reached, Past
  <2> QED
    BY <1>2, <1>11, <2>1, <2>2 DEF BatchInv
<1>12. ~InTxn(q) /\ u.pc \notin {"send", "commit", "abort"}
  BY DEF InTxn
<1> QED
  BY <1>6, <1>7, <1>10, <1>11, <1>12, BatchingInv DEF AskInv

\* _publish_batch begins with an order that has not been published yet.
LEMMA NextBatchInv ==
    ASSUME OrderInv, NEW q \in Requester, NextBatch(q)
    PROVE  OrderInv'
<1>1. asks[q].pc = "batch" /\ UNCHANGED <<txn, batches>>
  BY DEF NextBatch, AskAt
<1>2. asks \in [Requester -> AskState] /\ asks[q] \in AskState
  BY <1>1, Underway
<1>3. PICK x \in asks[q].todo :
        IF x \in Desk /\ asks[q].knew[x] = "shadow" THEN Turns(q, "refused")
        ELSE IF x \in Asked(q).empty THEN asks' = [asks EXCEPT ![q].todo = asks[q].todo \ {x}]
        ELSE asks' = [asks EXCEPT ![q].pc = "begin", ![q].todo = asks[q].todo \ {x},
                                  ![q].item = x]
  BY DEF NextBatch
<1>4. asks[q].todo \subseteq Item
  BY <1>2 DEF AskState
<1>5. CASE x \in Desk /\ asks[q].knew[x] = "shadow"
  BY <1>1, <1>3, <1>5, GivesUp
<1>6. CASE ~(x \in Desk /\ asks[q].knew[x] = "shadow") /\ x \in Asked(q).empty
  <2> DEFINE u == [asks[q] EXCEPT !.todo = asks[q].todo \ {x}]
  <2>1. u \in AskState
    BY <1>2, <1>4 DEF AskState
  <2>2. /\ u.want = asks[q].want /\ u.knew = asks[q].knew /\ u.scope = asks[q].scope
        /\ u.todo = asks[q].todo \ {x} /\ u.pc = "batch"
    BY <1>1, <1>2 DEF AskState
  <2>3. asks' = [asks EXCEPT ![q] = u]
    BY <1>2, <1>3, <1>6
  <2> HIDE DEF u
  <2> QED
    BY <1>1, <1>6, <2>1, <2>2, <2>3, TakesUpInv
<1>7. CASE ~(x \in Desk /\ asks[q].knew[x] = "shadow") /\ x \notin Asked(q).empty
  <2> DEFINE u == [asks[q] EXCEPT !.pc = "begin", !.todo = asks[q].todo \ {x}, !.item = x]
  <2>1. u \in AskState
    BY <1>2, <1>4 DEF AskState
  <2>2. /\ u.want = asks[q].want /\ u.knew = asks[q].knew /\ u.scope = asks[q].scope
        /\ u.todo = asks[q].todo \ {x} /\ u.pc = "begin" /\ u.item = x
    BY <1>2 DEF AskState
  <2>3. asks' = [asks EXCEPT ![q] = u]
    BY <1>2, <1>3, <1>7
  <2> HIDE DEF u
  <2> QED
    BY <1>1, <1>7, <2>1, <2>2, <2>3, TakesUpInv
<1> QED
  BY <1>5, <1>6, <1>7

\* After the worlds come the netted orders, after those the orders per strategy.
LEMMA NextScopeInv ==
    ASSUME OrderInv, NEW q \in Requester, NextScope(q)
    PROVE  OrderInv'
<1>1. asks[q].pc = "batch" /\ asks[q].todo = {} /\ UNCHANGED <<txn, batches>>
  BY DEF NextScope, AskAt
<1>2. /\ asks \in [Requester -> AskState] /\ asks[q] \in AskState /\ AskInv(q)
      /\ asks[q].want \in Orders /\ ~Asked(q).ingest /\ asks[q].scope \in Scopes
  BY <1>1, Underway DEF AskInv, PlaceInv
<1> DEFINE next == IF asks[q].scope = "world" THEN "global" ELSE "split"
           last == [asks[q] EXCEPT !.pc = "answered"]
           more == [asks[q] EXCEPT !.scope = next, !.todo = Published(q, next)]
           u == IF asks[q].scope = "split" THEN last ELSE more
<1>3. next \in Scopes /\ Published(q, next) \subseteq Item
  BY <1>2, PublishedItems DEF Scopes
<1>4. last \in AskState /\ more \in AskState
  BY <1>2, <1>3 DEF AskState
<1>5. /\ last.pc = "answered" /\ last.scope = asks[q].scope /\ last.todo = {}
      /\ last.want = asks[q].want /\ last.knew = asks[q].knew
      /\ more.pc = "batch" /\ more.scope = next /\ more.todo = Published(q, next)
      /\ more.want = asks[q].want /\ more.knew = asks[q].knew
  BY <1>1, <1>2 DEF AskState
<1>6. asks' = [asks EXCEPT ![q] = u]
  BY <1>2 DEF NextScope
<1> HIDE DEF last, more
<1>7. asks'[q] = u /\ u \in AskState
  BY <1>2, <1>4, <1>6
<1>8. /\ u.want = asks[q].want /\ u.knew = asks[q].knew /\ u.pc \in {"batch", "answered"}
      /\ \/ u.pc = "answered" /\ u.scope = asks[q].scope /\ u.todo = {} /\ u.scope = "split"
         \/ u.pc = "batch" /\ u.scope = next /\ u.todo = Published(q, next)
            /\ asks[q].scope \in {"world", "global"}
  BY <1>2, <1>5 DEF Scopes
<1> HIDE DEF u
<1>9. Asked(q)' = Asked(q) /\ \A s \in Scopes : Published(q, s)' = Published(q, s)
  BY <1>7, <1>8, SamePlan
<1>10. /\ Batching(q) /\ Batching(q)' /\ ~InHand(q)' /\ ~InHand(q) /\ ~InTxn(q)
       /\ asks'[q].scope \in Scopes
  BY <1>1, <1>2, <1>3, <1>7, <1>8 DEF Batching, InHand, InTxn
<1>11. PlaceInv(q)'
  BY <1>2, <1>7, <1>8, <1>9, <1>10 DEF PlaceInv
<1>12. ClearInv(q)'
  BY <1>1, <1>2, <1>7, <1>8, <1>9, <1>10 DEF AskInv, ClearInv
<1>13. \A s \in Scopes : \A y \in Published(q, s) : Reached(q, s, y)' => Reached(q, s, y)
  BY <1>1, <1>2, <1>7, <1>8 DEF Reached, Past, Scopes
<1>14. \A s \in Scopes : \A y : Reached(q, s, y) => Reached(q, s, y)'
  BY <1>1, <1>2, <1>7, <1>8 DEF Reached, Past, Scopes
<1>15. \A s, y : IsLogged(q, s, y)' <=> IsLogged(q, s, y)
  BY <1>1 DEF IsLogged
<1>16. LoggedInv(q)'
  <2>1. asks'[q].todo \subseteq Published(q, asks'[q].scope)
    BY <1>7, <1>8
  <2> QED
    BY <1>2, <1>9, <1>10, <1>13, <1>15, <2>1 DEF AskInv, LoggedInv
<1>17. ASSUME NEW n \in DOMAIN batches, batches[n].by = q PROVE BatchInv(batches[n])'
  <2>1. BatchInv(batches[n]) /\ batches' = batches
    BY <1>1 DEF OrderInv, BatchesInv
  <2> QED
    BY <1>7, <1>8, <1>14, <1>17, <2>1 DEF BatchInv
<1> QED
  BY <1>1, <1>6, <1>7, <1>8, <1>10, <1>11, <1>12, <1>16, <1>17, BatchingInv DEF AskInv

\* begin_transaction: with no transaction open, no other request is in one.
LEMMA BeginTxnInv ==
    ASSUME OrderInv, NEW q \in Requester, BeginTxn(q)
    PROVE  OrderInv'
<1>1. asks[q].pc = "begin" /\ UNCHANGED batches
  BY DEF BeginTxn, AskAt
<1>2. CASE Turns(q, "unavailable") /\ UNCHANGED txn
  BY <1>1, <1>2, GivesUp
<1>3. CASE txn = None /\ Turns(q, "send") /\ txn' = [by |-> q, over |-> FALSE, stuck |-> FALSE]
  <2>1. AsksInv' /\ BatchesInv'
    BY <1>1, <1>3, PassesOn DEF InHand
  <2>2. OnlyTurns(q) /\ asks'[q].pc = "send"
    BY <1>3, TurnsTo
  <2>3. txn' \in Transaction
    BY <1>3 DEF Transaction
  <2>4. txn'.by = q /\ txn' # None
    BY <1>3, <2>3, OrderBounds
  <2>5. \A p \in Requester : InTxn(p)' => p = q
    BY <1>3, <2>2 DEF OrderInv, TxnInv, WriterIsFree, InTxn, OnlyTurns
  <2>6. InTxn(q)'
    BY <2>2 DEF InTxn
  <2> QED
    BY <2>1, <2>3, <2>4, <2>5, <2>6 DEF OrderInv, TxnInv, WriterIsFree
<1> QED
  BY <1>2, <1>3 DEF BeginTxn

\* The one who sends is the one whose transaction the producer is in.
LEMMA SendBatchInv ==
    ASSUME OrderInv, NEW q \in Requester, SendBatch(q)
    PROVE  OrderInv'
<1>1. asks[q].pc = "send" /\ UNCHANGED <<txn, batches>>
  BY DEF SendBatch, AskAt
<1>2. PICK pc \in {"commit", "abort"} : Turns(q, pc)
  BY DEF SendBatch
<1>3. AsksInv' /\ BatchesInv'
  BY <1>1, <1>2, PassesOn DEF InHand
<1>4. OnlyTurns(q) /\ asks'[q].pc = pc
  BY <1>2, TurnsTo
<1>5. InTxn(q) /\ InTxn(q)'
  BY <1>1, <1>4 DEF InTxn
<1> QED
  BY <1>1, <1>3, <1>4, <1>5, WriterKept DEF OrderInv

\* The batch of a request that commits: none of its worlds is in shadow mode.
LEMMA BatchIsClear ==
    ASSUME OrderInv, NEW q \in Requester, asks[q].pc = "commit"
    PROVE  /\ Batch(q) \in BatchState
           /\ \A w \in Batch(q).worlds : Batch(q).knew[w] # "shadow"
           /\ Batch(q).by = q /\ Batch(q).scope = asks[q].scope /\ Batch(q).item = asks[q].item
<1>1. /\ asks[q] \in AskState /\ AskInv(q) /\ asks[q].want \in Orders /\ InHand(q)
  BY Underway DEF InHand
<1>2. /\ asks[q].scope \in Scopes \cup {"ingest"}
      /\ asks[q].scope \in Scopes => Batching(q)
  BY <1>1 DEF AskInv, PlaceInv, Batching
<1> DEFINE ws == CASE asks[q].scope = "ingest" -> {}
                   [] asks[q].scope = "global" -> Asked(q).worlds
                   [] OTHER -> {asks[q].item}
<1>3. ws \subseteq Desk /\ \A w \in ws : asks[q].knew[w] # "shadow"
  <2>1. CASE asks[q].scope = "ingest"
    BY <2>1
  <2>2. CASE asks[q].scope = "global"
    <3>1. ws = Asked(q).worlds /\ Asked(q).worlds \subseteq Desk /\ Batching(q)
      BY <1>1, <1>2, <2>2, OrderBounds DEF Asked, Scopes
    <3> HIDE DEF ws
    <3> QED
      BY <1>1, <2>2, <3>1 DEF AskInv, ClearInv
  <2>3. CASE asks[q].scope \in {"world", "split"}
    <3>1. ws = {asks[q].item} /\ Batching(q) /\ asks[q].scope \in Scopes
      BY <1>2, <2>3 DEF Scopes
    <3>2. asks[q].item \in Asked(q).worlds \ asks[q].todo /\ Asked(q).worlds \subseteq Desk
      BY <1>1, <2>3, <3>1, PublishedItems DEF AskInv, LoggedInv
    <3> HIDE DEF ws
    <3> QED
      BY <1>1, <3>1, <3>2 DEF AskInv, ClearInv
  <2> QED
    BY <1>2, <2>1, <2>2, <2>3 DEF Scopes
<1>4. Batch(q) = [by |-> q, scope |-> asks[q].scope, item |-> asks[q].item, worlds |-> ws,
                  knew |-> asks[q].knew]
  BY DEF Batch
<1>5. asks[q].item \in Item \cup {None} /\ asks[q].knew \in [Desk -> Modes \cup {None}]
  BY <1>1 DEF AskState
<1> HIDE DEF ws
<1>6. Batch(q) \in BatchState
  BY <1>2, <1>3, <1>4, <1>5 DEF BatchState
<1> QED
  BY <1>3, <1>4, <1>6

\* The batch in hand joins the log, whether the commit is answered or raises.
LEMMA PublishesInv ==
    ASSUME OrderInv, NEW q \in Requester, asks[q].pc = "commit", NEW pc, Turns(q, pc),
           batches' = Append(batches, Batch(q)),
           pc \in {"batch", "answered", "abort"},
           pc = "batch" => asks[q].scope # "ingest", pc = "answered" => asks[q].scope = "ingest"
    PROVE  AsksInv' /\ BatchesInv'
<1>1. /\ OnlyTurns(q) /\ asks'[q].pc = pc
      /\ asks'[q].want = asks[q].want /\ asks'[q].knew = asks[q].knew
      /\ asks'[q].scope = asks[q].scope /\ asks'[q].todo = asks[q].todo
      /\ asks'[q].item = asks[q].item
  BY TurnsTo
<1>2. AskInv(q) /\ asks[q].want \in Orders /\ asks[q] \in AskState /\ InHand(q)
  BY Underway DEF InHand
<1>3. Asked(q)' = Asked(q) /\ \A s \in Scopes : Published(q, s)' = Published(q, s)
  BY <1>1, SamePlan
<1>4. /\ Batch(q) \in BatchState
      /\ \A w \in Batch(q).worlds : Batch(q).knew[w] # "shadow"
      /\ Batch(q).by = q /\ Batch(q).scope = asks[q].scope /\ Batch(q).item = asks[q].item
  BY BatchIsClear
<1> DEFINE N == Len(batches)
<1>5. batches \in Seq(BatchState) /\ N \in Nat /\ DOMAIN batches = 1..N
  BY DEF OrderInv, BatchesInv
<1>6. /\ batches' \in Seq(BatchState) /\ DOMAIN batches' = 1..(N + 1)
      /\ \A n \in 1..N : batches'[n] = batches[n]
      /\ batches'[N + 1] = Batch(q)
  BY <1>4, <1>5
<1>7. 1..N \subseteq 1..(N + 1) /\ N + 1 \in 1..(N + 1) /\ \A n \in 1..(N + 1) : n \in 1..N \/ n = N + 1
  BY <1>5
<1> HIDE DEF N
<1>8. LogGrows
  BY <1>5, <1>6, <1>7 DEF LogGrows
<1>9. \A s, x : Reached(q, s, x)' <=> Reached(q, s, x)
  BY <1>1 DEF Reached, Past
<1>10. \A s, x : IsLogged(q, s, x) => IsLogged(q, s, x)'
  BY <1>8 DEF IsLogged, LogGrows
<1>11. \A s, x : s = asks[q].scope /\ x = asks[q].item => IsLogged(q, s, x)'
  BY <1>4, <1>6, <1>7 DEF IsLogged
<1>12. Batching(q)' => Batching(q) /\ asks[q].scope \in Scopes
  BY <1>1, <1>2 DEF Batching
<1>13. PlaceInv(q)'
  <2>1. pc = "answered" => Asked(q).ingest
    BY <1>2 DEF AskInv, PlaceInv, Scopes
  <2>2. pc = "batch" => asks[q].scope \in Scopes /\ ~Asked(q).ingest
    BY <1>2 DEF AskInv, PlaceInv, Scopes
  <2>3. InHand(q)' => pc = "abort"
    BY <1>1 DEF InHand
  <2> QED
    BY <1>1, <1>2, <1>3, <2>1, <2>2, <2>3 DEF AskInv, PlaceInv
<1>14. ClearInv(q)'
  BY <1>1, <1>2, <1>3, <1>12 DEF AskInv, ClearInv
<1>15. LoggedInv(q)'
  <2>1. Batching(q)' => asks'[q].todo \subseteq Published(q, asks'[q].scope)
                        /\ asks'[q].item \in Published(q, asks'[q].scope) \ asks'[q].todo
    BY <1>1, <1>2, <1>12 DEF AskInv, LoggedInv
  <2>2. ASSUME Batching(q)', NEW s \in Scopes, NEW y \in Published(q, s) \ Asked(q).empty,
               Reached(q, s, y)'
        PROVE  IsLogged(q, s, y)'
    BY <1>2, <1>9, <1>10, <1>11, <1>12, <2>2 DEF AskInv, LoggedInv
  <2> QED
    BY <1>1, <1>3, <1>12, <2>1, <2>2 DEF LoggedInv
<1>16. \A p \in Requester : AskInv(p)'
  BY <1>1, <1>8, <1>13, <1>14, <1>15, OtherAsks DEF AskInv
<1>17. ASSUME NEW n \in 1..N, NEW b, b = batches[n] PROVE BatchInv(b)'
  <2>1. BatchInv(b) /\ b.by \in Requester
    BY <1>5, <1>17, LoggedBy DEF OrderInv, BatchesInv
  <2>2. CASE b.by = q
    BY <1>1, <1>9, <2>1, <2>2 DEF BatchInv
  <2>3. CASE b.by # q
    <3>1. asks'[b.by] = asks[b.by]
      BY <1>1, <2>1, <2>3 DEF OnlyTurns
    <3> QED
      BY <2>1, <3>1 DEF BatchInv, Reached, Past
  <2> QED
    BY <2>2, <2>3
<1>18. ASSUME NEW b, b = Batch(q) PROVE BatchInv(b)'
  <2>1. asks[q].scope \in Scopes => Reached(q, asks[q].scope, asks[q].item)
    BY <1>2 DEF AskInv, LoggedInv, Batching, Reached
  <2> QED
    BY <1>1, <1>4, <1>9, <1>18, <2>1 DEF BatchInv
<1>19. ASSUME NEW n \in 1..N
       PROVE  ~(/\ batches[n].by = q /\ batches[n].item = asks[q].item
                /\ batches[n].scope = asks[q].scope /\ asks[q].scope \in Scopes)
  BY <1>5 DEF OrderInv, BatchesInv, BatchInv
<1>20. ASSUME NEW m \in DOMAIN batches', NEW n \in DOMAIN batches',
              batches'[m].scope \in Scopes, SameBatch(m, n)'
       PROVE  m = n
  <2>1. CASE m \in 1..N /\ n \in 1..N
    BY <1>5, <1>6, <1>20, <2>1 DEF OrderInv, BatchesInv, SameBatch
  <2>2. CASE m = N + 1 /\ n \in 1..N
    BY <1>4, <1>6, <1>19, <1>20, <2>2 DEF SameBatch
  <2>3. CASE n = N + 1 /\ m \in 1..N
    BY <1>4, <1>6, <1>19, <1>20, <2>3 DEF SameBatch
  <2> QED
    BY <1>6, <1>7, <2>1, <2>2, <2>3
<1>21. ASSUME NEW n \in DOMAIN batches' PROVE BatchInv(batches[n])'
  BY <1>6, <1>7, <1>17, <1>18
<1>22. AsksInv'
  BY <1>1, <1>16 DEF AsksInv, OnlyTurns
<1>23. BatchesInv'
  BY <1>6, <1>20, <1>21 DEF BatchesInv
<1> QED
  BY <1>22, <1>23

\* commit_transaction: a failing commit leaves the transaction to the abort.
LEMMA CommitTxnInv ==
    ASSUME OrderInv, NEW q \in Requester, CommitTxn(q)
    PROVE  OrderInv'
<1>1. asks[q].pc = "commit" /\ InTxn(q) /\ InHand(q)
  BY DEF CommitTxn, AskAt, InTxn, InHand
<1>2. txn # None /\ txn \in Transaction /\ txn.by = q
  BY <1>1 DEF OrderInv, TxnInv, WriterIsFree
<1>3. \A p \in Requester : InTxn(p) => p = q
  BY <1>2 DEF OrderInv, TxnInv, WriterIsFree
<1>4. CASE /\ batches' = Append(batches, Batch(q)) /\ txn' = None
           /\ Turns(q, IF asks[q].scope = "ingest" THEN "answered" ELSE "batch")
  <2> DEFINE pc == IF asks[q].scope = "ingest" THEN "answered" ELSE "batch"
  <2>1. /\ pc \in {"batch", "answered"}
        /\ pc = "batch" => asks[q].scope # "ingest"
        /\ pc = "answered" => asks[q].scope = "ingest"
    OBVIOUS
  <2>2. Turns(q, pc)
    BY <1>4
  <2> HIDE DEF pc
  <2>3. AsksInv' /\ BatchesInv'
    BY <1>1, <1>4, <2>1, <2>2, PublishesInv
  <2>4. OnlyTurns(q) /\ asks'[q].pc = pc
    BY <2>1, <2>2, TurnsTo
  <2>5. \A p \in Requester : ~InTxn(p)'
    BY <1>3, <2>1, <2>4 DEF InTxn, OnlyTurns
  <2> QED
    BY <1>4, <2>3, <2>5 DEF OrderInv, TxnInv, WriterIsFree
<1>5. CASE /\ Turns(q, "abort")
           /\ \/ batches' = batches /\ UNCHANGED txn
              \/ batches' = Append(batches, Batch(q)) /\ txn' = [txn EXCEPT !.over = TRUE]
  <2>1. AsksInv' /\ BatchesInv'
    BY <1>1, <1>5, PassesOn, PublishesInv
  <2>2. OnlyTurns(q) /\ asks'[q].pc = "abort"
    BY <1>5, TurnsTo
  <2>3. txn' \in Transaction /\ txn'.by = q
    BY <1>2, <1>5 DEF Transaction
  <2>4. InTxn(q)' /\ \A p \in Requester : InTxn(p)' => p = q
    BY <1>3, <2>2 DEF InTxn, OnlyTurns
  <2>5. txn' # None
    BY <2>3, OrderBounds
  <2> QED
    BY <2>1, <2>3, <2>4, <2>5 DEF OrderInv, TxnInv, WriterIsFree
<1> QED
  BY <1>4, <1>5 DEF CommitTxn

\* abort_transaction: the writer is free again, or stuck with what it could not abort.
LEMMA AbortTxnInv ==
    ASSUME OrderInv, NEW q \in Requester, AbortTxn(q)
    PROVE  OrderInv'
<1>1. /\ asks[q].pc = "abort" /\ InTxn(q) /\ Turns(q, "unavailable") /\ UNCHANGED batches
      /\ txn' \in {None, Closed(TRUE)}
  BY DEF AbortTxn, AskAt, InTxn
<1>2. txn # None /\ txn \in Transaction /\ txn.by = q
  BY <1>1 DEF OrderInv, TxnInv, WriterIsFree
<1>3. AsksInv' /\ BatchesInv'
  BY <1>1, PassesOn
<1>4. OnlyTurns(q) /\ asks'[q].pc = "unavailable"
  BY <1>1, TurnsTo
<1>5. \A p \in Requester : ~InTxn(p)'
  BY <1>2, <1>4 DEF InTxn, OnlyTurns, OrderInv, TxnInv, WriterIsFree
<1>6. Closed(TRUE) \in Transaction /\ Closed(TRUE).stuck
  BY <1>2 DEF Closed, Transaction
<1> QED
  BY <1>1, <1>3, <1>5, <1>6 DEF OrderInv, TxnInv, WriterIsFree

-----------------------------------------------------------------------------
(* The theorem *)

\* At first nobody has asked for anything.
LEMMA OrderInitInv == OrderInit => OrderInv
<1> SUFFICES ASSUME OrderInit PROVE OrderInv
  OBVIOUS
<1>1. NoAsk \in AskState /\ NoAsk.pc = "idle"
  BY DEF NoAsk, AskState
<1>2. asks \in [Requester -> AskState] /\ \A q \in Requester : asks[q].pc = "idle"
  BY <1>1 DEF OrderInit
<1>3. AsksInv
  BY <1>2 DEF AsksInv, AskInv, PlaceInv, ClearInv, LoggedInv, Batching, InHand
<1>4. BatchesInv
  BY DEF OrderInit, BatchesInv
<1>5. TxnInv
  BY <1>2 DEF OrderInit, TxnInv, WriterIsFree, InTxn
<1> QED
  BY <1>3, <1>4, <1>5 DEF OrderInv

\* Every step keeps the invariant.
LEMMA OrderStepInv == OrderInv /\ [OrderNext]_orderVars => OrderInv'
<1> SUFFICES ASSUME OrderInv, [OrderNext]_orderVars PROVE OrderInv'
  OBVIOUS
<1>1. ASSUME NEW q \in Requester, Ask(q) PROVE OrderInv'
  BY <1>1, AskKeeps
<1>2. ASSUME NEW q \in Requester, AskStep(q) PROVE OrderInv'
  BY <1>2, FetchPlanInv, ReadModeInv, StartBatchesInv, NextBatchInv, NextScopeInv,
     BeginTxnInv, SendBatchInv, CommitTxnInv, AbortTxnInv DEF AskStep
<1>3. CASE UNCHANGED orderVars
  <2>1. /\ asks' = asks /\ batches' = batches /\ txn' = txn
    BY <1>3 DEF orderVars
  <2>2. ASSUME NEW q \in Requester PROVE OrderInv'
    <3>1. OnlyTurns(q) /\ AskInv(q) /\ (InTxn(q)' <=> InTxn(q))
      BY <2>1 DEF OrderInv, AsksInv, OnlyTurns, InTxn
    <3>2. /\ Asked(q)' = Asked(q) /\ InHand(q)' = InHand(q) /\ Batching(q)' = Batching(q)
          /\ \A s : Published(q, s)' = Published(q, s)
          /\ \A s, x : Reached(q, s, x)' = Reached(q, s, x) /\ IsLogged(q, s, x)' = IsLogged(q, s, x)
      BY <2>1 DEF Batching, InHand, Asked, Published, Reached, Past, IsLogged
    <3>3. AskInv(q)'
      BY <2>1, <3>1, <3>2 DEF AskInv, PlaceInv, ClearInv, LoggedInv
    <3>4. \A n \in DOMAIN batches : BatchInv(batches[n])'
      BY <2>1 DEF OrderInv, BatchesInv, BatchInv, Reached, Past
    <3> QED
      BY <2>1, <3>1, <3>3, <3>4, TurnsInv, WriterKept DEF OrderInv
  <2>3. CASE Requester = {}
    <3>1. AsksInv' /\ TxnInv'
      BY <2>1, <2>3 DEF OrderInv, AsksInv, TxnInv, WriterIsFree, InTxn
    <3>2. BatchesInv'
      BY <2>1 DEF OrderInv, BatchesInv, BatchInv, SameBatch, Reached, Past
    <3> QED
      BY <3>1, <3>2 DEF OrderInv
  <2> QED
    BY <2>2, <2>3
<1> QED
  BY <1>1, <1>2, <1>3 DEF OrderNext

\* The invariant holds in every state.
LEMMA OrderInvariant == OrderSpec => []OrderInv
<1>1. OrderInit => OrderInv
  BY OrderInitInv
<1>2. OrderInv /\ [OrderNext]_orderVars => OrderInv'
  BY OrderStepInv
<1> QED
  BY <1>1, <1>2, PTL DEF OrderSpec

\* How often a batch is in the log: never, or once.
LEMMA LoggedOnce ==
    ASSUME OrderInv, NEW q \in Requester, NEW s \in Scopes, NEW x
    PROVE  /\ TimesLogged(q, s, x) <= 1
           /\ IsLogged(q, s, x) => TimesLogged(q, s, x) = 1
<1> DEFINE L == {n \in DOMAIN batches :
                  batches[n].by = q /\ batches[n].scope = s /\ batches[n].item = x}
<1>1. \A m, n \in L : m = n
  BY DEF OrderInv, BatchesInv, SameBatch
<1>2. TimesLogged(q, s, x) = Cardinality(L)
  BY DEF TimesLogged
<1>3. IsLogged(q, s, x) => L # {}
  BY DEF IsLogged
<1> HIDE DEF L
<1>4. CASE L = {}
  <2>1. Cardinality(L) = 0
    BY <1>4, FS_EmptySet
  <2> QED
    BY <1>2, <1>3, <1>4, <2>1
<1>5. CASE L # {}
  <2>1. PICK n : L = {n}
    BY <1>1, <1>5
  <2>2. Cardinality(L) = 1
    BY <2>1, FS_Singleton
  <2> QED
    BY <1>2, <2>2
<1> QED
  BY <1>4, <1>5

\* _publish_batch, its callers and CommitLogWriter.publish_rebalance_batch: with any number
\* of requests on the one writer no order of a world read to be in shadow mode is
\* published, an answered request has each of its batches in the log exactly once, and the
\* writer is free or stuck when nobody is in its transaction.
THEOREM OrdersAlwaysSound == OrderSpec => []OrdersSound
<1>1. ASSUME OrderInv PROVE OrdersSound
  <2>1. OrderTypeOK
    <3>1. \A q \in Requester : asks[q].knew \in [Desk -> Modes \cup {None}]
      BY <1>1 DEF OrderInv, AsksInv, AskState
    <3>2. \A n \in DOMAIN batches : batches[n].by \in Requester
      BY <1>1, LoggedBy
    <3> QED
      BY <1>1, <3>1, <3>2 DEF OrderTypeOK, OrderInv, TxnInv
  <2>2. NoShadowOrders
    BY <1>1 DEF NoShadowOrders, OrderInv, BatchesInv, BatchInv
  <2>3. BatchesWhole
    <3>1. \A q \in Requester, s \in Scopes, x \in Desk \cup {"global"} :
            TimesLogged(q, s, x) <= 1
      BY <1>1, LoggedOnce
    <3>2. ASSUME NEW q \in Requester, AskAt(q, "answered"), ~Asked(q).ingest,
                 NEW s \in Scopes, NEW x \in Published(q, s) \ Asked(q).empty
          PROVE  TimesLogged(q, s, x) = 1
      <4>1. asks[q].pc = "answered" /\ AskInv(q)
        BY <1>1, <3>2 DEF AskAt, OrderInv, AsksInv
      <4>2. asks[q].scope = "split" /\ asks[q].todo = {}
        BY <3>2, <4>1 DEF AskInv, PlaceInv
      <4>3. Batching(q) /\ ~InHand(q) /\ Reached(q, s, x)
        BY <4>1, <4>2 DEF Batching, InHand, Reached, Past, Scopes
      <4>4. IsLogged(q, s, x)
        BY <4>1, <4>3 DEF AskInv, LoggedInv
      <4> QED
        BY <1>1, <4>4, LoggedOnce
    <3> QED
      BY <3>1, <3>2 DEF BatchesWhole, Scopes
  <2>4. WriterIsFree
    BY <1>1 DEF OrderInv, TxnInv
  <2> QED
    BY <2>1, <2>2, <2>3, <2>4 DEF OrdersSound
<1> QED
  BY <1>1, OrderInvariant, PTL
=============================================================================
