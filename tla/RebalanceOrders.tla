--------------------------- MODULE RebalanceOrders ---------------------------
(***************************************************************************)
(* POST /rebalancing/execute?submit=true of the Gateway: the orders of a    *)
(* plan go to the commit log in batches, through the one transactional       *)
(* producer that submissions of strategies use as well.                      *)
(*                                                                           *)
(* Orders are left out: a batch is who published it, its scope, the worlds    *)
(* whose orders it carries and what the request knew of their modes.  The     *)
(* audit record of a batch and the risk snapshots at the end are best effort  *)
(* and change nothing here.  The mode of the request is "scaling": in         *)
(* "overlay" the worlds of the plan come from the overlay.                    *)
(***************************************************************************)
EXTENDS Naturals, Sequences, FiniteSets, Optional

CONSTANTS Requester,    \* concurrent requests
          Orders,       \* what may be asked for: [ingest, worlds, empty, global, split]
          Desk,         \* worlds with positions
          MaxLosses     \* calls of WorldService and the producer that fail

\* A transaction of the producer: who began it, whether it is over although the commit
\* raised, and whether it can no longer be ended.
Transaction == [by : Requester, over : BOOLEAN, stuck : BOOLEAN]

ASSUME OrderBounds ==
    /\ MaxLosses \in Nat
    /\ \A o \in Orders : o.empty \subseteq o.worlds /\ o.worlds \subseteq Desk
    /\ None \notin Transaction

VARIABLES txn,          \* the producer's open transaction: [by, over, stuck]
          batches,      \* committed batches, in order
          asks,         \* where each request is
          losses

orderVars == <<txn, batches, asks, losses>>

Modes == {"live", "shadow"}
NoAsk == [pc |-> "idle", want |-> None, knew |-> [w \in Desk |-> None],
          scope |-> None, todo |-> {}, item |-> None]

OrderInit ==
    /\ txn = None /\ batches = <<>>
    /\ asks = [q \in Requester |-> NoAsk]
    /\ losses = 0

AskAt(q, pc) == asks[q].pc = pc
Asked(q) == asks[q].want
Turns(q, pc) == asks' = [asks EXCEPT ![q].pc = pc]
Loses == losses < MaxLosses /\ losses' = losses + 1
Keeps == UNCHANGED losses

-----------------------------------------------------------------------------
\* The live guard and the mode of the request are checked at once.  A submission
\* (publish_submission) has one batch and no worlds.
Ask(q) ==
    /\ AskAt(q, "idle")
    /\ \E o \in Orders :
         asks' = [asks EXCEPT ![q] = [NoAsk EXCEPT !.pc = IF o.ingest THEN "begin" ELSE "plan",
                                                   !.want = o,
                                                   !.scope = IF o.ingest THEN "ingest" ELSE None]]
    /\ UNCHANGED <<txn, batches, losses>>

\* post_rebalance_plan; shared accounts are refused when their policy says so.
FetchPlan(q) ==
    /\ AskAt(q, "plan")
    /\ \/ asks' = [asks EXCEPT ![q].pc = "modes", ![q].todo = Asked(q).worlds] /\ Keeps
       \/ Asked(q).global /\ Turns(q, "refused") /\ Keeps
       \/ Turns(q, "unavailable") /\ Loses
    /\ UNCHANGED <<txn, batches>>

\* Where the batches begin: one for each world of the plan.
Published(q, scope) ==
    CASE scope = "world" -> Asked(q).worlds
      [] scope = "global" -> IF Asked(q).global THEN {"global"} ELSE {}
      [] scope = "split" -> IF Asked(q).split /\ ~Asked(q).global
                            THEN Asked(q).worlds \ Asked(q).empty ELSE {}

\* _resolve_world_modes, a GET per world; a world that cannot be read has no mode.  The
\* mode is whatever it is when WorldService is asked.
ReadMode(q) ==
    /\ AskAt(q, "modes")
    /\ \E w \in asks[q].todo :
         LET after(m) == [asks EXCEPT ![q].knew[w] = m, ![q].todo = @ \ {w}] IN
         \/ (\E m \in Modes : asks' = after(m)) /\ Keeps
         \/ asks' = after(None) /\ Loses
    /\ UNCHANGED <<txn, batches>>

\* Defect variant of StartBatches: the net orders go first.
StartBatchesGlobal(q) ==
    /\ AskAt(q, "modes") /\ asks[q].todo = {}
    /\ asks' = [asks EXCEPT ![q].pc = "batch",
                            ![q].scope = IF Asked(q).global THEN "global" ELSE "world",
                            ![q].todo = Published(q, IF Asked(q).global THEN "global" ELSE "world")]
    /\ UNCHANGED <<txn, batches, losses>>

StartBatches(q) ==
    /\ AskAt(q, "modes") /\ asks[q].todo = {}
    /\ asks' = [asks EXCEPT ![q].pc = "batch", ![q].scope = "world",
                            ![q].todo = Published(q, "world")]
    /\ UNCHANGED <<txn, batches, losses>>

\* _publish_batch up to its first await: a shadow world is refused, with or without
\* orders; an empty batch is skipped.
NextBatch(q) ==
    /\ AskAt(q, "batch")
    /\ \E x \in asks[q].todo :
         LET rest == asks[q].todo \ {x} IN
         IF x \in Desk /\ asks[q].knew[x] = "shadow" THEN Turns(q, "refused")
         ELSE IF x \in Asked(q).empty THEN asks' = [asks EXCEPT ![q].todo = rest]
         ELSE asks' = [asks EXCEPT ![q].pc = "begin", ![q].todo = rest, ![q].item = x]
    /\ UNCHANGED <<txn, batches, losses>>

\* _publish_per_world, then _publish_global, then _publish_per_strategy.
NextScope(q) ==
    /\ AskAt(q, "batch") /\ asks[q].todo = {}
    /\ LET next == IF asks[q].scope = "world" THEN "global" ELSE "split" IN
       asks' = IF asks[q].scope = "split" THEN [asks EXCEPT ![q].pc = "answered"]
               ELSE [asks EXCEPT ![q].scope = next, ![q].todo = Published(q, next)]
    /\ UNCHANGED <<txn, batches, losses>>

-----------------------------------------------------------------------------
(* CommitLogWriter *)

\* The net orders carry those of every world of the plan.
Batch(q) == [by |-> q, scope |-> asks[q].scope, item |-> asks[q].item,
             worlds |-> CASE asks[q].scope = "ingest" -> {}
                          [] asks[q].scope = "global" -> Asked(q).worlds
                          [] OTHER -> {asks[q].item},
             knew |-> asks[q].knew]

Closed(stuck) == IF stuck THEN [txn EXCEPT !.stuck = TRUE] ELSE None

\* begin_transaction raises while a transaction is open; nothing is aborted then, because
\* the call is outside the try block.
BeginTxn(q) ==
    /\ AskAt(q, "begin")
    /\ \/ /\ txn = None /\ Turns(q, "send") /\ Keeps
          /\ txn' = [by |-> q, over |-> FALSE, stuck |-> FALSE]
       \/ txn # None /\ Turns(q, "unavailable") /\ UNCHANGED txn /\ Keeps
       \/ Turns(q, "unavailable") /\ UNCHANGED txn /\ Loses
    /\ UNCHANGED batches

SendBatch(q) ==
    /\ AskAt(q, "send")
    /\ \/ Turns(q, "commit") /\ Keeps
       \/ Turns(q, "abort") /\ Loses
    /\ UNCHANGED <<txn, batches>>

\* A commit that raises may have been executed.
CommitTxn(q) ==
    /\ AskAt(q, "commit")
    /\ \/ /\ batches' = Append(batches, Batch(q)) /\ txn' = None /\ Keeps
          /\ Turns(q, IF asks[q].scope = "ingest" THEN "answered" ELSE "batch")
       \/ /\ Turns(q, "abort") /\ Loses
          /\ \/ batches' = batches /\ UNCHANGED txn
             \/ batches' = Append(batches, Batch(q)) /\ txn' = [txn EXCEPT !.over = TRUE]

\* A failing abort is only logged.  It fails when there is nothing to abort any more, and
\* may leave a producer behind that begins no other transaction.
AbortTxn(q) ==
    /\ AskAt(q, "abort") /\ Turns(q, "unavailable")
    /\ \/ ~txn.over /\ txn' = None /\ Keeps
       \/ txn.over /\ txn' \in {None, Closed(TRUE)} /\ Keeps
       \/ txn' = Closed(TRUE) /\ Loses
    /\ UNCHANGED batches

AskStep(q) ==
    \/ FetchPlan(q) \/ ReadMode(q) \/ StartBatches(q) \/ NextBatch(q) \/ NextScope(q)
    \/ BeginTxn(q) \/ SendBatch(q) \/ CommitTxn(q) \/ AbortTxn(q)

OrderNext ==
    \E q \in Requester : Ask(q) \/ AskStep(q)

OrderSpec == OrderInit /\ [][OrderNext]_orderVars

-----------------------------------------------------------------------------
InTxn(q) == asks[q].pc \in {"send", "commit", "abort"}

OrderTypeOK ==
    /\ \A q \in Requester : asks[q].knew \in [Desk -> Modes \cup {None}]
    /\ \A n \in DOMAIN batches : batches[n].by \in Requester
    /\ txn \in Transaction \cup {None}

\* No batch carries an order of a world that the request has read to be in shadow mode
\* (E_SHADOW_ORDERS_BLOCKED): the net orders of several worlds are not looked at, they are
\* safe because every world's own batch comes first.
NoShadowOrders ==
    \A n \in DOMAIN batches, w \in Desk :
        w \in batches[n].worlds => batches[n].knew[w] # "shadow"

TimesLogged(q, scope, x) ==
    Cardinality({n \in DOMAIN batches :
        batches[n].by = q /\ batches[n].scope = scope /\ batches[n].item = x})

\* A request that is answered with success has every batch in the commit log once, and
\* none is there twice.
BatchesWhole ==
    /\ \A q \in Requester, s \in {"world", "global", "split"}, x \in Desk \cup {"global"} :
         TimesLogged(q, s, x) <= 1
    /\ \A q \in Requester : AskAt(q, "answered") /\ ~Asked(q).ingest =>
         \A s \in {"world", "global", "split"} : \A x \in Published(q, s) \ Asked(q).empty :
            TimesLogged(q, s, x) = 1

\* The transaction belongs to one request, which is inside it: whatever fails, the producer
\* that all requests share is free again when the request is answered, unless the abort
\* itself has failed.
WriterIsFree ==
    /\ \A q \in Requester : InTxn(q) => txn # None /\ txn.by = q
    /\ txn # None => txn.stuck \/ InTxn(txn.by)

\* Orders of concurrent requests on the one CommitLogWriter: none of a world in shadow
\* mode, every batch whole and once, and the writer free again, whatever fails.
OrdersSound == OrderTypeOK /\ NoShadowOrders /\ BatchesWhole /\ WriterIsFree
=============================================================================
