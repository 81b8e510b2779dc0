------------------------------- MODULE MCWorld -------------------------------
(* Finite instances of five parts of WorldService and its Gateway that share     *)
(* nothing: the two-phase apply, the risk hub, the allocation runs, the orders of *)
(* a rebalancing, and the evaluation store with live promotion.  A behaviour is   *)
(* of one part; part says which.                                                  *)
EXTENDS MCApply, RiskHub, AllocationRuns, RebalanceOrders, EvaluationRuns

CONSTANTS a, b

VARIABLE part

\* A version posted with two contents, and a later one that is of an earlier day.
Posted == {[version |-> 1, hash |-> a, asOf |-> 2],
           [version |-> 1, hash |-> b, asOf |-> 2],
           [version |-> 2, hash |-> a, asOf |-> 1]}

Allocates(r, e, ws, x) == [run |-> r, etag |-> e, worlds |-> ws, execute |-> x]

\* A run that is planned first and executed later, one that conflicts with it, and
\* another run for the same worlds.
Allocated == {Allocates("r1", "a", {1, 2}, FALSE), Allocates("r1", "a", {1, 2}, TRUE),
              Allocates("r1", "b", {2}, TRUE), Allocates("r2", "c", {1, 2}, TRUE)}

Trades(ws, none, net, split) ==
    [ingest |-> FALSE, worlds |-> ws, empty |-> none, global |-> net, split |-> split]

\* A submission; one batch per world; net orders, one world without orders of its own;
\* orders per strategy.
Traded == {[Trades({}, {}, FALSE, FALSE) EXCEPT !.ingest = TRUE],
           Trades({"u", "v"}, {}, FALSE, FALSE), Trades({"u", "v"}, {"v"}, TRUE, FALSE),
           Trades({"u"}, {}, FALSE, TRUE)}

Stores(status, set, mark) == [stage |-> "paper", status |-> status, set |-> set,
                              mark |-> mark, cases |-> {}, ext |-> 0]
Evaluates(ks, stage, status, set, mark) ==
    [op |-> "evaluate", keys |-> ks, scope |-> ks, stage |-> stage, status |-> status,
     set |-> set, mark |-> mark]

\* An approved run, and one that failed.
TwoStored == [k \in {"k1", "k2"} |-> IF k = "k1" THEN Stores("pass", {"s1"}, "approved")
                                    ELSE Stores("fail", {"s1"}, None)]

\* An evaluation of both runs; one of the approved run that is of another stage, has too
\* large an active set and carries its approval; and what may be asked of that run meanwhile.
Judged == {Evaluates({"k1", "k2"}, "paper", "warn", {"s2"}, None),
           Evaluates({"k1"}, "backtest", "pass", {"s1", "s2"}, "approved"),
           [op |-> "override", keys |-> {"k1"}, mark |-> "rejected"],
           [op |-> "failure", keys |-> {"k1"}, case |-> "c"],
           [op |-> "extend", keys |-> {"k1"}, scope |-> {"k1"}, stage |-> "paper"],
           [op |-> "promote", keys |-> {"k1"}, force |-> FALSE],
           [op |-> "promote", keys |-> {"k1"}, force |-> TRUE],
           [op |-> "auto", keys |-> {}]}

\* Processes and clients differ in their names only; the parts have the same clients.
Alike == Permutations(Server) \cup Permutations(Poster)

WorldInit ==
    /\ Init /\ RiskInit /\ AllocInit /\ OrderInit /\ EvalInit
    /\ \/ part \in {"apply", "risk", "allocation", "orders"} /\ governance = "manual_approval"
       \/ part = "evaluation"

others == <<riskVars, allocVars, orderVars>>

WorldNext ==
    \/ part = "apply" /\ Next /\ UNCHANGED <<others, evalVars, part>>
    \/ part = "risk" /\ RiskNext /\ UNCHANGED <<vars, allocVars, orderVars, evalVars, part>>
    \/ part = "allocation" /\ AllocNext
       /\ UNCHANGED <<vars, riskVars, orderVars, evalVars, part>>
    \/ part = "orders" /\ OrderNext /\ UNCHANGED <<vars, riskVars, allocVars, evalVars, part>>
    \/ part = "evaluation" /\ EvalNext /\ UNCHANGED <<vars, others, part>>

WorldSpec == WorldInit /\ [][WorldNext]_<<vars, others, evalVars, part>>

\* The behaviours of one part.
RiskPart == WorldSpec /\ part = "risk"
AllocPart == WorldSpec /\ part = "allocation"
=============================================================================
