-------------------------------- MODULE MCDag --------------------------------
(* Finite instances of the two halves of a diff in the DAG Manager: the binding   *)
(* of nodes to topics, and the stream that carries the result to the Gateway.  A  *)
(* behaviour is of one half; part says which.                                     *)
EXTENDS TopicBinding, DiffStream, TLC

CONSTANTS n1, n2

VARIABLE part

TwoNodes == {n1, n2}

Asks(nodes, ctx, spaced, code, schema, w) ==
    [nodes |-> nodes, ctx |-> ctx, spaced |-> spaced, code |-> code, schema |-> schema, weight |-> w]

\* One node in two contexts, the second with another schema and weight; two nodes in
\* a namespace; new code for a node.
AnyRequests ==
    [Diff -> {Asks(<<n1>>, "live", FALSE, 1, 1, 1), Asks(<<n1>>, "dry", FALSE, 1, 2, 2),
              Asks(<<n1, n2>>, "live", TRUE, 1, 1, None), Asks(<<n2>>, "live", TRUE, 2, 1, 2)}]

Known(n, keys) ==
    [topic |-> [node |-> n, space |-> None, grown |-> 0],
     code |-> 1, schema |-> 1, keys |-> keys, buffering |-> FALSE]

\* An empty graph, one node without a context, two nodes and a context.
SomeGraphs ==
    {[n \in TwoNodes |-> None], n1 :> Known(n1, {}) @@ n2 :> None,
     n1 :> Known(n1, {"live"}) @@ n2 :> Known(n2, {})}

\* Two chunks without a retry, one chunk with one.
TwoSetups == {[chunks |-> 2, tries |-> 1], [chunks |-> 1, tries |-> 2]}

Anything == CHOOSE r \in AnyRequests : TRUE
Nothing  == [n \in TwoNodes |-> None]

DagInit ==
    /\ BindInit /\ StreamInit
    /\ \/ part = "binding" /\ setup = [chunks |-> 2, tries |-> 1]
       \/ part = "stream" /\ request = Anything /\ graph = Nothing

DagNext ==
    \/ part = "binding" /\ BindNext /\ UNCHANGED <<streamVars, setup, part>>
    \/ part = "stream" /\ StreamNext /\ UNCHANGED <<bindVars, part>>

DagSpec ==
    /\ DagInit /\ [][DagNext]_<<bindVars, streamVars, setup, part>>
    /\ part = "stream" => StreamFairness
=============================================================================
