---------------------------- MODULE TopicBinding ----------------------------
(***************************************************************************)
(* The DAG Manager's diff up to its result: which Kafka topic a node of a DAG  *)
(* is bound to in a compute context, the creation of topics, the sentinel      *)
(* weight, and the garbage collector that drops orphan topics.                 *)
(*                                                                         *)
(* Diffs run in threads of their own (diff_async); a step is one access to      *)
(* Neo4j, Kafka or the ControlBus.  The collector runs on the event loop, so    *)
(* there is one at a time.  Every RPC has a DiffService of its own: only the    *)
(* weight cache is shared, and its table of bindings starts empty.              *)
(***************************************************************************)
EXTENDS Naturals, Sequences, FiniteSets, Optional

CONSTANTS
    Diff,           \* calls of DiffService.Diff
    Node, Context,
    Requests,       \* what the calls may ask for: [Diff -> Request]
    Graphs,         \* contents the graph may start with: [Node -> Record or None]
    Weight,
    Attempts,       \* names tried per node before topic_name gives up
    MaxKafkaFailures,                       \* failures that open the breaker of KafkaAdmin
    MaxCreateFails, MaxBindFails, MaxPublishFails   \* bounds

\* A DAG: its nodes in topological order, the context it runs in, whether its topics
\* are prefixed with the context's namespace, its code and schema hash, and the
\* traffic weight of its sentinel (None: the DAG has no sentinel).
Request == [nodes : Seq(Node), ctx : Context, spaced : BOOLEAN,
            code : Nat, schema : Nat, weight : Weight \cup {None}]

\* A topic name: the node, the namespace, and how often the short hash had to grow.
Name == [node : Node, space : Context \cup {None}, grown : 0..Attempts]

\* A compute node of the graph with its EMITS queue.
Record == [topic : Name, code : Nat, schema : Nat, keys : SUBSET Context, buffering : BOOLEAN]

ASSUME BindingConstants ==
    /\ Requests \subseteq [Diff -> Request]
    /\ Graphs \subseteq [Node -> Record \cup {None}]
    /\ Attempts \in Nat /\ MaxCreateFails \in Nat /\ MaxBindFails \in Nat /\ MaxPublishFails \in Nat
    /\ MaxKafkaFailures \in Nat \ {0}
    /\ None \notin Record

VARIABLES
    request,    \* the requests of this behaviour
    graph,      \* Neo4j
    topics,     \* Kafka: name -> whether it is past ttl and grace
    kafka,    \* the breaker of KafkaAdmin: failures in a row, open
    diff,       \* the calls
    weights,    \* _sentinel_weights, shared by all calls (of one strategy)
    published,  \* sentinel weights on the ControlBus
    gc,         \* the topics the collector has still to drop
    lapses,     \* creations, bindings and publications that have failed
    overlap     \* two calls have been in progress at the same time

bindVars == <<request, graph, topics, kafka, diff, weights, published, gc, lapses, overlap>>

\* pc: the access that comes next.  todo: the nodes left.  seen: the records that were
\* fetched.  taken: the names that were listed.  name: the topic of the first node.
\* map: the queue map so far.  late: nodes to be buffered.  event: a weight to publish.
DiffState == [pc : {"new", "plan", "list", "create", "bind", "mark", "weigh", "publish", "done", "failed"},
         todo : Seq(Node), seen : [Node -> Record \cup {None}], taken : SUBSET Name,
         name : Name \cup {None}, map : [Node -> Name \cup {None}],
         late : SUBSET Node, event : Weight \cup {None}]

NewDiff == [pc |-> "new", todo |-> <<>>, seen |-> [n \in Node |-> None], taken |-> {},
            name |-> None, map |-> [n \in Node |-> None], late |-> {}, event |-> None]

Is(d, pc) == diff[d].pc = pc
Active(d) == diff[d].pc \notin {"new", "done", "failed"}
Ctx(d) == request[d].ctx
First(d) == Head(diff[d].todo)

\* The namespace of a request: its world and domain, which the context stands for.
Space(d) == IF request[d].spaced THEN Ctx(d) ELSE None

BindInit ==
    /\ request \in Requests
    /\ graph \in Graphs
    /\ topics = [t \in {graph[n].topic : n \in {m \in Node : graph[m] # None}} |-> TRUE]
    /\ kafka = [failures |-> 0, open |-> FALSE]
    /\ diff = [d \in Diff |-> NewDiff]
    /\ weights = None /\ published = <<>>
    /\ gc = {}
    /\ lapses = [create |-> 0, bind |-> 0, publish |-> 0]
    /\ overlap = FALSE

Goto(d, c) == diff' = [diff EXCEPT ![d] = c]

-----------------------------------------------------------------------------
(* DiffService._prepare_diff *)

\* _db_fetch.
Fetch(d) ==
    /\ Is(d, "new")
    /\ Goto(d, [NewDiff EXCEPT !.pc = "plan", !.todo = request[d].nodes, !.seen = graph])
    /\ overlap' = (overlap \/ \E e \in Diff \ {d} : Active(e))
    /\ UNCHANGED <<request, graph, topics, kafka, weights, published, gc, lapses>>

\* The record of node n has the code of the request.
Reusable(d, n) == diff[d].seen[n] # None /\ diff[d].seen[n].code = request[d].code

\* The record belongs to other contexts.
CrossContext(d, n) ==
    Reusable(d, n) /\ diff[d].seen[n].keys # {} /\ Ctx(d) \notin diff[d].seen[n].keys

\* _build_topic_binding_plan: one node in a foreign context fails the whole request.
PlanFails(d) ==
    /\ Is(d, "plan")
    /\ \E n \in Node : n \in {request[d].nodes[i] : i \in DOMAIN request[d].nodes} /\ CrossContext(d, n)
    /\ Goto(d, [diff[d] EXCEPT !.pc = "failed"])
    /\ UNCHANGED <<request, graph, topics, kafka, weights, published, gc, lapses, overlap>>

\* Where the plan goes on: the next node, or the buffering of the late ones.
NodeOrMark(c) == [c EXCEPT !.pc = IF c.todo = <<>> THEN "mark" ELSE "plan", !.name = None, !.taken = {}]

\* _execute_topic_binding_plan reuses the topic of the record, unless the topic lacks
\* the namespace: then, and for a node without a usable record, a topic is upserted.
PlanNode(d) ==
    /\ Is(d, "plan") /\ diff[d].todo # <<>>
    /\ \A i \in DOMAIN request[d].nodes : ~CrossContext(d, request[d].nodes[i])
    /\ LET n == First(d)
           r == diff[d].seen[n]
           c == IF Reusable(d, n) /\ r.schema # request[d].schema
                THEN [diff[d] EXCEPT !.late = @ \cup {n}] ELSE diff[d]
       IN IF Reusable(d, n) /\ (Space(d) = None \/ r.topic.space = Space(d))
          THEN Goto(d, [c EXCEPT !.pc = "bind", !.name = r.topic])
          ELSE Goto(d, [c EXCEPT !.pc = "list"])
    /\ UNCHANGED <<request, graph, topics, kafka, weights, published, gc, lapses, overlap>>

\* KafkaQueueManager.upsert lists the topics and topic_name picks a name that is free.
ListTopics(d) ==
    /\ Is(d, "list")
    /\ LET free == {k \in 0..Attempts :
                      [node |-> First(d), space |-> Space(d), grown |-> k] \notin DOMAIN topics}
       IN IF free = {} \/ kafka.open
          THEN Goto(d, [diff[d] EXCEPT !.pc = "failed"])
          ELSE LET least == CHOOSE k \in free : \A j \in free : k <= j
               IN Goto(d, [diff[d] EXCEPT !.pc = "create", !.taken = DOMAIN topics,
                             !.name = [node |-> First(d), space |-> Space(d), grown |-> least]])
    /\ UNCHANGED <<request, graph, topics, kafka, weights, published, gc, lapses, overlap>>

\* create_topic_if_needed: a topic that has come to exist in the meantime is as good.
\* When every attempt fails, of which one may have created the topic, the breaker counts
\* one; nothing closes it again.
CreateTopic(d) ==
    LET created == [t \in DOMAIN topics \cup {diff[d].name} |->
                      IF t \in DOMAIN topics THEN topics[t] ELSE FALSE]
    IN
    /\ Is(d, "create")
    /\ \/ /\ topics' = created
          /\ Goto(d, [diff[d] EXCEPT !.pc = "bind"])
          /\ kafka' = [kafka EXCEPT !.failures = 0]
          /\ UNCHANGED lapses
       \/ /\ lapses.create < MaxCreateFails
          /\ lapses' = [lapses EXCEPT !.create = @ + 1]
          /\ Goto(d, [diff[d] EXCEPT !.pc = "failed"])
          /\ kafka' = [failures |-> kafka.failures + 1,
                         open |-> kafka.open \/ kafka.failures + 1 >= MaxKafkaFailures]
          /\ topics' \in {topics, created}
    /\ UNCHANGED <<request, graph, weights, published, gc, overlap>>

\* Defect variant of BindNode: the context of the binding is not stored.
BindNodeForgetful(d) ==
    /\ Is(d, "bind")
    /\ Goto(d, NodeOrMark([diff[d] EXCEPT !.map[First(d)] = diff[d].name, !.todo = Tail(@)]))
    /\ UNCHANGED <<request, graph, topics, kafka, weights, published, gc, lapses, overlap>>

\* add_compute_binding: a node that is in the graph gets the key of the context.
WithKey(r, k) == IF r = None THEN None ELSE [r EXCEPT !.keys = @ \cup {k}]

\* The binding of a node is stored, or the failure is logged.
BindNode(d) ==
    /\ Is(d, "bind")
    /\ \/ /\ graph' = [graph EXCEPT ![First(d)] = WithKey(graph[First(d)], Ctx(d))]
          /\ UNCHANGED lapses
       \/ /\ lapses.bind < MaxBindFails
          /\ lapses' = [lapses EXCEPT !.bind = @ + 1]
          /\ UNCHANGED graph
    /\ Goto(d, NodeOrMark([diff[d] EXCEPT !.map[First(d)] = diff[d].name, !.todo = Tail(@)]))
    /\ UNCHANGED <<request, topics, kafka, weights, published, gc, overlap>>

\* _buffer_instructions.
MarkBuffering(d) ==
    /\ Is(d, "mark")
    /\ graph' = [n \in Node |-> IF n \in diff[d].late /\ graph[n] # None
                               THEN [graph[n] EXCEPT !.buffering = TRUE] ELSE graph[n]]
    /\ Goto(d, [diff[d] EXCEPT !.pc = "weigh"])
    /\ UNCHANGED <<request, topics, kafka, weights, published, gc, lapses, overlap>>

\* Defect variant of RecordWeight: the event is only made for the first weight.
RecordFirstWeight(d) ==
    /\ Is(d, "weigh")
    /\ LET w == request[d].weight IN
       /\ weights' = IF w = None THEN weights ELSE w
       /\ Goto(d, [diff[d] EXCEPT !.pc = "publish", !.event = IF weights = None THEN w ELSE None])
    /\ UNCHANGED <<request, graph, topics, kafka, published, gc, lapses, overlap>>

\* _record_sentinel_weight: an event for the ControlBus unless the cache has the weight.
RecordWeight(d) ==
    /\ Is(d, "weigh")
    /\ LET w == request[d].weight IN
       IF w = None \/ w = weights
       THEN Goto(d, [diff[d] EXCEPT !.pc = "publish"]) /\ UNCHANGED weights
       ELSE Goto(d, [diff[d] EXCEPT !.pc = "publish", !.event = w]) /\ weights' = w
    /\ UNCHANGED <<request, graph, topics, kafka, published, gc, lapses, overlap>>

\* DiffServiceServicer._emit_weight_events, on the event loop, and the end of the call.
\* A publication that fails after its retries ends the call.
PublishWeight(d) ==
    /\ Is(d, "publish")
    /\ \/ /\ published' = IF diff[d].event = None THEN published ELSE Append(published, diff[d].event)
          /\ Goto(d, [diff[d] EXCEPT !.pc = "done", !.event = None])
          /\ UNCHANGED lapses
       \/ /\ diff[d].event # None /\ lapses.publish < MaxPublishFails
          /\ lapses' = [lapses EXCEPT !.publish = @ + 1]
          /\ Goto(d, [diff[d] EXCEPT !.pc = "failed", !.event = None])
          /\ UNCHANGED published
    /\ UNCHANGED <<request, graph, topics, kafka, weights, gc, overlap>>

-----------------------------------------------------------------------------
(* The garbage collector, the buffering scheduler and the passing of time *)

\* A topic gets past its ttl and grace period.
Age(t) ==
    /\ t \in DOMAIN topics /\ ~topics[t]
    /\ \A d \in Diff : ~Active(d)
    /\ topics' = [topics EXCEPT ![t] = TRUE]
    /\ UNCHANGED <<request, graph, kafka, diff, weights, published, gc, lapses, overlap>>

\* Defect variant of ListOrphans: the graph is not asked.
ListOldTopics ==
    /\ gc = {}
    /\ gc' = {t \in DOMAIN topics : topics[t]}
    /\ gc' # {}
    /\ UNCHANGED <<request, graph, topics, kafka, diff, weights, published, lapses, overlap>>

\* collect_report: a batch of the topics that no node emits to and that are old enough.
ListOrphans ==
    /\ gc = {}
    /\ LET orphans == {t \in DOMAIN topics :
                         topics[t] /\ \A n \in Node : graph[n] = None \/ graph[n].topic # t}
       IN gc' \in (SUBSET orphans) \ {{}}
    /\ UNCHANGED <<request, graph, topics, kafka, diff, weights, published, lapses, overlap>>

\* _process_batch drops them one after the other; one that cannot be archived is kept.
DropTopic(t) ==
    /\ t \in gc
    /\ gc' = gc \ {t}
    /\ \/ topics' = [u \in DOMAIN topics \ {t} |-> topics[u]]
       \/ UNCHANGED topics
    /\ UNCHANGED <<request, graph, kafka, diff, weights, published, lapses, overlap>>

\* BufferingScheduler.check_once: a node that has been buffering long enough is cleared.
ClearBuffering(n) ==
    /\ graph[n] # None /\ graph[n].buffering
    /\ \A d \in Diff : ~Active(d)
    /\ graph' = [graph EXCEPT ![n].buffering = FALSE]
    /\ UNCHANGED <<request, topics, kafka, diff, weights, published, gc, lapses, overlap>>

DiffStep(d) ==
    \/ Fetch(d) \/ PlanFails(d) \/ PlanNode(d) \/ ListTopics(d) \/ CreateTopic(d)
    \/ BindNode(d) \/ MarkBuffering(d) \/ RecordWeight(d) \/ PublishWeight(d)

BindNext ==
    \/ \E d \in Diff : DiffStep(d)
    \/ \E t \in DOMAIN topics : Age(t) \/ DropTopic(t)
    \/ ListOrphans
    \/ \E n \in Node : ClearBuffering(n)

BindSpec == BindInit /\ [][BindNext]_bindVars
-----------------------------------------------------------------------------
(***************************************************************************)
(* Properties.                                                              *)
(***************************************************************************)

\* Every variable has its type.
BindTypeOK ==
    /\ request \in Requests
    /\ graph \in [Node -> Record \cup {None}]
    /\ DOMAIN topics \subseteq Name /\ \A t \in DOMAIN topics : topics[t] \in BOOLEAN
    /\ kafka \in [failures : Nat, open : BOOLEAN]
    /\ diff \in [Diff -> DiffState]
    /\ weights \in Weight \cup {None} /\ published \in Seq(Weight)
    /\ gc \subseteq Name
    /\ lapses \in [create : Nat, bind : Nat, publish : Nat]
    /\ overlap \in BOOLEAN

Done(d) == diff[d].pc = "done"

\* Cross-context cache hits "MUST stay at 0" (docs/en/architecture/glossary.md): two
\* diffs that reuse the topic of one record ran in one context.  Holds while diffs do
\* not overlap, no binding failed to be stored, and node ids stand for their code: a
\* request with other code for a node adds its context to the record all the same.
ContextsApart ==
    ~overlap /\ lapses.bind = 0 =>
        \A d, e \in Diff : \A n \in Node :
            /\ Done(d) /\ Done(e) /\ Reusable(d, n) /\ Reusable(e, n)
            /\ diff[d].map[n] # None /\ diff[d].map[n] = diff[e].map[n]
            => Ctx(d) = Ctx(e)

\* The collector, whose list is old when a topic is dropped, and which runs between the
\* steps of the diffs, never drops a topic that a node of the graph emits to.
GcSparesRegistered ==
    \A n \in Node : graph[n] # None => graph[n].topic \in DOMAIN topics

\* The topics a diff has bound are there until it answers: the collector may run between
\* the listing and the creation of a topic, another diff may create it first, and the
\* collector's list may be older than the topic.
BoundTopicsExist ==
    \A d \in Diff, n \in Node :
        Active(d) /\ diff[d].map[n] # None => diff[d].map[n] \in DOMAIN topics

\* Neither the graph nor a running diff names a topic that the collector has dropped.
TopicsKept == BindTypeOK /\ GcSparesRegistered /\ BoundTopicsExist

\* What the ControlBus was told last is the weight the cache believes was told, once no
\* diff is in progress.  Holds while diffs do not overlap and no publication fails: the
\* cache is set first, so a weight that could not be published is never published again.
WeightsSettle ==
    ~overlap /\ lapses.publish = 0 /\ (\A d \in Diff : ~Active(d)) /\ weights # None =>
        published # <<>> /\ published[Len(published)] = weights
=============================================================================
