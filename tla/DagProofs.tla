----------------------------- MODULE DagProofs ------------------------------
(***************************************************************************)
(* Proofs about TopicBinding and DiffStream, the two halves of a diff in the *)
(* DAG Manager: no collector takes a topic away that is in use, contexts are *)
(* kept apart and weights are published, and a caller is told the truth, for *)
(* any number of diffs, nodes, contexts, topics, chunks and failures.        *)
(***************************************************************************)
EXTENDS TopicBinding, DiffStream, FiniteSetTheorems, WellFoundedInduction, TLAPS

-----------------------------------------------------------------------------
(* A step of a diff *)

\* topic_name tries the lengths of the short hash in order: where one is free, there is
\* a first one.
LEMMA FirstFree ==
    ASSUME NEW T, T \subseteq Nat, T # {}
    PROVE  (CHOOSE k \in T : \A j \in T : k <= j) \in T
<1> DEFINE R == OpToRel(<, Nat)
<1>1. IsWellFoundedOn(R, Nat)
  BY NatLessThanWellFounded
<1>2. \A x, y \in Nat : y < x => <<y, x>> \in R
  BY DEF OpToRel
<1> HIDE DEF R
<1>3. PICK x \in T : \A y \in T : ~ (<<y, x>> \in R)
  BY <1>1, WFMin
<1>4. ASSUME NEW y \in T PROVE x <= y
  <2>1. x \in Nat /\ y \in Nat /\ ~ (<<y, x>> \in R)
    BY <1>3
  <2> QED
    BY <1>2, <2>1
<1> QED
  BY <1>4

\* One diff moves, the others stay where they are.
LEMMA Moves ==
    ASSUME BindTypeOK, NEW d \in Diff, NEW c \in DiffState, Goto(d, c)
    PROVE  /\ diff' \in [Diff -> DiffState]
           /\ diff'[d] = c
           /\ \A e \in Diff : e # d => diff'[e] = diff[e]
  BY DEF BindTypeOK, Goto

\* The value of a diff that has bound its first node: the name is in its map, and the
\* next node, or the buffering, comes next.
Bound(x) == NodeOrMark([x EXCEPT !.map[Head(x.todo)] = x.name, !.todo = Tail(@)])

\* _execute_topic_binding_plan goes on behind the node that was bound.
LEMMA BoundFields ==
    ASSUME NEW x \in DiffState, x.todo # <<>>
    PROVE  /\ Bound(x) \in DiffState
           /\ Bound(x).pc \in {"mark", "plan"}
           /\ Bound(x).todo = Tail(x.todo) /\ Bound(x).seen = x.seen
           /\ Bound(x).map = [x.map EXCEPT ![Head(x.todo)] = x.name]
           /\ Bound(x).event = x.event /\ Head(x.todo) \in Node
<1>1. /\ x.todo \in Seq(Node) /\ x.map \in [Node -> Name \cup {None}] /\ x.name \in Name \cup {None}
      /\ x.pc \in {"new", "plan", "list", "create", "bind", "mark", "weigh", "publish", "done", "failed"}
      /\ x.seen \in [Node -> Record \cup {None}] /\ x.taken \in SUBSET Name
      /\ x.late \in SUBSET Node /\ x.event \in Weight \cup {None}
  BY DEF DiffState
<1>2. Tail(x.todo) \in Seq(Node) /\ Head(x.todo) \in Node
  BY <1>1
<1> DEFINE m == [x.map EXCEPT ![Head(x.todo)] = x.name]
<1>3. m \in [Node -> Name \cup {None}]
  BY <1>1
<1> HIDE DEF m
<1> DEFINE y == [x EXCEPT !.map = m, !.todo = Tail(@)]
           p == IF Tail(x.todo) = <<>> THEN "mark" ELSE "plan"
<1>4. /\ y \in DiffState /\ y.todo = Tail(x.todo) /\ y.seen = x.seen /\ y.map = m /\ y.event = x.event
      /\ y = [x EXCEPT !.map[Head(x.todo)] = x.name, !.todo = Tail(@)]
  BY <1>1, <1>2, <1>3 DEF DiffState, m
<1>5. Bound(x) = [y EXCEPT !.pc = p, !.name = None, !.taken = {}] /\ p \in {"mark", "plan"}
  BY <1>4 DEF Bound, NodeOrMark
<1> HIDE DEF y, p
<1> QED
  BY <1>2, <1>4, <1>5 DEF DiffState, m

\* A diff that works on a node has one, and one that creates or binds a topic has a name.
BindFrame ==
    \A d \in Diff :
        /\ diff[d].pc \in {"list", "create", "bind"} => diff[d].todo # <<>>
        /\ diff[d].pc \in {"create", "bind"} => diff[d].name \in Name

\* Only d moves: the frame of the others is as it was.
LEMMA FrameMoves ==
    ASSUME BindTypeOK, BindFrame, NEW d \in Diff, NEW c \in DiffState, Goto(d, c),
           c.pc \in {"list", "create", "bind"} => c.todo # <<>>,
           c.pc \in {"create", "bind"} => c.name \in Name
    PROVE  diff' \in [Diff -> DiffState] /\ BindFrame'
<1>1. /\ diff' \in [Diff -> DiffState] /\ diff'[d] = c
      /\ \A e \in Diff : e # d => diff'[e] = diff[e]
  BY Moves
<1> QED
  BY <1>1 DEF BindFrame

\* Every access of a diff to the graph, to Kafka or to the ControlBus keeps the types.
LEMMA DiffStepTypes ==
    ASSUME BindTypeOK, BindFrame, NEW d \in Diff, DiffStep(d)
    PROVE  BindTypeOK' /\ BindFrame'
<1>1. diff[d] \in DiffState /\ request[d] \in Request /\ request \in Requests
  BY BindingConstants DEF BindTypeOK
<1>2. NewDiff \in DiffState
  BY DEF NewDiff, DiffState
<1>3. ASSUME Fetch(d) PROVE BindTypeOK' /\ BindFrame'
  <2> DEFINE c == [NewDiff EXCEPT !.pc = "plan", !.todo = request[d].nodes, !.seen = graph]
  <2>1. c \in DiffState /\ c.pc = "plan"
    BY <1>1, <1>2 DEF DiffState, Request, BindTypeOK, NewDiff
  <2>2. Goto(d, c)
    BY <1>3 DEF Fetch
  <2> HIDE DEF c
  <2>3. diff' \in [Diff -> DiffState] /\ BindFrame'
    BY <2>1, <2>2, FrameMoves
  <2> QED
    BY <1>3, <2>3 DEF Fetch, BindTypeOK
<1>4. ASSUME PlanFails(d) PROVE BindTypeOK' /\ BindFrame'
  <2> DEFINE c == [diff[d] EXCEPT !.pc = "failed"]
  <2>1. c \in DiffState /\ c.pc = "failed" /\ Goto(d, c)
    BY <1>1, <1>4 DEF DiffState, PlanFails
  <2> HIDE DEF c
  <2>3. diff' \in [Diff -> DiffState] /\ BindFrame'
    BY <2>1, FrameMoves
  <2> QED
    BY <1>4, <2>3 DEF PlanFails, BindTypeOK
<1>5. ASSUME PlanNode(d) PROVE BindTypeOK' /\ BindFrame'
  <2> DEFINE n == First(d)
             r == diff[d].seen[n]
             b == IF Reusable(d, n) /\ r.schema # request[d].schema
                  THEN [diff[d] EXCEPT !.late = @ \cup {n}] ELSE diff[d]
             c == IF Reusable(d, n) /\ (Space(d) = None \/ r.topic.space = Space(d))
                  THEN [b EXCEPT !.pc = "bind", !.name = r.topic] ELSE [b EXCEPT !.pc = "list"]
  <2>1. n \in Node /\ r \in Record \cup {None} /\ diff[d].todo # <<>>
    BY <1>1, <1>5 DEF PlanNode, First, DiffState
  <2>2. Reusable(d, n) => r.topic \in Name
    BY <2>1 DEF Reusable, Record
  <2>3. Goto(d, c)
    BY <1>5 DEF PlanNode
  <2> HIDE DEF n, r
  <2>4. b \in DiffState /\ b.todo = diff[d].todo
    BY <1>1, <2>1 DEF DiffState
  <2> HIDE DEF b
  <2>5. /\ c \in DiffState /\ c.todo # <<>> /\ c.pc \in {"bind", "list"}
        /\ c.pc = "bind" => c.name \in Name
    <3>1. CASE Reusable(d, n) /\ (Space(d) = None \/ r.topic.space = Space(d))
      BY <2>1, <2>2, <2>4, <3>1 DEF DiffState
    <3>2. CASE ~(Reusable(d, n) /\ (Space(d) = None \/ r.topic.space = Space(d)))
      BY <2>1, <2>2, <2>4, <3>2 DEF DiffState
    <3> QED
      BY <3>1, <3>2
  <2> HIDE DEF c
  <2>6. diff' \in [Diff -> DiffState] /\ BindFrame'
    BY <2>3, <2>5, FrameMoves
  <2> QED
    BY <1>5, <2>6 DEF PlanNode, BindTypeOK
<1>6. ASSUME ListTopics(d) PROVE BindTypeOK' /\ BindFrame'
  <2> DEFINE free == {k \in 0..Attempts :
                        [node |-> First(d), space |-> Space(d), grown |-> k] \notin DOMAIN topics}
             least == CHOOSE k \in free : \A j \in free : k <= j
             name == [node |-> First(d), space |-> Space(d), grown |-> least]
             fail == [diff[d] EXCEPT !.pc = "failed"]
             c == [diff[d] EXCEPT !.pc = "create", !.taken = DOMAIN topics, !.name = name]
  <2>1. IF free = {} \/ kafka.open THEN Goto(d, fail) ELSE Goto(d, c)
    BY <1>6 DEF ListTopics
  <2>2. diff[d].todo # <<>> /\ First(d) \in Node
    BY <1>1, <1>6 DEF ListTopics, Is, BindFrame, First, DiffState
  <2>3. Space(d) \in Context \cup {None}
    BY <1>1 DEF Space, Ctx, Request
  <2>4. free # {} => least \in 0..Attempts
    <3>1. free \subseteq Nat /\ free \subseteq 0..Attempts
      BY BindingConstants
    <3> HIDE DEF free
    <3> QED
      BY <3>1, FirstFree
  <2> HIDE DEF least, free
  <2>5. free # {} => name \in Name
    BY <2>2, <2>3, <2>4 DEF Name
  <2> HIDE DEF name
  <2>6. fail \in DiffState /\ fail.pc = "failed"
    BY <1>1 DEF DiffState
  <2>7. free # {} => c \in DiffState /\ c.pc = "create" /\ c.todo # <<>> /\ c.name \in Name
    BY <1>1, <2>2, <2>5 DEF DiffState, BindTypeOK
  <2> HIDE DEF c, fail
  <2>8. diff' \in [Diff -> DiffState] /\ BindFrame'
    BY <2>1, <2>6, <2>7, FrameMoves
  <2> QED
    BY <1>6, <2>8 DEF ListTopics, BindTypeOK
<1>7. ASSUME CreateTopic(d) PROVE BindTypeOK' /\ BindFrame'
  <2>1. diff[d].todo # <<>> /\ diff[d].name \in Name
    BY <1>7 DEF CreateTopic, Is, BindFrame
  <2> DEFINE fail == [diff[d] EXCEPT !.pc = "failed"]
             c == [diff[d] EXCEPT !.pc = "bind"]
  <2>2. /\ fail \in DiffState /\ fail.pc = "failed"
        /\ c \in DiffState /\ c.pc = "bind" /\ c.todo # <<>> /\ c.name \in Name
    BY <1>1, <2>1 DEF DiffState
  <2>3. Goto(d, c) \/ Goto(d, fail)
    BY <1>7 DEF CreateTopic
  <2> HIDE DEF c, fail
  <2>4. diff' \in [Diff -> DiffState] /\ BindFrame'
    BY <2>2, <2>3, FrameMoves
  <2>5. DOMAIN topics' \subseteq Name /\ \A t \in DOMAIN topics' : topics'[t] \in BOOLEAN
    BY <1>7, <2>1 DEF CreateTopic, BindTypeOK
  <2>6. kafka' \in [failures : Nat, open : BOOLEAN]
    <3>1. kafka.failures + 1 \in Nat /\ (kafka.open \/ kafka.failures + 1 >= MaxKafkaFailures) \in BOOLEAN
      BY DEF BindTypeOK
    <3>2. CASE kafka' = [kafka EXCEPT !.failures = 0]
      BY <3>2 DEF BindTypeOK
    <3>3. CASE kafka' = [failures |-> kafka.failures + 1,
                         open |-> kafka.open \/ kafka.failures + 1 >= MaxKafkaFailures]
      BY <3>1, <3>3
    <3> QED
      BY <1>7, <3>2, <3>3 DEF CreateTopic
  <2>7. lapses' \in [create : Nat, bind : Nat, publish : Nat]
    <3>1. lapses' = lapses \/ lapses' = [lapses EXCEPT !.create = @ + 1]
      BY <1>7 DEF CreateTopic
    <3> QED
      BY <3>1 DEF BindTypeOK
  <2> QED
    BY <1>7, <2>4, <2>5, <2>6, <2>7 DEF CreateTopic, BindTypeOK
<1>8. ASSUME BindNode(d) PROVE BindTypeOK' /\ BindFrame'
  <2>1. diff[d].todo # <<>>
    BY <1>8 DEF BindNode, Is, BindFrame
  <2>2. Goto(d, Bound(diff[d]))
    BY <1>8 DEF BindNode, Bound, First
  <2>3. Bound(diff[d]) \in DiffState /\ Bound(diff[d]).pc \in {"mark", "plan"} /\ First(d) \in Node
    BY <1>1, <2>1, BoundFields DEF First
  <2>4. diff' \in [Diff -> DiffState] /\ BindFrame'
    BY <2>2, <2>3, FrameMoves
  <2>5. graph' \in [Node -> Record \cup {None}]
    <3>1. graph[First(d)] \in Record \cup {None} /\ Ctx(d) \in Context
      BY <1>1, <2>3 DEF BindTypeOK, Ctx, Request
    <3>2. \A r \in Record \cup {None} : WithKey(r, Ctx(d)) \in Record \cup {None}
      BY <3>1 DEF Record, WithKey
    <3>3. graph' = graph \/ graph' = [graph EXCEPT ![First(d)] = WithKey(graph[First(d)], Ctx(d))]
      BY <1>8 DEF BindNode
    <3> QED
      BY <2>3, <3>1, <3>2, <3>3 DEF BindTypeOK
  <2>6. lapses' \in [create : Nat, bind : Nat, publish : Nat]
    BY <1>8 DEF BindNode, BindTypeOK
  <2> QED
    BY <1>8, <2>4, <2>5, <2>6 DEF BindNode, BindTypeOK
<1>9. ASSUME MarkBuffering(d) PROVE BindTypeOK' /\ BindFrame'
  <2> DEFINE c == [diff[d] EXCEPT !.pc = "weigh"]
  <2>1. c \in DiffState /\ c.pc = "weigh" /\ Goto(d, c)
    BY <1>1, <1>9 DEF DiffState, MarkBuffering
  <2> HIDE DEF c
  <2>2. diff' \in [Diff -> DiffState] /\ BindFrame'
    BY <2>1, FrameMoves
  <2>3. graph' \in [Node -> Record \cup {None}]
    <3>1. ASSUME NEW r \in Record PROVE [r EXCEPT !.buffering = TRUE] \in Record
      BY DEF Record
    <3> QED
      BY <1>9, <3>1 DEF MarkBuffering, BindTypeOK
  <2> QED
    BY <1>9, <2>2, <2>3 DEF MarkBuffering, BindTypeOK
<1>10. ASSUME RecordWeight(d) PROVE BindTypeOK' /\ BindFrame'
  <2> DEFINE w == request[d].weight
             c == [diff[d] EXCEPT !.pc = "publish"]
             e == [diff[d] EXCEPT !.pc = "publish", !.event = w]
  <2>1. w \in Weight \cup {None}
    BY <1>1 DEF Request
  <2>2. IF w = None \/ w = weights THEN Goto(d, c) /\ UNCHANGED weights ELSE Goto(d, e) /\ weights' = w
    BY <1>10 DEF RecordWeight
  <2> HIDE DEF w
  <2>3. c \in DiffState /\ c.pc = "publish" /\ e \in DiffState /\ e.pc = "publish"
    BY <1>1, <2>1 DEF DiffState
  <2> HIDE DEF c, e
  <2>4. diff' \in [Diff -> DiffState] /\ BindFrame'
    BY <2>2, <2>3, FrameMoves
  <2>5. weights' \in Weight \cup {None}
    BY <2>1, <2>2 DEF BindTypeOK
  <2> QED
    BY <1>10, <2>4, <2>5 DEF RecordWeight, BindTypeOK
<1>11. ASSUME PublishWeight(d) PROVE BindTypeOK' /\ BindFrame'
  <2> DEFINE c == [diff[d] EXCEPT !.pc = "done", !.event = None]
             e == [diff[d] EXCEPT !.pc = "failed", !.event = None]
  <2>1. c \in DiffState /\ c.pc = "done" /\ e \in DiffState /\ e.pc = "failed"
    BY <1>1 DEF DiffState
  <2>2. Goto(d, c) \/ Goto(d, e)
    BY <1>11 DEF PublishWeight
  <2> HIDE DEF c, e
  <2>3. diff' \in [Diff -> DiffState] /\ BindFrame'
    BY <2>1, <2>2, FrameMoves
  <2>4. published' \in Seq(Weight)
    <3>1. diff[d].event # None => diff[d].event \in Weight
      BY <1>1 DEF DiffState
    <3> QED
      BY <1>11, <3>1 DEF PublishWeight, BindTypeOK
  <2>5. lapses' \in [create : Nat, bind : Nat, publish : Nat]
    BY <1>11 DEF PublishWeight, BindTypeOK
  <2> QED
    BY <1>11, <2>3, <2>4, <2>5 DEF PublishWeight, BindTypeOK
<1> QED
  BY <1>3, <1>4, <1>5, <1>6, <1>7, <1>8, <1>9, <1>10, <1>11 DEF DiffStep

\* So do the collector, the buffering scheduler and the passing of time.
LEMMA BindStepTypes ==
    BindTypeOK /\ BindFrame /\ [BindNext]_bindVars => BindTypeOK' /\ BindFrame'
<1> SUFFICES ASSUME BindTypeOK, BindFrame, [BindNext]_bindVars PROVE BindTypeOK' /\ BindFrame'
  OBVIOUS
<1>1. ASSUME NEW d \in Diff, DiffStep(d) PROVE BindTypeOK' /\ BindFrame'
  BY <1>1, DiffStepTypes
<1>2. ASSUME NEW t \in DOMAIN topics, Age(t) PROVE BindTypeOK' /\ BindFrame'
  BY <1>2 DEF Age, BindTypeOK, BindFrame
<1>3. ASSUME NEW t \in DOMAIN topics, DropTopic(t) PROVE BindTypeOK' /\ BindFrame'
  BY <1>3 DEF DropTopic, BindTypeOK, BindFrame
<1>4. ASSUME ListOrphans PROVE BindTypeOK' /\ BindFrame'
  BY <1>4 DEF ListOrphans, BindTypeOK, BindFrame
<1>5. ASSUME NEW n \in Node, ClearBuffering(n) PROVE BindTypeOK' /\ BindFrame'
  <2>1. ASSUME NEW r \in Record PROVE [r EXCEPT !.buffering = FALSE] \in Record
    BY DEF Record
  <2>2. graph' \in [Node -> Record \cup {None}]
    BY <1>5, <2>1 DEF ClearBuffering, BindTypeOK
  <2> QED
    BY <1>5, <2>2 DEF ClearBuffering, BindTypeOK, BindFrame
<1>6. ASSUME UNCHANGED bindVars PROVE BindTypeOK' /\ BindFrame'
  BY <1>6 DEF bindVars, BindTypeOK, BindFrame
<1> QED
  BY <1>1, <1>2, <1>3, <1>4, <1>5, <1>6 DEF BindNext

\* The graph is of its type at the start, and no diff has begun.
LEMMA BindInitTypes == BindInit => BindTypeOK /\ BindFrame
<1> SUFFICES ASSUME BindInit PROVE BindTypeOK /\ BindFrame
  OBVIOUS
<1>1. graph \in [Node -> Record \cup {None}] /\ request \in Requests
  BY BindingConstants DEF BindInit
<1>2. DOMAIN topics \subseteq Name /\ \A t \in DOMAIN topics : topics[t] \in BOOLEAN
  <2>1. DOMAIN topics = {graph[n].topic : n \in {m \in Node : graph[m] # None}} /\ \A t \in DOMAIN topics : topics[t] = TRUE
    BY DEF BindInit
  <2>2. \A n \in Node : graph[n] # None => graph[n].topic \in Name
    BY <1>1 DEF Record
  <2> QED
    BY <2>1, <2>2
<1>3. NewDiff \in DiffState /\ NewDiff.pc = "new"
  BY DEF NewDiff, DiffState
<1>4. diff \in [Diff -> DiffState] /\ \A d \in Diff : diff[d] = NewDiff
  BY <1>3 DEF BindInit
<1>5. BindFrame
  BY <1>3, <1>4 DEF BindFrame
<1>6. kafka \in [failures : Nat, open : BOOLEAN] /\ lapses \in [create : Nat, bind : Nat, publish : Nat]
  BY DEF BindInit
<1>7. weights \in Weight \cup {None} /\ published \in Seq(Weight) /\ gc \subseteq Name /\ overlap \in BOOLEAN
  <2>1. weights = None /\ published = <<>> /\ gc = {} /\ overlap = FALSE
    BY DEF BindInit
  <2>2. published \in Seq(Weight)
    BY <2>1
  <2>3. weights \in Weight \cup {None} /\ gc \subseteq Name /\ overlap \in BOOLEAN
    BY <2>1
  <2> QED
    BY <2>2, <2>3
<1> QED
  BY <1>1, <1>2, <1>4, <1>5, <1>6, <1>7 DEF BindTypeOK

-----------------------------------------------------------------------------
(* The topics in use *)

\* Nodes keep their topic and code, and contexts are only added to them.
GraphKept ==
    \A n \in Node :
        /\ graph'[n] = None <=> graph[n] = None
        /\ graph[n] # None => /\ graph'[n].topic = graph[n].topic
                              /\ graph'[n].code = graph[n].code
                              /\ graph[n].keys \subseteq graph'[n].keys

\* add_compute_binding, the buffering of a node and its end are all that changes the graph.
LEMMA GraphStep == BindTypeOK /\ BindFrame /\ [BindNext]_bindVars => GraphKept
<1> SUFFICES ASSUME BindTypeOK, BindFrame, [BindNext]_bindVars PROVE GraphKept
  OBVIOUS
<1>1. graph \in [Node -> Record \cup {None}] /\ None \notin Record
  BY BindingConstants DEF BindTypeOK
<1>2. CASE graph' = graph
  BY <1>2 DEF GraphKept
<1>3. ASSUME NEW d \in Diff, BindNode(d) PROVE GraphKept
  <2>1. First(d) \in Node
    BY <1>3, BoundFields DEF BindNode, Is, BindFrame, First, BindTypeOK
  <2>2. graph' = graph \/ graph' = [graph EXCEPT ![First(d)] = WithKey(graph[First(d)], Ctx(d))]
    BY <1>3 DEF BindNode
  <2>3. ASSUME NEW r \in Record
        PROVE  /\ WithKey(r, Ctx(d)) # None /\ WithKey(r, Ctx(d)).topic = r.topic
               /\ WithKey(r, Ctx(d)).code = r.code /\ r.keys \subseteq WithKey(r, Ctx(d)).keys
    <3> DEFINE u == [r EXCEPT !.keys = @ \cup {Ctx(d)}]
    <3>1. WithKey(r, Ctx(d)) = u
      BY <1>1 DEF WithKey
    <3>2. u.topic = r.topic /\ u.code = r.code /\ r.keys \subseteq u.keys
      BY DEF Record
    <3>3. u # None
      <4>1. Ctx(d) \in Context
        BY BindingConstants DEF BindTypeOK, Ctx, Request
      <4>2. u \in Record
        BY <4>1 DEF Record
      <4> QED
        BY <1>1, <4>2
    <3> QED
      BY <3>1, <3>2, <3>3
  <2>4. WithKey(None, Ctx(d)) = None
    BY DEF WithKey
  <2> QED
    BY <1>1, <1>2, <2>1, <2>2, <2>3, <2>4 DEF GraphKept
<1>4. ASSUME NEW d \in Diff, MarkBuffering(d) PROVE GraphKept
  <2>1. ASSUME NEW r \in Record
        PROVE  LET u == [r EXCEPT !.buffering = TRUE]
               IN u # None /\ u.topic = r.topic /\ u.code = r.code /\ u.keys = r.keys
    BY <1>1 DEF Record
  <2> QED
    BY <1>1, <1>4, <2>1 DEF MarkBuffering, GraphKept
<1>5. ASSUME NEW n \in Node, ClearBuffering(n) PROVE GraphKept
  <2>1. ASSUME NEW r \in Record
        PROVE  LET u == [r EXCEPT !.buffering = FALSE]
               IN u # None /\ u.topic = r.topic /\ u.code = r.code /\ u.keys = r.keys
    BY <1>1 DEF Record
  <2>2. graph' = [graph EXCEPT ![n] = [graph[n] EXCEPT !.buffering = FALSE]] /\ graph[n] \in Record
    BY <1>1, <1>5 DEF ClearBuffering
  <2> QED
    BY <1>1, <2>1, <2>2 DEF GraphKept
<1>6. ASSUME NEW d \in Diff, DiffStep(d) PROVE GraphKept
  BY <1>2, <1>3, <1>4, <1>6
     DEF DiffStep, Fetch, PlanFails, PlanNode, ListTopics, CreateTopic, RecordWeight, PublishWeight
<1> QED
  BY <1>2, <1>5, <1>6 DEF BindNext, Age, DropTopic, ListOrphans, bindVars

Registered(t) == \E n \in Node : graph[n] # None /\ graph[n].topic = t

\* The collector has no reason to drop t: it is young, or a node emits to it.
Held(t) == t \in DOMAIN topics /\ (~topics[t] \/ Registered(t))

Fresh(t) == t \notin DOMAIN topics \/ ~topics[t]

\* What was fetched of a node is what the graph says, but for its contexts.
SeenTrue(d) ==
    \A n \in Node :
        /\ diff[d].seen[n] = None <=> graph[n] = None
        /\ graph[n] # None => diff[d].seen[n].topic = graph[n].topic /\ diff[d].seen[n].code = graph[n].code

\* Topics that diff d has bound, is about to bind and is about to create.
HoldsTopics(d) ==
    /\ diff[d].pc # "new" => SeenTrue(d)
    /\ Active(d) => \A n \in Node : diff[d].map[n] # None => Held(diff[d].map[n])
    /\ diff[d].pc = "bind" => Held(diff[d].name)
    /\ diff[d].pc = "create" => Fresh(diff[d].name)

GcInv == \A t \in gc : t \in DOMAIN topics /\ topics[t] /\ ~Registered(t)

TopicsInv == GcSparesRegistered /\ GcInv /\ \A d \in Diff : HoldsTopics(d)

\* The collector drops only what nobody holds, and nothing grows old under a diff.
TopicsStay ==
    /\ \A t \in DOMAIN topics : Held(t) => t \in DOMAIN topics' /\ topics'[t] = topics[t]
    /\ \A t : Fresh(t) => t \notin DOMAIN topics' \/ ~topics'[t]

\* What a node emits to does not change.
LEMMA RegisteredStays ==
    ASSUME GraphKept, NEW t
    PROVE  Registered(t)' <=> Registered(t)
  BY DEF GraphKept, Registered

\* What is held stays held.
LEMMA HeldStays ==
    ASSUME GraphKept, TopicsStay, NEW t, Held(t)
    PROVE  Held(t)'
  BY RegisteredStays DEF TopicsStay, Held

\* A diff that does not move holds what it held.
LEMMA OthersHold ==
    ASSUME GraphKept, TopicsStay, NEW e \in Diff, diff'[e] = diff[e], HoldsTopics(e)
    PROVE  HoldsTopics(e)'
<1>1. ASSUME diff[e].pc # "new" PROVE SeenTrue(e)'
  BY <1>1 DEF HoldsTopics, SeenTrue, GraphKept
<1>2. ASSUME Active(e)', NEW n \in Node, diff'[e].map[n] # None PROVE Held(diff[e].map[n])'
  <2>1. \A t : t = diff[e].map[n] => Held(t)
    BY <1>2 DEF HoldsTopics, Active
  <2>2. \A t : t = diff[e].map[n] => Held(t)'
    BY <2>1, HeldStays
  <2> QED
    BY <2>2
<1>3. ASSUME diff'[e].pc = "bind" PROVE Held(diff[e].name)'
  <2>1. \A t : t = diff[e].name => Held(t)
    BY <1>3 DEF HoldsTopics
  <2>2. \A t : t = diff[e].name => Held(t)'
    BY <2>1, HeldStays
  <2> QED
    BY <2>2
<1>4. ASSUME diff'[e].pc = "create" PROVE Fresh(diff[e].name)'
  <2>1. \A t : t = diff[e].name => Fresh(t)
    BY <1>4 DEF HoldsTopics
  <2>2. \A t : t = diff[e].name => Fresh(t)'
    BY <2>1 DEF TopicsStay, Fresh
  <2> QED
    BY <2>2
<1> QED
  BY <1>1, <1>2, <1>3, <1>4 DEF HoldsTopics

\* Topics of a world in which one diff has moved.
LEMMA TopicsMove ==
    ASSUME TopicsInv, GraphKept, TopicsStay, NEW d \in Diff, GcInv',
           \A e \in Diff : e # d => diff'[e] = diff[e], HoldsTopics(d)'
    PROVE  TopicsInv'
<1>1. GcSparesRegistered'
  <2> SUFFICES ASSUME NEW n \in Node, graph'[n] # None PROVE graph'[n].topic \in DOMAIN topics'
    BY DEF GcSparesRegistered
  <2>1. graph[n] # None /\ graph'[n].topic = graph[n].topic
    BY DEF GraphKept
  <2>2. Held(graph[n].topic)
    BY <2>1 DEF TopicsInv, GcSparesRegistered, Held, Registered
  <2> QED
    BY <2>1, <2>2 DEF TopicsStay, Held
<1>2. ASSUME NEW e \in Diff PROVE HoldsTopics(e)'
  BY OthersHold DEF TopicsInv
<1> QED
  BY <1>1, <1>2 DEF TopicsInv

\* Where neither topics nor graph nor the collector's list change, a diff that moves has
\* to answer for itself alone.
LEMMA TopicsSame ==
    ASSUME TopicsInv, GraphKept, NEW d \in Diff, UNCHANGED <<topics, gc>>,
           \A e \in Diff : e # d => diff'[e] = diff[e], HoldsTopics(d)'
    PROVE  TopicsInv'
<1>1. TopicsStay
  BY DEF TopicsStay, Fresh, Held
<1>2. GcInv'
  BY RegisteredStays DEF GcInv, TopicsInv
<1> QED
  BY <1>1, <1>2, TopicsMove

\* Every access of a diff keeps the topics: it binds one that the graph registers or that
\* is too young for the collector, and creates only what was free.
LEMMA DiffStepTopics ==
    ASSUME BindTypeOK, BindFrame, TopicsInv, GraphKept, NEW d \in Diff, DiffStep(d)
    PROVE  TopicsInv'
<1>1. diff[d] \in DiffState /\ HoldsTopics(d) /\ diff' \in [Diff -> DiffState]
  BY DiffStepTypes DEF BindTypeOK, TopicsInv
<1>2. ASSUME NEW c, Goto(d, c) PROVE diff'[d] = c /\ \A e \in Diff : e # d => diff'[e] = diff[e]
  BY <1>2 DEF Goto, BindTypeOK
<1>3. ASSUME NEW t, Held(t), UNCHANGED topics PROVE Held(t)'
  BY <1>3, RegisteredStays DEF Held
<1>4. ASSUME UNCHANGED <<topics, gc>>, NEW c \in DiffState, Goto(d, c), c.seen = diff[d].seen,
             c.map = diff[d].map, diff[d].pc # "new", Active(d),
             c.pc = "bind" => Held(c.name), c.pc = "create" => Fresh(c.name)
      PROVE  TopicsInv'
  <2>1. diff'[d] = c /\ \A e \in Diff : e # d => diff'[e] = diff[e]
    BY <1>4, <1>2
  <2>2. SeenTrue(d)'
    BY <1>1, <1>4, <2>1 DEF HoldsTopics, SeenTrue, GraphKept
  <2>3. ASSUME NEW n \in Node, c.map[n] # None PROVE \A t : t = c.map[n] => Held(t)'
    BY <1>1, <1>3, <1>4, <2>3 DEF HoldsTopics
  <2>4. c.pc = "bind" => \A t : t = c.name => Held(t)'
    BY <1>3, <1>4
  <2>5. c.pc = "create" => \A t : t = c.name => Fresh(t)'
    BY <1>4 DEF Fresh
  <2>6. HoldsTopics(d)'
    BY <2>1, <2>2, <2>3, <2>4, <2>5 DEF HoldsTopics
  <2> QED
    BY <1>4, <2>1, <2>6, TopicsSame
<1>5. ASSUME Fetch(d) PROVE TopicsInv'
  <2> DEFINE c == [NewDiff EXCEPT !.pc = "plan", !.todo = request[d].nodes, !.seen = graph]
  <2>1. c.pc = "plan" /\ c.seen = graph /\ \A n \in Node : c.map[n] = None
    BY DEF NewDiff
  <2>2. Goto(d, c) /\ graph' = graph /\ UNCHANGED <<topics, gc>>
    BY <1>5 DEF Fetch
  <2> HIDE DEF c
  <2>3. diff'[d] = c /\ \A e \in Diff : e # d => diff'[e] = diff[e]
    BY <1>2, <2>2
  <2>4. HoldsTopics(d)'
    BY <2>1, <2>2, <2>3 DEF HoldsTopics, SeenTrue
  <2> QED
    BY <2>2, <2>3, <2>4, TopicsSame
<1>6. ASSUME PlanFails(d) PROVE TopicsInv'
  <2> DEFINE c == [diff[d] EXCEPT !.pc = "failed"]
  <2>1. c \in DiffState /\ c.pc = "failed" /\ c.seen = diff[d].seen /\ c.map = diff[d].map
    BY <1>1 DEF DiffState
  <2>2. Goto(d, c) /\ UNCHANGED <<topics, gc>> /\ Active(d) /\ diff[d].pc # "new"
    BY <1>6 DEF PlanFails, Is, Active
  <2> HIDE DEF c
  <2> QED
    BY <1>4, <2>1, <2>2
<1>7. ASSUME PlanNode(d) PROVE TopicsInv'
  <2> DEFINE n == First(d)
             r == diff[d].seen[n]
             b == IF Reusable(d, n) /\ r.schema # request[d].schema
                  THEN [diff[d] EXCEPT !.late = @ \cup {n}] ELSE diff[d]
             c == IF Reusable(d, n) /\ (Space(d) = None \/ r.topic.space = Space(d))
                  THEN [b EXCEPT !.pc = "bind", !.name = r.topic] ELSE [b EXCEPT !.pc = "list"]
  <2>1. n \in Node /\ r \in Record \cup {None}
    BY <1>1, <1>7 DEF PlanNode, First, DiffState
  <2>2. Reusable(d, n) => r.topic \in Name /\ r # None
    BY <2>1 DEF Reusable, Record
  <2>3. Goto(d, c) /\ UNCHANGED <<topics, gc>> /\ Active(d) /\ diff[d].pc # "new"
    BY <1>7 DEF PlanNode, Is, Active
  <2>4. Reusable(d, n) => Held(r.topic)
    <3>1. SeenTrue(d)
      BY <1>1, <2>3 DEF HoldsTopics
    <3>2. r # None => graph[n] # None /\ graph[n].topic = r.topic
      BY <2>1, <3>1 DEF SeenTrue
    <3> QED
      BY <2>1, <2>2, <3>2 DEF Held, Registered, TopicsInv, GcSparesRegistered
  <2> HIDE DEF n, r
  <2>5. b \in DiffState /\ b.seen = diff[d].seen /\ b.map = diff[d].map
    BY <1>1, <2>1 DEF DiffState
  <2> HIDE DEF b
  <2>6. /\ c \in DiffState /\ c.seen = diff[d].seen /\ c.map = diff[d].map
        /\ c.pc = "list" \/ (c.pc = "bind" /\ c.name = r.topic /\ Reusable(d, n))
    <3>1. CASE Reusable(d, n) /\ (Space(d) = None \/ r.topic.space = Space(d))
      BY <2>1, <2>2, <2>5, <3>1 DEF DiffState
    <3>2. CASE ~(Reusable(d, n) /\ (Space(d) = None \/ r.topic.space = Space(d)))
      BY <2>1, <2>2, <2>5, <3>2 DEF DiffState
    <3> QED
      BY <3>1, <3>2
  <2> HIDE DEF c
  <2>7. c.pc # "create" /\ (c.pc = "bind" => Held(c.name))
    BY <2>4, <2>6
  <2> QED
    BY <1>4, <2>3, <2>6, <2>7
<1>8. ASSUME ListTopics(d) PROVE TopicsInv'
  <2> DEFINE nm(k) == [node |-> First(d), space |-> Space(d), grown |-> k]
             free == {k \in 0..Attempts : nm(k) \notin DOMAIN topics}
             least == CHOOSE k \in free : \A j \in free : k <= j
             fail == [diff[d] EXCEPT !.pc = "failed"]
             c == [diff[d] EXCEPT !.pc = "create", !.taken = DOMAIN topics, !.name = nm(least)]
  <2>1. IF free = {} \/ kafka.open THEN Goto(d, fail) ELSE Goto(d, c)
    BY <1>8 DEF ListTopics
  <2>2. UNCHANGED <<topics, gc>> /\ Active(d) /\ diff[d].pc # "new"
    BY <1>8 DEF ListTopics, Is, Active
  <2>3. free # {} => least \in 0..Attempts /\ nm(least) \notin DOMAIN topics
    <3>1. free \subseteq Nat /\ \A k \in free : k \in 0..Attempts /\ nm(k) \notin DOMAIN topics
      BY BindingConstants
    <3> HIDE DEF free, nm
    <3>2. free # {} => least \in free
      BY <3>1, FirstFree
    <3> QED
      BY <3>1, <3>2
  <2> HIDE DEF least, free
  <2>4. free # {} => nm(least) \in Name
    <3>1. diff[d].todo # <<>> /\ First(d) \in Node
      BY <1>1, <1>8 DEF ListTopics, Is, BindFrame, First, DiffState
    <3>2. Space(d) \in Context \cup {None}
      BY BindingConstants DEF BindTypeOK, Space, Ctx, Request
    <3> QED
      BY <2>3, <3>1, <3>2 DEF Name
  <2> HIDE DEF nm
  <2>5. fail \in DiffState /\ fail.pc = "failed" /\ fail.seen = diff[d].seen /\ fail.map = diff[d].map
    BY <1>1 DEF DiffState
  <2>6. free # {} => /\ c \in DiffState /\ c.pc = "create" /\ c.name = nm(least)
                     /\ c.seen = diff[d].seen /\ c.map = diff[d].map
    BY <1>1, <2>4 DEF DiffState, BindTypeOK
  <2>7. free # {} => Fresh(nm(least))
    BY <2>3 DEF Fresh
  <2> HIDE DEF c, fail
  <2>8. CASE free = {} \/ kafka.open
    BY <1>4, <2>1, <2>2, <2>5, <2>8
  <2>9. CASE ~(free = {} \/ kafka.open)
    BY <1>4, <2>1, <2>2, <2>6, <2>7, <2>9
  <2> QED
    BY <2>8, <2>9
<1>9. ASSUME CreateTopic(d) PROVE TopicsInv'
  <2> DEFINE fail == [diff[d] EXCEPT !.pc = "failed"]
             c == [diff[d] EXCEPT !.pc = "bind"]
             name == diff[d].name
  <2>1. /\ fail \in DiffState /\ fail.pc = "failed" /\ fail.seen = diff[d].seen /\ fail.map = diff[d].map
        /\ c \in DiffState /\ c.pc = "bind" /\ c.name = name
        /\ c.seen = diff[d].seen /\ c.map = diff[d].map
    BY <1>1 DEF DiffState
  <2>2. /\ \/ Goto(d, fail) /\ UNCHANGED topics
           \/ /\ Goto(d, c) \/ Goto(d, fail)
              /\ topics' = [t \in DOMAIN topics \cup {name} |->
                               IF t \in DOMAIN topics THEN topics[t] ELSE FALSE]
        /\ UNCHANGED gc /\ Active(d) /\ diff[d].pc = "create" /\ Fresh(name)
    BY <1>1, <1>9 DEF CreateTopic, Is, Active, HoldsTopics
  <2> HIDE DEF fail, c, name
  <2>3. CASE Goto(d, fail) /\ UNCHANGED topics
    BY <1>4, <2>1, <2>2, <2>3
  <2>4. ASSUME NEW u \in {c, fail}, Goto(d, u),
               topics' = [t \in DOMAIN topics \cup {name} |->
                            IF t \in DOMAIN topics THEN topics[t] ELSE FALSE]
        PROVE  TopicsInv'
    <3>0. /\ u \in DiffState /\ u.seen = diff[d].seen /\ u.map = diff[d].map
          /\ u.pc \in {"bind", "failed"} /\ (u.pc = "bind" => u.name = name)
      BY <2>1
    <3>1. diff'[d] = u /\ \A e \in Diff : e # d => diff'[e] = diff[e]
      BY <1>2, <2>4
    <3>2. TopicsStay
      BY <2>4 DEF TopicsStay, Fresh
    <3>3. GcInv'
      BY <2>2, <2>4, RegisteredStays DEF GcInv, TopicsInv
    <3>4. \A t : t = name => Held(t)'
      BY <2>2, <2>4 DEF Fresh, Held
    <3>5. ASSUME NEW n \in Node, u.map[n] # None PROVE \A t : t = u.map[n] => Held(t)'
      <4>1. \A t : t = u.map[n] => Held(t)
        BY <1>1, <2>2, <3>0, <3>5 DEF HoldsTopics
      <4> QED
        BY <3>2, <4>1, HeldStays
    <3>6. SeenTrue(d)'
      BY <1>1, <2>2, <3>0, <3>1 DEF HoldsTopics, SeenTrue, GraphKept
    <3>7. HoldsTopics(d)'
      BY <3>0, <3>1, <3>4, <3>5, <3>6 DEF HoldsTopics
    <3> QED
      BY <3>0, <3>1, <3>2, <3>3, <3>7, TopicsMove
  <2> QED
    BY <2>2, <2>3, <2>4
<1>10. ASSUME BindNode(d) PROVE TopicsInv'
  <2> DEFINE c == Bound(diff[d])
             m == First(d)
  <2>1. diff[d].pc = "bind" /\ diff[d].todo # <<>> /\ Held(diff[d].name) /\ UNCHANGED <<topics, gc>>
    BY <1>1, <1>10 DEF BindNode, Is, BindFrame, HoldsTopics
  <2>2. Goto(d, c)
    BY <1>10 DEF BindNode, Bound, First
  <2>3. /\ c \in DiffState /\ c.pc \in {"mark", "plan"} /\ c.seen = diff[d].seen /\ m \in Node
        /\ c.map = [diff[d].map EXCEPT ![m] = diff[d].name]
    BY <1>1, <2>1, BoundFields DEF First
  <2> HIDE DEF c, m
  <2>4. diff'[d] = c /\ \A e \in Diff : e # d => diff'[e] = diff[e]
    BY <1>2, <2>2
  <2>5. SeenTrue(d)'
    BY <1>1, <2>1, <2>3, <2>4 DEF HoldsTopics, SeenTrue, GraphKept
  <2>6. ASSUME NEW n \in Node, c.map[n] # None PROVE \A t : t = c.map[n] => Held(t)'
    <3>1. c.map[n] = diff[d].name \/ c.map[n] = diff[d].map[n]
      BY <1>1, <2>3 DEF DiffState
    <3>2. Active(d)
      BY <2>1 DEF Active
    <3>3. \A t : t = c.map[n] => Held(t)
      BY <1>1, <2>1, <2>6, <3>1, <3>2 DEF HoldsTopics
    <3> QED
      BY <1>3, <2>1, <3>3
  <2>7. HoldsTopics(d)'
    BY <2>3, <2>4, <2>5, <2>6 DEF HoldsTopics
  <2> QED
    BY <2>1, <2>4, <2>7, TopicsSame
<1>11. ASSUME MarkBuffering(d) PROVE TopicsInv'
  <2> DEFINE c == [diff[d] EXCEPT !.pc = "weigh"]
  <2>1. c \in DiffState /\ c.pc = "weigh" /\ c.seen = diff[d].seen /\ c.map = diff[d].map
    BY <1>1 DEF DiffState
  <2>2. Goto(d, c) /\ UNCHANGED <<topics, gc>> /\ Active(d) /\ diff[d].pc # "new"
    BY <1>11 DEF MarkBuffering, Is, Active
  <2> HIDE DEF c
  <2> QED
    BY <1>4, <2>1, <2>2
<1>12. ASSUME RecordWeight(d) PROVE TopicsInv'
  <2> DEFINE w == request[d].weight
             c == [diff[d] EXCEPT !.pc = "publish"]
             e == [diff[d] EXCEPT !.pc = "publish", !.event = w]
  <2>1. w \in Weight \cup {None}
    BY BindingConstants DEF BindTypeOK, Request
  <2>2. Goto(d, c) \/ Goto(d, e)
    BY <1>12 DEF RecordWeight
  <2>3. UNCHANGED <<topics, gc>> /\ Active(d) /\ diff[d].pc # "new"
    BY <1>12 DEF RecordWeight, Is, Active
  <2> HIDE DEF w
  <2>4. /\ c \in DiffState /\ c.pc = "publish" /\ c.seen = diff[d].seen /\ c.map = diff[d].map
        /\ e \in DiffState /\ e.pc = "publish" /\ e.seen = diff[d].seen /\ e.map = diff[d].map
    BY <1>1, <2>1 DEF DiffState
  <2> HIDE DEF c, e
  <2> QED
    BY <1>4, <2>2, <2>3, <2>4
<1>13. ASSUME PublishWeight(d) PROVE TopicsInv'
  <2> DEFINE c == [diff[d] EXCEPT !.pc = "done", !.event = None]
             e == [diff[d] EXCEPT !.pc = "failed", !.event = None]
  <2>1. /\ c \in DiffState /\ c.pc = "done" /\ c.seen = diff[d].seen /\ c.map = diff[d].map
        /\ e \in DiffState /\ e.pc = "failed" /\ e.seen = diff[d].seen /\ e.map = diff[d].map
    BY <1>1 DEF DiffState
  <2>2. Goto(d, c) \/ Goto(d, e)
    BY <1>13 DEF PublishWeight
  <2>3. UNCHANGED <<topics, gc>> /\ Active(d) /\ diff[d].pc # "new"
    BY <1>13 DEF PublishWeight, Is, Active
  <2> HIDE DEF c, e
  <2> QED
    BY <1>4, <2>1, <2>2, <2>3
<1> QED
  BY <1>5, <1>6, <1>7, <1>8, <1>9, <1>10, <1>11, <1>12, <1>13 DEF DiffStep

\* The collector works through a list that is old, but nothing on it comes into use: a
\* topic that exists is never created again, and only what exists already is bound.
LEMMA BindStepTopics ==
    ASSUME BindTypeOK, BindFrame, TopicsInv, [BindNext]_bindVars
    PROVE  TopicsInv'
<1>1. GraphKept
  BY GraphStep
<1>2. ASSUME TopicsStay, GcInv', UNCHANGED diff PROVE TopicsInv'
  <2>1. CASE Diff = {}
    <3>1. GcSparesRegistered'
      BY <1>1, <1>2 DEF GraphKept, TopicsStay, TopicsInv, GcSparesRegistered, Held, Registered
    <3> QED
      BY <1>2, <2>1, <3>1 DEF TopicsInv
  <2>2. ASSUME NEW d \in Diff PROVE TopicsInv'
    <3>1. HoldsTopics(d)'
      BY <1>1, <1>2, OthersHold DEF TopicsInv
    <3> QED
      BY <1>1, <1>2, <3>1, TopicsMove
  <2> QED
    BY <2>1, <2>2
<1>3. ASSUME NEW d \in Diff, DiffStep(d) PROVE TopicsInv'
  BY <1>1, <1>3, DiffStepTopics
<1>4. ASSUME NEW t \in DOMAIN topics, Age(t) PROVE TopicsInv'
  <2>1. /\ \A d \in Diff : ~Active(d)
        /\ topics' = [topics EXCEPT ![t] = TRUE]
        /\ UNCHANGED <<diff, gc, graph>>
    BY <1>4 DEF Age
  <2>2. GcInv'
    BY <1>1, <2>1, RegisteredStays DEF GcInv, TopicsInv
  <2>3. GcSparesRegistered'
    BY <2>1 DEF GcSparesRegistered, TopicsInv
  <2>4. ASSUME NEW d \in Diff PROVE HoldsTopics(d)'
    BY <2>1 DEF TopicsInv, HoldsTopics, SeenTrue, Active
  <2> QED
    BY <2>2, <2>3, <2>4 DEF TopicsInv
<1>5. ASSUME NEW t \in DOMAIN topics, DropTopic(t) PROVE TopicsInv'
  <2>1. /\ topics' = [u \in DOMAIN topics \ {t} |-> topics[u]] \/ UNCHANGED topics
        /\ gc' = gc \ {t} /\ t \in gc /\ UNCHANGED diff
    BY <1>5 DEF DropTopic
  <2>2. topics[t] /\ ~Registered(t)
    BY <2>1 DEF GcInv, TopicsInv
  <2>3. TopicsStay
    BY <2>1, <2>2 DEF TopicsStay, Held, Fresh
  <2>4. GcInv'
    BY <1>1, <2>1, RegisteredStays DEF GcInv, TopicsInv
  <2> QED
    BY <1>2, <2>1, <2>3, <2>4
<1>6. ASSUME ListOrphans PROVE TopicsInv'
  <2>1. UNCHANGED <<topics, diff, graph>>
    BY <1>6 DEF ListOrphans
  <2>2. \A t \in gc' : t \in DOMAIN topics /\ topics[t] /\ ~Registered(t)
    BY <1>6 DEF ListOrphans, Registered
  <2>3. GcInv'
    BY <1>1, <2>1, <2>2, RegisteredStays DEF GcInv
  <2>4. TopicsStay
    BY <2>1 DEF TopicsStay, Fresh
  <2> QED
    BY <1>2, <2>1, <2>3, <2>4
<1>7. ASSUME UNCHANGED <<topics, diff, gc>> PROVE TopicsInv'
  <2>1. GcInv'
    BY <1>1, <1>7, RegisteredStays DEF GcInv, TopicsInv
  <2>2. TopicsStay
    BY <1>7 DEF TopicsStay, Fresh
  <2> QED
    BY <1>2, <1>7, <2>1, <2>2
<1>8. ASSUME NEW n \in Node, ClearBuffering(n) PROVE TopicsInv'
  BY <1>7, <1>8 DEF ClearBuffering
<1> QED
  BY <1>3, <1>4, <1>5, <1>6, <1>7, <1>8 DEF BindNext, bindVars

\* The collector of orphan topics, which lists the old topics that no node emits to and
\* drops them later, between the steps of any number of diffs, never drops a topic that
\* the graph names or a running diff has bound.
THEOREM TopicsAlwaysKept == BindSpec => []TopicsKept
<1> DEFINE Inv == BindTypeOK /\ BindFrame /\ TopicsInv
<1>1. BindInit => Inv
  <2> SUFFICES ASSUME BindInit PROVE Inv
    OBVIOUS
  <2>1. BindTypeOK /\ BindFrame
    BY BindInitTypes
  <2>2. GcSparesRegistered /\ GcInv
    BY DEF BindInit, GcSparesRegistered, GcInv
  <2>3. \A d \in Diff : diff[d].pc = "new"
    BY DEF BindInit, NewDiff
  <2>4. \A d \in Diff : HoldsTopics(d)
    BY <2>3 DEF HoldsTopics, Active
  <2> QED
    BY <2>1, <2>2, <2>4 DEF TopicsInv
<1>2. Inv /\ [BindNext]_bindVars => Inv'
  BY BindStepTypes, BindStepTopics
<1>3. Inv => TopicsKept
  BY DEF TopicsKept, TopicsInv, BoundTopicsExist, HoldsTopics, Held
<1> HIDE DEF Inv
<1> QED
  BY <1>1, <1>2, <1>3, PTL DEF BindSpec

-----------------------------------------------------------------------------
(* What was told of the weights *)

\* Where nothing overlaps, one diff at most is in progress.
SoleDiff == ~overlap => \A d, e \in Diff : Active(d) /\ Active(e) => d = e

\* What a diff has to do with after its fetch: only BindNode changes its map and its
\* nodes, only the last two steps its event, and the plan passed before a node is bound.
StepKeeps(d) ==
    /\ Active(d) /\ UNCHANGED <<overlap, request>>
    /\ \A e \in Diff : e # d => diff'[e] = diff[e]
    /\ diff'[d].seen = diff[d].seen
    /\ BindNode(d) \/ UNCHANGED <<diff[d].map, diff[d].todo>>
    /\ RecordWeight(d) \/ PublishWeight(d)
         \/ /\ UNCHANGED <<diff[d].event, weights, published, lapses.publish>>
            /\ diff[d].pc # "publish" /\ diff'[d].pc # "publish"
    /\ \/ diff'[d].pc \notin {"list", "create", "bind"}
       \/ diff[d].pc \in {"list", "create", "bind"} \/ PlanNode(d)

\* Every access after the fetch is of that kind.
LEMMA DiffStepKeeps ==
    ASSUME BindTypeOK, BindFrame, NEW d \in Diff, DiffStep(d), ~Fetch(d)
    PROVE  StepKeeps(d)
<1>1. diff[d] \in DiffState
  BY DEF BindTypeOK
<1>2. ASSUME NEW c, Goto(d, c) PROVE diff'[d] = c /\ \A e \in Diff : e # d => diff'[e] = diff[e]
  BY <1>2 DEF Goto, BindTypeOK
<1>3. ASSUME PlanFails(d) PROVE StepKeeps(d)
  <2> DEFINE c == [diff[d] EXCEPT !.pc = "failed"]
  <2>1. /\ c.pc = "failed" /\ c.seen = diff[d].seen /\ c.map = diff[d].map
        /\ c.todo = diff[d].todo /\ c.event = diff[d].event
    BY <1>1 DEF DiffState
  <2>2. Goto(d, c)
    BY <1>3 DEF PlanFails
  <2> HIDE DEF c
  <2>3. diff'[d] = c /\ \A e \in Diff : e # d => diff'[e] = diff[e]
    BY <1>2, <2>2
  <2> QED
    BY <1>3, <2>1, <2>3 DEF PlanFails, Is, Active, StepKeeps
<1>4. ASSUME PlanNode(d) PROVE StepKeeps(d)
  <2> DEFINE n == First(d)
             r == diff[d].seen[n]
             b == IF Reusable(d, n) /\ r.schema # request[d].schema
                  THEN [diff[d] EXCEPT !.late = @ \cup {n}] ELSE diff[d]
             c == IF Reusable(d, n) /\ (Space(d) = None \/ r.topic.space = Space(d))
                  THEN [b EXCEPT !.pc = "bind", !.name = r.topic] ELSE [b EXCEPT !.pc = "list"]
  <2>1. Goto(d, c)
    BY <1>4 DEF PlanNode
  <2>2. n \in Node
    BY <1>1, <1>4 DEF PlanNode, First, DiffState
  <2> HIDE DEF n, r
  <2>3. /\ b \in DiffState /\ b.seen = diff[d].seen /\ b.map = diff[d].map
        /\ b.todo = diff[d].todo /\ b.event = diff[d].event
    BY <1>1, <2>2 DEF DiffState
  <2> HIDE DEF b
  <2>4. /\ c.pc \in {"bind", "list"} /\ c.seen = diff[d].seen /\ c.map = diff[d].map
        /\ c.todo = diff[d].todo /\ c.event = diff[d].event
    <3>1. CASE Reusable(d, n) /\ (Space(d) = None \/ r.topic.space = Space(d))
      BY <2>3, <3>1 DEF DiffState
    <3>2. CASE ~(Reusable(d, n) /\ (Space(d) = None \/ r.topic.space = Space(d)))
      BY <2>3, <3>2 DEF DiffState
    <3> QED
      BY <3>1, <3>2
  <2> HIDE DEF c
  <2>5. diff'[d] = c /\ \A e \in Diff : e # d => diff'[e] = diff[e]
    BY <1>2, <2>1
  <2>6. diff[d].pc = "plan" /\ UNCHANGED <<overlap, request, weights, published, lapses>>
    BY <1>4 DEF PlanNode, Is
  <2> QED
    BY <1>4, <2>4, <2>5, <2>6 DEF Active, StepKeeps
<1>5. ASSUME ListTopics(d) PROVE StepKeeps(d)
  <2> DEFINE free == {k \in 0..Attempts :
                        [node |-> First(d), space |-> Space(d), grown |-> k] \notin DOMAIN topics}
             least == CHOOSE k \in free : \A j \in free : k <= j
             name == [node |-> First(d), space |-> Space(d), grown |-> least]
             fail == [diff[d] EXCEPT !.pc = "failed"]
             c == [diff[d] EXCEPT !.pc = "create", !.taken = DOMAIN topics, !.name = name]
  <2>1. Goto(d, fail) \/ Goto(d, c)
    BY <1>5 DEF ListTopics
  <2> HIDE DEF name
  <2>2. /\ c.seen = diff[d].seen /\ c.map = diff[d].map /\ c.pc = "create"
        /\ c.todo = diff[d].todo /\ c.event = diff[d].event
        /\ fail.seen = diff[d].seen /\ fail.map = diff[d].map /\ fail.pc = "failed"
        /\ fail.todo = diff[d].todo /\ fail.event = diff[d].event
    BY <1>1 DEF DiffState
  <2> HIDE DEF c, fail
  <2>3. diff'[d] \in {c, fail} /\ \A e \in Diff : e # d => diff'[e] = diff[e]
    BY <1>2, <2>1
  <2>4. diff[d].pc = "list" /\ UNCHANGED <<overlap, request, weights, published, lapses>>
    BY <1>5 DEF ListTopics, Is
  <2> QED
    BY <2>2, <2>3, <2>4 DEF Active, StepKeeps
<1>6. ASSUME CreateTopic(d) PROVE StepKeeps(d)
  <2> DEFINE fail == [diff[d] EXCEPT !.pc = "failed"]
             c == [diff[d] EXCEPT !.pc = "bind"]
  <2>1. Goto(d, fail) \/ Goto(d, c)
    BY <1>6 DEF CreateTopic
  <2>2. /\ c.seen = diff[d].seen /\ c.map = diff[d].map /\ c.pc = "bind"
        /\ c.todo = diff[d].todo /\ c.event = diff[d].event
        /\ fail.seen = diff[d].seen /\ fail.map = diff[d].map /\ fail.pc = "failed"
        /\ fail.todo = diff[d].todo /\ fail.event = diff[d].event
    BY <1>1 DEF DiffState
  <2> HIDE DEF c, fail
  <2>3. diff'[d] \in {c, fail} /\ \A e \in Diff : e # d => diff'[e] = diff[e]
    BY <1>2, <2>1
  <2>4. diff[d].pc = "create" /\ UNCHANGED <<overlap, request, weights, published>>
    BY <1>6 DEF CreateTopic, Is
  <2>5. lapses'.publish = lapses.publish
    BY <1>6 DEF CreateTopic, BindTypeOK
  <2> QED
    BY <2>2, <2>3, <2>4, <2>5 DEF Active, StepKeeps
<1>7. ASSUME BindNode(d) PROVE StepKeeps(d)
  <2> DEFINE c == Bound(diff[d])
  <2>1. diff[d].pc = "bind" /\ diff[d].todo # <<>> /\ UNCHANGED <<overlap, request, weights, published>>
    BY <1>7 DEF BindNode, Is, BindFrame
  <2>2. Goto(d, c)
    BY <1>7 DEF BindNode, Bound, First
  <2>3. c.seen = diff[d].seen /\ c.pc \in {"mark", "plan"} /\ c.event = diff[d].event
    BY <1>1, <2>1, BoundFields
  <2> HIDE DEF c
  <2>4. diff'[d] = c /\ \A e \in Diff : e # d => diff'[e] = diff[e]
    BY <1>2, <2>2
  <2>5. lapses'.publish = lapses.publish
    BY <1>7 DEF BindNode, BindTypeOK
  <2> QED
    BY <1>7, <2>1, <2>3, <2>4, <2>5 DEF Active, StepKeeps
<1>8. ASSUME MarkBuffering(d) PROVE StepKeeps(d)
  <2> DEFINE c == [diff[d] EXCEPT !.pc = "weigh"]
  <2>1. /\ c.pc = "weigh" /\ c.seen = diff[d].seen /\ c.map = diff[d].map
        /\ c.todo = diff[d].todo /\ c.event = diff[d].event
    BY <1>1 DEF DiffState
  <2>2. Goto(d, c)
    BY <1>8 DEF MarkBuffering
  <2> HIDE DEF c
  <2>3. diff'[d] = c /\ \A e \in Diff : e # d => diff'[e] = diff[e]
    BY <1>2, <2>2
  <2> QED
    BY <1>8, <2>1, <2>3 DEF MarkBuffering, Is, Active, StepKeeps
<1>9. ASSUME RecordWeight(d) PROVE StepKeeps(d)
  <2> DEFINE w == request[d].weight
             c == [diff[d] EXCEPT !.pc = "publish"]
             e == [diff[d] EXCEPT !.pc = "publish", !.event = w]
  <2>1. Goto(d, c) \/ Goto(d, e)
    BY <1>9 DEF RecordWeight
  <2>2. /\ c.pc = "publish" /\ c.seen = diff[d].seen /\ c.map = diff[d].map /\ c.todo = diff[d].todo
        /\ e.pc = "publish" /\ e.seen = diff[d].seen /\ e.map = diff[d].map /\ e.todo = diff[d].todo
    BY <1>1 DEF DiffState
  <2> HIDE DEF c, e
  <2>3. diff'[d] \in {c, e} /\ \A f \in Diff : f # d => diff'[f] = diff[f]
    BY <1>2, <2>1
  <2> QED
    BY <1>9, <2>2, <2>3 DEF RecordWeight, Is, Active, StepKeeps
<1>10. ASSUME PublishWeight(d) PROVE StepKeeps(d)
  <2> DEFINE c == [diff[d] EXCEPT !.pc = "done", !.event = None]
             e == [diff[d] EXCEPT !.pc = "failed", !.event = None]
  <2>1. Goto(d, c) \/ Goto(d, e)
    BY <1>10 DEF PublishWeight
  <2>2. /\ c.pc = "done" /\ c.seen = diff[d].seen /\ c.map = diff[d].map /\ c.todo = diff[d].todo
        /\ e.pc = "failed" /\ e.seen = diff[d].seen /\ e.map = diff[d].map /\ e.todo = diff[d].todo
    BY <1>1 DEF DiffState
  <2> HIDE DEF c, e
  <2>3. diff'[d] \in {c, e} /\ \A f \in Diff : f # d => diff'[f] = diff[f]
    BY <1>2, <2>1
  <2> QED
    BY <1>10, <2>2, <2>3 DEF PublishWeight, Is, Active, StepKeeps
<1> QED
  BY <1>3, <1>4, <1>5, <1>6, <1>7, <1>8, <1>9, <1>10 DEF DiffStep

\* Fetch notes whether another diff is in progress; no other step starts one.
LEMMA SoleStep ==
    ASSUME BindTypeOK, BindFrame, SoleDiff, [BindNext]_bindVars
    PROVE  SoleDiff'
<1>1. ASSUME NEW d \in Diff, Fetch(d) PROVE SoleDiff'
  <2>1. \A e \in Diff : e # d => diff'[e] = diff[e]
    BY <1>1 DEF Fetch, Goto, BindTypeOK
  <2>2. overlap' = (overlap \/ \E e \in Diff \ {d} : Active(e))
    BY <1>1 DEF Fetch
  <2>3. ~overlap' => \A e \in Diff : e # d => ~Active(e)
    BY <2>2
  <2> QED
    BY <2>1, <2>3 DEF SoleDiff, Active
<1>2. ASSUME NEW d \in Diff, StepKeeps(d) PROVE SoleDiff'
  BY <1>2 DEF StepKeeps, SoleDiff, Active
<1>3. ASSUME UNCHANGED <<diff, overlap>> PROVE SoleDiff'
  BY <1>3 DEF SoleDiff, Active
<1>4. ASSUME NEW d \in Diff, DiffStep(d) PROVE SoleDiff'
  BY <1>1, <1>2, <1>4, DiffStepKeeps
<1> QED
  BY <1>3, <1>4 DEF BindNext, Age, DropTopic, ListOrphans, ClearBuffering, bindVars

\* Nothing overlaps, and no publication has failed.
Quiet == ~overlap /\ lapses.publish = 0

Told == published # <<>> /\ published[Len(published)] = weights

\* An event is held from the recording of a weight to its publication.  While all is
\* quiet it is the weight of the cache, and a weight that was not told is held.
WeightInv ==
    /\ \A d \in Diff : diff[d].event # None => diff[d].pc = "publish"
    /\ Quiet => \A d \in Diff : diff[d].event # None => diff[d].event = weights
    /\ Quiet /\ weights # None => Told \/ \E d \in Diff : diff[d].event # None

\* The cache is set before the event is published, and both in the one diff that runs.
LEMMA WeightStep ==
    ASSUME BindTypeOK, BindFrame, SoleDiff, WeightInv, [BindNext]_bindVars
    PROVE  WeightInv'
<1>1. ASSUME UNCHANGED <<weights, published>>, lapses'.publish = lapses.publish, overlap => overlap',
             \A d \in Diff : diff'[d].event = diff[d].event /\ (diff[d].event # None => diff'[d].pc = diff[d].pc)
      PROVE  WeightInv'
  <2>1. Quiet' => Quiet
    BY <1>1 DEF Quiet
  <2> QED
    BY <1>1, <2>1 DEF WeightInv, Told
<1>2. ASSUME NEW d \in Diff, Fetch(d) PROVE WeightInv'
  <2> DEFINE c == [NewDiff EXCEPT !.pc = "plan", !.todo = request[d].nodes, !.seen = graph]
  <2>1. c.event = None
    BY DEF NewDiff
  <2>2. Goto(d, c) /\ UNCHANGED <<weights, published, lapses>> /\ diff[d].pc = "new" /\ (overlap => overlap')
    BY <1>2 DEF Fetch, Is
  <2> HIDE DEF c
  <2>3. diff'[d] = c /\ \A e \in Diff : e # d => diff'[e] = diff[e]
    BY <2>2 DEF Goto, BindTypeOK
  <2>4. diff[d].event = None
    BY <2>2 DEF WeightInv
  <2> QED
    BY <1>1, <2>1, <2>2, <2>3, <2>4
<1>3. ASSUME NEW d \in Diff, RecordWeight(d) PROVE WeightInv'
  <2> DEFINE w == request[d].weight
             c == [diff[d] EXCEPT !.pc = "publish"]
             e == [diff[d] EXCEPT !.pc = "publish", !.event = w]
  <2>1. /\ diff[d].pc = "weigh" /\ UNCHANGED <<published, lapses, overlap>>
        /\ IF w = None \/ w = weights THEN Goto(d, c) /\ UNCHANGED weights ELSE Goto(d, e) /\ weights' = w
    BY <1>3 DEF RecordWeight, Is
  <2> HIDE DEF w
  <2>2. c.pc = "publish" /\ c.event = diff[d].event /\ e.pc = "publish" /\ e.event = w
    BY DEF BindTypeOK, DiffState
  <2> HIDE DEF c, e
  <2>3. ASSUME NEW x, Goto(d, x) PROVE diff'[d] = x /\ \A f \in Diff : f # d => diff'[f] = diff[f]
    BY <2>3 DEF Goto, BindTypeOK
  <2>4. diff[d].event = None
    BY <2>1 DEF WeightInv
  <2>5. CASE w = None \/ w = weights
    BY <1>1, <2>1, <2>2, <2>3, <2>4, <2>5
  <2>6. CASE ~(w = None \/ w = weights)
    <3>1. diff'[d] = e /\ weights' = w /\ \A f \in Diff : f # d => diff'[f] = diff[f]
      BY <2>1, <2>3, <2>6
    <3>2. Quiet' => \A f \in Diff : f # d => diff[f].event = None
      BY <2>1 DEF Quiet, SoleDiff, Active, WeightInv
    <3> QED
      BY <2>2, <2>6, <3>1, <3>2 DEF WeightInv
  <2> QED
    BY <2>5, <2>6
<1>4. ASSUME NEW d \in Diff, PublishWeight(d) PROVE WeightInv'
  <2> DEFINE c == [diff[d] EXCEPT !.pc = "done", !.event = None]
             e == [diff[d] EXCEPT !.pc = "failed", !.event = None]
  <2>1. /\ diff[d].pc = "publish" /\ UNCHANGED <<weights, overlap>>
        /\ \/ /\ published' = IF diff[d].event = None THEN published ELSE Append(published, diff[d].event)
              /\ Goto(d, c) /\ UNCHANGED lapses
           \/ /\ lapses' = [lapses EXCEPT !.publish = @ + 1]
              /\ Goto(d, e)
    BY <1>4 DEF PublishWeight, Is
  <2>2. c.event = None /\ e.event = None
    BY DEF BindTypeOK, DiffState
  <2> HIDE DEF c, e
  <2>3. ASSUME NEW x, Goto(d, x) PROVE diff'[d] = x /\ \A f \in Diff : f # d => diff'[f] = diff[f]
    BY <2>3 DEF Goto, BindTypeOK
  <2>4. diff'[d].event = None /\ \A f \in Diff : f # d => diff'[f] = diff[f]
    BY <2>1, <2>2, <2>3
  <2>5. CASE lapses' = [lapses EXCEPT !.publish = @ + 1]
    <3>1. lapses'.publish # 0
      BY <2>5 DEF BindTypeOK
    <3> QED
      BY <2>4, <3>1 DEF WeightInv, Quiet
  <2>6. CASE /\ published' = IF diff[d].event = None THEN published ELSE Append(published, diff[d].event)
             /\ UNCHANGED lapses
    <3>1. Quiet' => Quiet
      BY <2>1, <2>6 DEF Quiet
    <3>2. Quiet => \A f \in Diff : f # d => diff[f].event = None
      BY <2>1 DEF Quiet, SoleDiff, Active, WeightInv
    <3>3. CASE diff[d].event = None
      BY <2>1, <2>4, <2>6, <3>1, <3>3 DEF WeightInv, Told
    <3>4. CASE diff[d].event # None
      <4>1. diff[d].event \in Weight /\ published \in Seq(Weight)
        BY <3>4 DEF BindTypeOK, DiffState
      <4>2. published' # <<>> /\ published'[Len(published')] = diff[d].event
        BY <2>6, <3>4, <4>1
      <4>3. Quiet' => Told'
        BY <2>1, <3>1, <3>4, <4>2 DEF WeightInv, Told
      <4> QED
        BY <2>1, <2>4, <3>1, <4>3 DEF WeightInv
    <3> QED
      BY <3>3, <3>4
  <2> QED
    BY <2>1, <2>5, <2>6
<1>5. ASSUME NEW d \in Diff, StepKeeps(d), ~RecordWeight(d), ~PublishWeight(d) PROVE WeightInv'
  <2>1. /\ diff'[d].event = diff[d].event /\ UNCHANGED <<weights, published, overlap>>
        /\ lapses'.publish = lapses.publish /\ diff[d].pc # "publish"
        /\ \A e \in Diff : e # d => diff'[e] = diff[e]
    BY <1>5 DEF StepKeeps
  <2>2. diff[d].event = None
    BY <2>1 DEF WeightInv
  <2> QED
    BY <1>1, <2>1, <2>2
<1>6. ASSUME NEW d \in Diff, DiffStep(d) PROVE WeightInv'
  BY <1>2, <1>3, <1>4, <1>5, <1>6, DiffStepKeeps
<1>7. ASSUME UNCHANGED <<diff, weights, published, lapses, overlap>> PROVE WeightInv'
  BY <1>1, <1>7
<1> QED
  BY <1>6, <1>7 DEF BindNext, Age, DropTopic, ListOrphans, ClearBuffering, bindVars

\* Once no diff is in progress, the weight that the cache of the DiffService holds, and for
\* which it will therefore never make an event again, is the one the ControlBus was told
\* last, unless diffs overlapped or a publication failed.
THEOREM WeightsAlwaysSettle == BindSpec => []WeightsSettle
<1> DEFINE Inv == BindTypeOK /\ BindFrame /\ SoleDiff /\ WeightInv
<1>1. BindInit => Inv
  <2> SUFFICES ASSUME BindInit PROVE Inv
    OBVIOUS
  <2>1. BindTypeOK /\ BindFrame
    BY BindInitTypes
  <2>2. \A d \in Diff : diff[d].pc = "new" /\ diff[d].event = None
    BY DEF BindInit, NewDiff
  <2>3. weights = None
    BY DEF BindInit
  <2> QED
    BY <2>1, <2>2, <2>3 DEF SoleDiff, WeightInv, Active
<1>2. Inv /\ [BindNext]_bindVars => Inv'
  BY BindStepTypes, SoleStep, WeightStep
<1>3. Inv => WeightsSettle
  BY DEF WeightsSettle, WeightInv, Quiet, Told, Active
<1> HIDE DEF Inv
<1> QED
  BY <1>1, <1>2, <1>3, PTL DEF BindSpec

-----------------------------------------------------------------------------
(* Contexts kept apart *)

AsksFor(d, n) == \E i \in DOMAIN request[d].nodes : request[d].nodes[i] = n

\* The graph holds one context at most per node to begin with.
OneContextAtFirst ==
    \A g \in Graphs, n \in Node : g[n] # None => \A k, l \in g[n].keys : k = l

\* A node id is a digest over the code hash of its node, and the Gateway refuses a DAG whose
\* ids are not (E_NODE_ID_MISMATCH): a node of the graph has the code of those who ask for it.
IdsStandForCode ==
    \A g \in Graphs, q \in Requests, d \in Diff : \A i \in DOMAIN q[d].nodes :
        LET n == q[d].nodes[i] IN n \in Node /\ g[n] # None => g[n].code = q[d].code

\* No diffs overlap, and every binding was stored.
Stored == ~overlap /\ lapses.bind = 0

\* A node keeps the code that those who ask for it have.
CodeInv ==
    \A d \in Diff, n \in Node : AsksFor(d, n) /\ graph[n] # None => graph[n].code = request[d].code

OneContext == \A n \in Node : graph[n] # None => \A k, l \in graph[n].keys : k = l

\* What a diff has fetched of the contexts is all there is, but for its own.
FetchedKeys(d) ==
    \A n \in Node : graph[n] # None =>
        /\ diff[d].seen[n].keys \subseteq graph[n].keys
        /\ graph[n].keys \subseteq diff[d].seen[n].keys \cup {Ctx(d)}

\* Its context is stored with every node that it has bound.
OwnKeys(d) == \A n \in Node : diff[d].map[n] # None /\ graph[n] # None => Ctx(d) \in graph[n].keys

\* The nodes that are left were asked for, and none that was is of another context.
PlanPassed(d) ==
    /\ \A i \in DOMAIN diff[d].todo : AsksFor(d, diff[d].todo[i])
    /\ diff[d].pc \in {"list", "create", "bind"} =>
           \A n \in Node : AsksFor(d, n) => ~CrossContext(d, n)

ContextInv ==
    /\ CodeInv
    /\ \A d \in Diff : PlanPassed(d)
    /\ Stored => /\ OneContext
                 /\ \A d \in Diff : Active(d) => FetchedKeys(d)
                 /\ \A d \in Diff : OwnKeys(d)

\* The contexts of the nodes are as they were.
KeysSame == \A n \in Node : graph[n] # None => graph'[n].keys = graph[n].keys

\* Only add_compute_binding changes the contexts of a node.
LEMMA KeysStep ==
    ASSUME BindTypeOK, [BindNext]_bindVars, \A d \in Diff : ~BindNode(d)
    PROVE  KeysSame
<1>1. graph \in [Node -> Record \cup {None}]
  BY DEF BindTypeOK
<1>2. CASE graph' = graph
  BY <1>2 DEF KeysSame
<1>3. ASSUME NEW d \in Diff, MarkBuffering(d) PROVE KeysSame
  <2>1. ASSUME NEW r \in Record PROVE [r EXCEPT !.buffering = TRUE].keys = r.keys
    BY DEF Record
  <2> QED
    BY <1>1, <1>3, <2>1 DEF MarkBuffering, KeysSame
<1>4. ASSUME NEW n \in Node, ClearBuffering(n) PROVE KeysSame
  <2>1. ASSUME NEW r \in Record PROVE [r EXCEPT !.buffering = FALSE].keys = r.keys
    BY DEF Record
  <2>2. graph' = [graph EXCEPT ![n] = [graph[n] EXCEPT !.buffering = FALSE]] /\ graph[n] \in Record
    BY <1>1, <1>4 DEF ClearBuffering
  <2> QED
    BY <1>1, <2>1, <2>2 DEF KeysSame
<1>5. ASSUME NEW d \in Diff, DiffStep(d) PROVE KeysSame
  BY <1>2, <1>3, <1>5
     DEF DiffStep, Fetch, PlanFails, PlanNode, ListTopics, CreateTopic, RecordWeight, PublishWeight
<1> QED
  BY <1>2, <1>4, <1>5 DEF BindNext, Age, DropTopic, ListOrphans, bindVars

\* The code of a node is kept, and so are the requests.
LEMMA CodeStep ==
    ASSUME GraphKept, CodeInv, UNCHANGED request
    PROVE  CodeInv'
  BY DEF GraphKept, CodeInv, AsksFor

\* A diff that stays where it is loses none of its contexts.
LEMMA OwnKeysStay ==
    ASSUME GraphKept, NEW e \in Diff, OwnKeys(e), diff'[e].map = diff[e].map, UNCHANGED request
    PROVE  OwnKeys(e)'
  BY DEF GraphKept, OwnKeys, Ctx

\* A diff that keeps its nodes and has passed its plan has passed it still.
LEMMA PlanStays ==
    ASSUME NEW e \in Diff, PlanPassed(e), UNCHANGED request, diff'[e].todo = diff[e].todo,
           diff'[e].seen = diff[e].seen,
           diff'[e].pc \in {"list", "create", "bind"} => \/ diff[e].pc \in {"list", "create", "bind"}
                                                       \/ PlanNode(e)
    PROVE  PlanPassed(e)'
<1>1. \A i \in DOMAIN diff'[e].todo : AsksFor(e, diff[e].todo[i])
  BY DEF PlanPassed
<1>2. ASSUME NEW n, AsksFor(e, n) PROVE AsksFor(e, n)'
  BY <1>2 DEF AsksFor
<1>3. ASSUME NEW n, AsksFor(e, n)' PROVE AsksFor(e, n)
  BY <1>3 DEF AsksFor
<1>4. ASSUME NEW n \in Node, ~CrossContext(e, n) PROVE ~CrossContext(e, n)'
  BY <1>4 DEF CrossContext, Reusable, Ctx
<1>5. ASSUME PlanNode(e), NEW n \in Node, AsksFor(e, n) PROVE ~CrossContext(e, n)
  BY <1>5 DEF PlanNode, AsksFor
<1>6. ASSUME NEW i \in DOMAIN diff'[e].todo PROVE \A n : n = diff'[e].todo[i] => AsksFor(e, n)'
  BY <1>1, <1>2
<1>7. ASSUME diff'[e].pc \in {"list", "create", "bind"}, NEW n \in Node, AsksFor(e, n)'
      PROVE  ~CrossContext(e, n)'
  BY <1>3, <1>4, <1>5, <1>7 DEF PlanPassed
<1> QED
  BY <1>6, <1>7 DEF PlanPassed

\* The binding of a node adds the context of the diff to a node that had none or that one.
LEMMA BindNodeContexts ==
    ASSUME BindTypeOK, BindFrame, TopicsInv, GraphKept, SoleDiff, ContextInv,
           NEW d \in Diff, BindNode(d)
    PROVE  ContextInv'
<1> DEFINE c == Bound(diff[d])
           m == First(d)
<1>1. diff[d] \in DiffState /\ diff[d].pc = "bind" /\ diff[d].todo # <<>>
  BY DEF BindTypeOK, BindNode, Is, BindFrame
<1>2. Goto(d, c) /\ UNCHANGED <<overlap, request>>
  BY DEF BindNode, Bound, First
<1>3. /\ c \in DiffState /\ c.pc \in {"mark", "plan"} /\ c.seen = diff[d].seen /\ m \in Node
      /\ c.todo = Tail(diff[d].todo) /\ c.map = [diff[d].map EXCEPT ![m] = diff[d].name]
  BY <1>1, BoundFields DEF First
<1>4. diff'[d] = c /\ \A e \in Diff : e # d => diff'[e] = diff[e]
  BY <1>2 DEF Goto, BindTypeOK
<1>5. AsksFor(d, m)
  <2>1. 1 \in DOMAIN diff[d].todo /\ m = diff[d].todo[1]
    BY <1>1 DEF First, DiffState
  <2> QED
    BY <2>1 DEF ContextInv, PlanPassed
<1> HIDE DEF c, m
<1>6. CodeInv'
  BY <1>2, CodeStep DEF ContextInv
<1>7. ASSUME NEW e \in Diff PROVE PlanPassed(e)'
  <2>1. CASE e # d
    BY <1>2, <1>4, <2>1, PlanStays DEF ContextInv
  <2>2. CASE e = d
    <3>1. diff[d].todo \in Seq(Node)
      BY <1>1 DEF DiffState
    <3>2. ASSUME NEW i \in DOMAIN Tail(diff[d].todo)
          PROVE  i + 1 \in DOMAIN diff[d].todo /\ Tail(diff[d].todo)[i] = diff[d].todo[i + 1]
      BY <1>1, <3>1
    <3>3. ASSUME NEW i \in DOMAIN c.todo PROVE \A n : n = c.todo[i] => AsksFor(d, n)
      BY <1>3, <3>2 DEF ContextInv, PlanPassed
    <3>4. ASSUME NEW i \in DOMAIN c.todo PROVE \A n : n = c.todo[i] => AsksFor(d, n)'
      BY <1>2, <3>3 DEF AsksFor
    <3> QED
      BY <1>3, <1>4, <2>2, <3>4 DEF PlanPassed
  <2> QED
    BY <2>1, <2>2
<1>8. ASSUME Stored'
      PROVE  OneContext' /\ (\A e \in Diff : Active(e)' => FetchedKeys(e)') /\ \A e \in Diff : OwnKeys(e)'
  <2>1. /\ graph' = [graph EXCEPT ![m] = WithKey(graph[m], Ctx(d))]
        /\ UNCHANGED lapses
    <3>1. lapses' # [lapses EXCEPT !.bind = @ + 1]
      BY <1>8 DEF Stored, BindTypeOK
    <3> QED
      BY <3>1 DEF BindNode, m
  <2>2. Stored /\ OneContext /\ FetchedKeys(d) /\ \A e \in Diff : OwnKeys(e)
    BY <1>1, <1>2, <1>8, <2>1 DEF Stored, ContextInv, Active
  <2>3. ASSUME graph[m] # None
        PROVE  graph'[m] # None /\ graph'[m].keys = graph[m].keys \cup {Ctx(d)}
    <3>1. graph[m] \in Record
      BY <1>3, <2>3 DEF BindTypeOK
    <3>2. WithKey(graph[m], Ctx(d)) = [graph[m] EXCEPT !.keys = @ \cup {Ctx(d)}]
      BY <2>3 DEF WithKey
    <3>3. WithKey(graph[m], Ctx(d)).keys = graph[m].keys \cup {Ctx(d)}
      BY <3>1, <3>2 DEF Record
    <3>4. graph'[m] = WithKey(graph[m], Ctx(d))
      BY <1>3, <2>1 DEF BindTypeOK
    <3> QED
      BY <1>3, <2>3, <3>3, <3>4 DEF GraphKept
  <2>4. \A n \in Node : n # m => graph'[n] = graph[n]
    BY <2>1 DEF BindTypeOK
  <2>5. ASSUME graph[m] # None PROVE graph[m].keys \subseteq {Ctx(d)} \/ Ctx(d) \in graph[m].keys
    <3>1. SeenTrue(d)
      BY <1>1 DEF TopicsInv, HoldsTopics
    <3>2. diff[d].seen[m] # None /\ diff[d].seen[m].code = graph[m].code
      BY <1>3, <2>5, <3>1 DEF SeenTrue
    <3>3. Reusable(d, m)
      BY <1>3, <1>5, <2>5, <3>2 DEF Reusable, ContextInv, CodeInv
    <3>4. ~CrossContext(d, m)
      BY <1>1, <1>3, <1>5 DEF ContextInv, PlanPassed
    <3>5. diff[d].seen[m].keys = {} \/ Ctx(d) \in diff[d].seen[m].keys
      BY <3>3, <3>4 DEF CrossContext
    <3> QED
      BY <1>3, <2>2, <2>5, <3>5 DEF FetchedKeys
  <2>6. OneContext'
    <3> SUFFICES ASSUME NEW n \in Node, graph'[n] # None, NEW k \in graph'[n].keys, NEW l \in graph'[n].keys
                 PROVE  k = l
      BY DEF OneContext
    <3>1. graph[n] # None
      BY DEF GraphKept
    <3>2. CASE n # m
      BY <2>2, <2>4, <3>1, <3>2 DEF OneContext
    <3>3. CASE n = m
      BY <2>2, <2>3, <2>5, <3>1, <3>3 DEF OneContext
    <3> QED
      BY <3>2, <3>3
  <2>7. ASSUME NEW e \in Diff, Active(e)' PROVE FetchedKeys(e)'
    <3>1. e = d
      BY <1>1, <1>4, <2>2, <2>7 DEF Stored, SoleDiff, Active
    <3>2. Ctx(d)' = Ctx(d)
      BY <1>2 DEF Ctx
    <3> QED
      BY <1>3, <1>4, <2>2, <2>3, <2>4, <3>1, <3>2 DEF FetchedKeys, GraphKept
  <2>8. ASSUME NEW e \in Diff PROVE OwnKeys(e)'
    <3>1. CASE e # d
      BY <1>2, <1>4, <2>2, <3>1, OwnKeysStay
    <3>2. CASE e = d
      <4> SUFFICES ASSUME NEW n \in Node, diff'[d].map[n] # None, graph'[n] # None
                   PROVE  Ctx(d) \in graph'[n].keys
        BY <1>2, <3>2 DEF OwnKeys, Ctx
      <4>1. graph[n] # None
        BY DEF GraphKept
      <4>2. CASE n = m
        BY <2>3, <4>1, <4>2
      <4>3. CASE n # m
        <5>1. diff[d].map[n] # None
          BY <1>1, <1>3, <1>4, <4>3 DEF DiffState
        <5> QED
          BY <2>2, <2>4, <4>1, <4>3, <5>1 DEF OwnKeys
      <4> QED
        BY <4>2, <4>3
    <3> QED
      BY <3>1, <3>2
  <2> QED
    BY <2>6, <2>7, <2>8
<1> QED
  BY <1>6, <1>7, <1>8 DEF ContextInv

\* Where no node is bound the contexts of the nodes stay, and only a fetch makes a diff
\* see others.
LEMMA ContextStep ==
    ASSUME BindTypeOK, BindFrame, TopicsInv, SoleDiff, ContextInv, [BindNext]_bindVars
    PROVE  ContextInv'
<1>1. GraphKept
  BY GraphStep
<1>2. ASSUME KeysSame, UNCHANGED request, Stored' => Stored,
             \A e \in Diff : PlanPassed(e)',
             \A e \in Diff : Active(e)' => Active(e) /\ diff'[e].seen = diff[e].seen,
             \A e \in Diff : diff'[e].map = diff[e].map
      PROVE  ContextInv'
  <2>1. CodeInv'
    BY <1>1, <1>2, CodeStep DEF ContextInv
  <2>2. Stored' => OneContext'
    BY <1>1, <1>2 DEF ContextInv, OneContext, KeysSame, GraphKept
  <2>3. ASSUME Stored', NEW e \in Diff, Active(e)' PROVE FetchedKeys(e)'
    BY <1>1, <1>2, <2>3 DEF ContextInv, FetchedKeys, KeysSame, GraphKept, Ctx
  <2>4. ASSUME Stored', NEW e \in Diff PROVE OwnKeys(e)'
    BY <1>1, <1>2, <2>4, OwnKeysStay DEF ContextInv
  <2> QED
    BY <1>2, <2>1, <2>2, <2>3, <2>4 DEF ContextInv
<1>3. ASSUME NEW d \in Diff, Fetch(d) PROVE ContextInv'
  <2> DEFINE c == [NewDiff EXCEPT !.pc = "plan", !.todo = request[d].nodes, !.seen = graph]
  <2>1. c.pc = "plan" /\ c.seen = graph /\ c.todo = request[d].nodes /\ \A n \in Node : c.map[n] = None
    BY DEF NewDiff
  <2>2. Goto(d, c) /\ UNCHANGED <<request, graph, lapses>> /\ (overlap => overlap')
    BY <1>3 DEF Fetch
  <2> HIDE DEF c
  <2>3. diff'[d] = c /\ \A e \in Diff : e # d => diff'[e] = diff[e]
    BY <2>2 DEF Goto, BindTypeOK
  <2>4. Stored' => Stored
    BY <2>2 DEF Stored
  <2>5. ASSUME NEW e \in Diff PROVE PlanPassed(e)'
    <3>1. CASE e # d
      BY <2>2, <2>3, <3>1, PlanStays DEF ContextInv
    <3>2. CASE e = d
      <4>1. ASSUME NEW i \in DOMAIN c.todo PROVE \A n : n = c.todo[i] => AsksFor(d, n)'
        BY <2>1, <2>2 DEF AsksFor
      <4> QED
        BY <2>1, <2>3, <3>2, <4>1 DEF PlanPassed
    <3> QED
      BY <3>1, <3>2
  <2>6. CodeInv'
    BY <1>1, <2>2, CodeStep DEF ContextInv
  <2>7. Stored' => OneContext'
    BY <2>2, <2>4 DEF ContextInv, OneContext
  <2>8. ASSUME Stored', NEW e \in Diff, Active(e)' PROVE FetchedKeys(e)'
    BY <2>1, <2>2, <2>3, <2>4, <2>8 DEF ContextInv, FetchedKeys, Ctx, Active
  <2>9. ASSUME Stored', NEW e \in Diff PROVE OwnKeys(e)'
    BY <2>1, <2>2, <2>3, <2>4, <2>9 DEF ContextInv, OwnKeys, Ctx
  <2> QED
    BY <2>5, <2>6, <2>7, <2>8, <2>9 DEF ContextInv
<1>4. ASSUME NEW d \in Diff, BindNode(d) PROVE ContextInv'
  BY <1>1, <1>4, BindNodeContexts
<1>5. ASSUME NEW d \in Diff, DiffStep(d), ~Fetch(d), ~BindNode(d) PROVE ContextInv'
  <2>1. StepKeeps(d)
    BY <1>5, DiffStepKeeps
  <2>2. /\ Active(d) /\ UNCHANGED <<overlap, request>>
        /\ \A e \in Diff : e # d => diff'[e] = diff[e]
        /\ diff'[d].seen = diff[d].seen /\ diff'[d].map = diff[d].map /\ diff'[d].todo = diff[d].todo
        /\ \/ diff'[d].pc \notin {"list", "create", "bind"}
           \/ diff[d].pc \in {"list", "create", "bind"} \/ PlanNode(d)
    BY <1>5, <2>1 DEF StepKeeps
  <2>3. KeysSame
    <3>1. ASSUME NEW e \in Diff, BindNode(e) PROVE FALSE
      <4>1. e # d /\ diff[e].pc = "bind" /\ diff'[e] # diff[e]
        <5>1. Goto(e, Bound(diff[e])) /\ diff[e].pc = "bind" /\ diff[e].todo # <<>> /\ diff[e] \in DiffState
          BY <3>1 DEF BindNode, Bound, First, Is, BindFrame, BindTypeOK
        <5>2. Bound(diff[e]).pc # "bind"
          BY <5>1, BoundFields
        <5> QED
          BY <1>5, <3>1, <5>1, <5>2 DEF Goto, BindTypeOK
      <4> QED
        BY <2>2, <4>1
    <3> QED
      BY <3>1, KeysStep
  <2>4. lapses'.bind = lapses.bind
    BY <1>5 DEF DiffStep, PlanFails, PlanNode, ListTopics, CreateTopic, MarkBuffering, RecordWeight,
                PublishWeight, BindTypeOK
  <2>5. ASSUME NEW e \in Diff PROVE PlanPassed(e)'
    BY <2>2, PlanStays DEF ContextInv
  <2>6. Stored' => Stored
    BY <2>2, <2>4 DEF Stored
  <2>7. \A e \in Diff : diff'[e].map = diff[e].map /\ (Active(e)' => Active(e) /\ diff'[e].seen = diff[e].seen)
    BY <2>2 DEF Active
  <2> QED
    BY <1>2, <2>2, <2>3, <2>5, <2>6, <2>7
<1>6. ASSUME KeysSame, UNCHANGED <<request, diff, lapses, overlap>> PROVE ContextInv'
  <2>1. ASSUME NEW e \in Diff PROVE PlanPassed(e)'
    BY <1>6, PlanStays DEF ContextInv
  <2> QED
    BY <1>2, <1>6, <2>1 DEF Stored, Active
<1>7. ASSUME UNCHANGED <<request, diff, lapses, overlap>> PROVE ContextInv'
  <2>1. ASSUME NEW e \in Diff, BindNode(e) PROVE FALSE
    <3>1. Goto(e, Bound(diff[e])) /\ diff[e].pc = "bind" /\ diff[e].todo # <<>> /\ diff[e] \in DiffState
      BY <2>1 DEF BindNode, Bound, First, Is, BindFrame, BindTypeOK
    <3>2. Bound(diff[e]).pc # "bind"
      BY <3>1, BoundFields
    <3> QED
      BY <1>7, <3>1, <3>2 DEF Goto, BindTypeOK
  <2> QED
    BY <1>6, <1>7, <2>1, KeysStep
<1> QED
  BY <1>3, <1>4, <1>5, <1>7 DEF BindNext, Age, DropTopic, ListOrphans, ClearBuffering, bindVars

\* No two diffs that ran in different contexts are given the topic of one record, however
\* many there were before, where each finished before the next began, every binding was
\* stored, the graph began with one context per node and node ids stand for their code.
THEOREM ContextsAlwaysApart ==
    ASSUME OneContextAtFirst, IdsStandForCode
    PROVE  BindSpec => []ContextsApart
<1> DEFINE Inv == BindTypeOK /\ BindFrame /\ TopicsInv /\ SoleDiff /\ ContextInv
<1>1. BindInit => Inv
  <2> SUFFICES ASSUME BindInit PROVE Inv
    OBVIOUS
  <2>1. BindTypeOK /\ BindFrame
    BY BindInitTypes
  <2>2. GcSparesRegistered /\ GcInv
    BY DEF BindInit, GcSparesRegistered, GcInv
  <2>3. \A d \in Diff : diff[d].pc = "new" /\ diff[d].todo = <<>> /\ \A n \in Node : diff[d].map[n] = None
    BY DEF BindInit, NewDiff
  <2>4. TopicsInv
    BY <2>2, <2>3 DEF TopicsInv, HoldsTopics, Active
  <2>5. SoleDiff
    BY <2>3 DEF SoleDiff, Active
  <2>6. graph \in Graphs /\ request \in Requests
    BY DEF BindInit
  <2>7. CodeInv
    BY <2>6 DEF CodeInv, AsksFor, IdsStandForCode
  <2>8. OneContext
    BY <2>6 DEF OneContext, OneContextAtFirst
  <2>9. \A d \in Diff : PlanPassed(d) /\ OwnKeys(d) /\ ~Active(d)
    BY <2>3 DEF PlanPassed, OwnKeys, Active
  <2> QED
    BY <2>1, <2>4, <2>5, <2>7, <2>8, <2>9 DEF ContextInv
<1>2. Inv /\ [BindNext]_bindVars => Inv'
  BY BindStepTypes, BindStepTopics, SoleStep, ContextStep
<1>3. Inv => ContextsApart
  <2> SUFFICES ASSUME Inv, Stored, NEW d \in Diff, NEW e \in Diff, NEW n \in Node,
                      Done(d), Done(e), Reusable(d, n), diff[d].map[n] # None, diff[e].map[n] # None
               PROVE  Ctx(d) = Ctx(e)
    BY DEF ContextsApart, Stored
  <2>1. graph[n] # None
    BY DEF TopicsInv, HoldsTopics, SeenTrue, Reusable, Done
  <2>2. Ctx(d) \in graph[n].keys /\ Ctx(e) \in graph[n].keys
    BY <2>1 DEF ContextInv, OwnKeys
  <2> QED
    BY <2>1, <2>2 DEF ContextInv, OneContext
<1> HIDE DEF Inv
<1> QED
  BY <1>1, <1>2, <1>3, PTL DEF BindSpec

-----------------------------------------------------------------------------
(* The chunks of a result *)

Elems(s) == {s[i] : i \in DOMAIN s}

\* What a queue holds after a chunk was put.
LEMMA ElemsAppend ==
    ASSUME NEW s \in Seq(Nat), NEW x \in Nat
    PROVE  /\ Append(s, x) \in Seq(Nat) /\ Append(s, x) # <<>>
           /\ Elems(Append(s, x)) = Elems(s) \cup {x}
           /\ Append(s, x)[Len(Append(s, x))] = x
<1>1. DOMAIN Append(s, x) = 1..(Len(s) + 1) /\ DOMAIN s = 1..Len(s) /\ Len(s) \in Nat
  OBVIOUS
<1>2. \A i \in 1..Len(s) : Append(s, x)[i] = s[i]
  OBVIOUS
<1>3. Append(s, x)[Len(s) + 1] = x
  OBVIOUS
<1>4. Elems(Append(s, x)) = Elems(s) \cup {x}
  BY <1>1, <1>2, <1>3 DEF Elems
<1> QED
  BY <1>1, <1>3, <1>4

\* What it holds after one was taken.
LEMMA ElemsTail ==
    ASSUME NEW s \in Seq(Nat), s # <<>>
    PROVE  /\ Tail(s) \in Seq(Nat) /\ Head(s) \in Nat /\ Head(s) \in Elems(s)
           /\ Elems(s) = {Head(s)} \cup Elems(Tail(s))
<1>1. /\ DOMAIN Tail(s) = 1..(Len(s) - 1) /\ DOMAIN s = 1..Len(s) /\ Len(s) \in Nat \ {0}
      /\ \A i \in 1..(Len(s) - 1) : Tail(s)[i] = s[i + 1]
      /\ Head(s) = s[1]
  OBVIOUS
<1>2. Elems(Tail(s)) \subseteq Elems(s) /\ Head(s) \in Elems(s)
  <2>1. \A i \in 1..(Len(s) - 1) : i + 1 \in 1..Len(s)
    BY <1>1
  <2>2. 1 \in 1..Len(s)
    BY <1>1
  <2> QED
    BY <1>1, <2>1, <2>2 DEF Elems
<1>3. ASSUME NEW i \in DOMAIN s PROVE s[i] = Head(s) \/ s[i] \in Elems(Tail(s))
  <2>1. i = 1 \/ (i - 1 \in 1..(Len(s) - 1) /\ i = (i - 1) + 1)
    BY <1>1
  <2> QED
    BY <1>1, <2>1 DEF Elems
<1>4. Elems(s) = {Head(s)} \cup Elems(Tail(s))
  BY <1>2, <1>3 DEF Elems
<1> QED
  BY <1>2, <1>4

\* What it holds after the pending chunks were put once more.
LEMMA ElemsConcat ==
    ASSUME NEW s \in Seq(Nat), NEW t \in Seq(Nat)
    PROVE  s \o t \in Seq(Nat) /\ Elems(s \o t) = Elems(s) \cup Elems(t)
<1>1. /\ DOMAIN (s \o t) = 1..(Len(s) + Len(t)) /\ DOMAIN s = 1..Len(s) /\ DOMAIN t = 1..Len(t)
      /\ Len(s) \in Nat /\ Len(t) \in Nat
      /\ \A i \in 1..Len(s) : (s \o t)[i] = s[i]
      /\ \A i \in 1..Len(t) : (s \o t)[Len(s) + i] = t[i]
  OBVIOUS
<1>2. ASSUME NEW i \in DOMAIN (s \o t) PROVE (s \o t)[i] \in Elems(s) \cup Elems(t)
  <2>1. i \in 1..Len(s) \/ (i - Len(s) \in 1..Len(t) /\ i = Len(s) + (i - Len(s)))
    BY <1>1
  <2> QED
    BY <1>1, <2>1 DEF Elems
<1>3. Elems(s) \subseteq Elems(s \o t) /\ Elems(t) \subseteq Elems(s \o t)
  <2>1. /\ \A i \in 1..Len(s) : i \in 1..(Len(s) + Len(t))
        /\ \A i \in 1..Len(t) : Len(s) + i \in 1..(Len(s) + Len(t))
    BY <1>1
  <2> QED
    BY <1>1, <2>1 DEF Elems
<1>4. s \o t \in Seq(Nat)
  OBVIOUS
<1>5. Elems(s \o t) \subseteq Elems(s) \cup Elems(t)
  BY <1>2 DEF Elems
<1> QED
  BY <1>3, <1>4, <1>5

\* Whatever a running stream s has sent is with the client k or on the wire w, and nothing
\* else is; behind the end of a stream comes nothing, and a good end comes behind all of it.
Travels(k, s, w) ==
    /\ s.sent <= Chunks /\ Elems(s.pending) \subseteq 1..s.sent
    /\ Elems(k.got) \subseteq 1..Chunks
    /\ k.pc \notin {"open", "ack"} => s.pc = "closed"
    /\ k.pc = "ack" => k.got # <<>>
    /\ k.pc = "ok" => 1..Chunks \subseteq Elems(k.got)
    /\ s.pc # "closed" => /\ Elems(w) \subseteq 1..s.sent
                          /\ 1..s.sent \subseteq Elems(k.got) \cup Elems(w)
    /\ k.pc \in {"open", "ack"} /\ s.pc = "closed" =>
         /\ w # <<>> /\ w[Len(w)] \in {End, Fail}
         /\ \A i \in 1..(Len(w) - 1) : w[i] \in 1..Chunks
         /\ w[Len(w)] = End => 1..Chunks \subseteq Elems(k.got) \cup Elems(w)

StreamBase ==
    /\ setup \in Setups /\ StreamTypeOK
    /\ \A c \in Client : Travels(client[c], stream[c], wire[c])

\* One call has moved: the others travel as they did.
LEMMA CallMoves ==
    ASSUME StreamBase, UNCHANGED setup, NEW c \in Client,
           NEW k \in ClientState, NEW s \in StreamState, NEW w \in Seq(Nat), Travels(k, s, w),
           client' = [client EXCEPT ![c] = k], stream' = [stream EXCEPT ![c] = s],
           wire' = [wire EXCEPT ![c] = w],
           registry' \in Client \cup {None}, lapsed' \in 0..MaxAckFails, crossed' \in BOOLEAN
    PROVE  StreamBase'
<1>1. StreamTypeOK' /\ setup' \in Setups
  BY DEF StreamBase, StreamTypeOK
<1>2. ASSUME NEW d \in Client PROVE Travels(client'[d], stream'[d], wire'[d])
  BY DEF StreamBase, StreamTypeOK
<1>3. ASSUME NEW d \in Client PROVE Travels(client[d], stream[d], wire[d])'
  BY <1>2 DEF Travels, Chunks, End, Fail
<1> QED
  BY <1>1, <1>3 DEF StreamBase

\* No step of a client, a thread or the event loop loses a chunk.
LEMMA StreamStep ==
    ASSUME StreamBase, StreamNext
    PROVE  StreamBase'
<1>1. Chunks \in Nat \ {0} /\ UNCHANGED setup
  BY StreamConstants DEF StreamBase, Chunks, StreamNext
<1>2. ASSUME NEW c \in Client
      PROVE  /\ client[c] \in ClientState /\ stream[c] \in StreamState /\ wire[c] \in Seq(Nat)
             /\ Travels(client[c], stream[c], wire[c])
             /\ client[c].got \in Seq(Nat) /\ client[c].tries \in Nat
             /\ stream[c].sent \in Nat /\ stream[c].pending \in Seq(Nat)
             /\ stream[c].acks \in Nat /\ stream[c].outstanding \in Nat
  BY DEF StreamBase, StreamTypeOK, ClientState, StreamState
<1>3. /\ registry \in Client \cup {None} /\ lapsed \in 0..MaxAckFails /\ crossed \in BOOLEAN
      /\ client \in [Client -> ClientState] /\ stream \in [Client -> StreamState] /\ wire \in [Client -> Seq(Nat)]
  BY DEF StreamBase, StreamTypeOK
<1>4. /\ NewStream \in StreamState /\ NewStream.pc = "run" /\ NewStream.sent = 0 /\ NewStream.pending = <<>>
      /\ Closed \in StreamState /\ Closed.pc = "closed" /\ Closed.sent = 0 /\ Closed.pending = <<>>
  <2>1. <<>> \in Seq(Nat) /\ {} \in SUBSET Nat
    OBVIOUS
  <2> QED
    BY <2>1 DEF NewStream, Closed, StreamState
<1>5. Elems(<<>>) = {} /\ 1..0 = {} /\ <<>> \in Seq(Nat)
  BY DEF Elems
<1>6. ASSUME NEW c \in Client, OpenDiff(c) PROVE StreamBase'
  <2> DEFINE k == [pc |-> "open", tries |-> client[c].tries + 1, got |-> <<>>]
  <2>1. k \in ClientState /\ k.pc = "open" /\ k.got = <<>>
    BY <1>2, <1>5 DEF ClientState
  <2>2. /\ client' = [client EXCEPT ![c] = k] /\ stream' = [stream EXCEPT ![c] = NewStream]
        /\ wire' = [wire EXCEPT ![c] = <<>>] /\ registry' = c /\ lapsed' = lapsed
    BY <1>3, <1>6 DEF OpenDiff
  <2>3. crossed' \in BOOLEAN
    BY <1>6 DEF OpenDiff
  <2> HIDE DEF k
  <2>4. Travels(k, NewStream, <<>>)
    BY <1>1, <1>4, <1>5, <2>1 DEF Travels
  <2> QED
    BY <1>1, <1>3, <1>4, <1>5, <2>1, <2>2, <2>3, <2>4, CallMoves
<1>7. ASSUME NEW c \in Client, ReceiveChunk(c) PROVE StreamBase'
  <2> DEFINE x == Head(wire[c])
             k == [client[c] EXCEPT !.got = Append(@, x), !.pc = "ack"]
             w == Tail(wire[c])
  <2>1. client[c].pc = "open" /\ wire[c] # <<>> /\ x \in 1..Chunks
    BY <1>7 DEF ReceiveChunk
  <2>2. w \in Seq(Nat) /\ x \in Nat /\ Elems(wire[c]) = {x} \cup Elems(w)
    BY <1>2, <2>1, ElemsTail
  <2>3. /\ client' = [client EXCEPT ![c] = k] /\ wire' = [wire EXCEPT ![c] = w]
        /\ stream' = [stream EXCEPT ![c] = stream[c]]
        /\ UNCHANGED <<registry, lapsed, crossed>>
    BY <1>3, <1>7 DEF ReceiveChunk
  <2> HIDE DEF x
  <2>4. Append(client[c].got, x) \in Seq(Nat) /\ Append(client[c].got, x) # <<>>
        /\ Elems(Append(client[c].got, x)) = Elems(client[c].got) \cup {x}
    BY <1>2, <2>2, ElemsAppend
  <2>5. k \in ClientState /\ k.pc = "ack" /\ k.got = Append(client[c].got, x)
    BY <1>2, <2>4 DEF ClientState
  <2> HIDE DEF k
  <2>6. Elems(k.got) = Elems(client[c].got) \cup {x} /\ k.got # <<>>
    BY <2>4, <2>5
  <2>7. ASSUME stream[c].pc = "closed"
        PROVE  /\ w # <<>> /\ w[Len(w)] = wire[c][Len(wire[c])]
               /\ \A i \in 1..(Len(w) - 1) : w[i] \in 1..Chunks
    <3>1. /\ wire[c] # <<>> /\ wire[c][Len(wire[c])] \in {End, Fail}
          /\ \A i \in 1..(Len(wire[c]) - 1) : wire[c][i] \in 1..Chunks
      BY <1>2, <2>1, <2>7 DEF Travels
    <3>2. Len(wire[c]) # 1
      BY <1>1, <1>2, <2>1, <3>1 DEF End, Fail, x
    <3>3. ASSUME NEW n \in Nat, n # 0, n # 1
          PROVE  n > 1 /\ n - 1 \in Nat /\ n - 1 # 0 /\ n - 1 \in 1..(n - 1) /\ (n - 1) + 1 = n
                 /\ \A i \in 1..((n - 1) - 1) : i \in 1..(n - 1) /\ i + 1 \in 1..(n - 1)
      BY <3>3
    <3>4. Len(wire[c]) \in Nat /\ Len(wire[c]) # 0 /\ Len(w) = Len(wire[c]) - 1
          /\ \A i \in 1..Len(w) : w[i] = wire[c][i + 1]
      BY <1>2, <3>1
    <3> DEFINE n == Len(wire[c])
    <3>5. n > 1 /\ n - 1 \in Nat /\ n - 1 # 0 /\ n - 1 \in 1..(n - 1) /\ (n - 1) + 1 = n
          /\ \A i \in 1..((n - 1) - 1) : i \in 1..(n - 1) /\ i + 1 \in 1..(n - 1)
      BY <3>2, <3>3, <3>4
    <3>6. Len(w) = n - 1 /\ \A i \in 1..(n - 1) : w[i] = wire[c][i + 1]
      BY <3>4
    <3>7. w # <<>>
      BY <3>5, <3>6
    <3>8. w[n - 1] = wire[c][n]
      BY <3>5, <3>6
    <3>9. \A i \in 1..((n - 1) - 1) : w[i] \in 1..Chunks
      BY <3>1, <3>5, <3>6
    <3> QED
      BY <3>6, <3>7, <3>8, <3>9
  <2> HIDE DEF w
  <2>8. Travels(k, stream[c], w)
    BY <1>2, <2>1, <2>2, <2>5, <2>6, <2>7 DEF Travels
  <2> QED
    BY <1>1, <1>2, <1>3, <2>2, <2>3, <2>5, <2>8, CallMoves
<1>8. ASSUME NEW c \in Client, ReceiveEnd(c) PROVE StreamBase'
  <2> DEFINE k == IF Head(wire[c]) = End THEN [client[c] EXCEPT !.pc = "ok"] ELSE Retry(client[c])
  <2>1. client[c].pc = "open" /\ wire[c] # <<>> /\ Head(wire[c]) \in {End, Fail}
    BY <1>8 DEF ReceiveEnd
  <2>2. /\ client' = [client EXCEPT ![c] = k] /\ wire' = [wire EXCEPT ![c] = wire[c]]
        /\ stream' = [stream EXCEPT ![c] = stream[c]]
        /\ UNCHANGED <<registry, lapsed, crossed>>
    BY <1>3, <1>8 DEF ReceiveEnd
  <2>3. /\ k \in ClientState /\ k.got = client[c].got /\ k.pc \in {"ok", "retry", "failed"}
        /\ k.pc = "ok" => Head(wire[c]) = End
    BY <1>2 DEF ClientState, Retry
  <2> HIDE DEF k
  <2>4. Head(wire[c]) \in Elems(wire[c]) /\ Head(wire[c]) = wire[c][1] /\ Len(wire[c]) \in Nat \ {0}
    BY <1>2, <2>1, ElemsTail
  <2>5. End \notin 1..Chunks /\ Fail \notin 1..Chunks
    BY <1>1 DEF End, Fail
  <2>6. stream[c].pc = "closed"
    <3>1. SUFFICES ASSUME stream[c].pc # "closed" PROVE FALSE
      OBVIOUS
    <3>2. Elems(wire[c]) \subseteq 1..stream[c].sent /\ stream[c].sent <= Chunks
      BY <1>2, <3>1 DEF Travels
    <3>3. Head(wire[c]) \in 1..Chunks
      BY <1>1, <1>2, <2>4, <3>2
    <3> QED
      BY <2>1, <2>5, <3>3
  <2>7. Len(wire[c]) = 1
    <3>1. \A i \in 1..(Len(wire[c]) - 1) : wire[c][i] \in 1..Chunks
      BY <1>2, <2>1, <2>6 DEF Travels
    <3>2. ~(1 \in 1..(Len(wire[c]) - 1))
      BY <2>1, <2>4, <2>5, <3>1
    <3>3. ASSUME NEW n \in Nat, n # 0, ~(1 \in 1..(n - 1)) PROVE n = 1
      BY <3>3
    <3> QED
      BY <2>4, <3>2, <3>3
  <2>8. Elems(wire[c]) = {Head(wire[c])}
    BY <1>2, <2>4, <2>7 DEF Elems
  <2>9. k.pc = "ok" => 1..Chunks \subseteq Elems(k.got)
    BY <1>2, <2>1, <2>3, <2>4, <2>5, <2>6, <2>7, <2>8 DEF Travels
  <2>10. Travels(k, stream[c], wire[c])
    BY <1>2, <2>3, <2>6, <2>9 DEF Travels
  <2> QED
    BY <1>1, <1>2, <1>3, <2>2, <2>3, <2>10, CallMoves
<1>9. ASSUME NEW c \in Client, ServeAck(c) PROVE StreamBase'
  <2> DEFINE x == client[c].got[Len(client[c].got)]
             b(d) == IF d = c /\ Runs(c) THEN [stream[d] EXCEPT !.acked = @ \cup {x}] ELSE stream[d]
             k == [client[c] EXCEPT !.pc = "open"]
  <2>1. /\ client[c].pc = "ack" /\ client' = [client EXCEPT ![c] = k]
        /\ stream' = [d \in Client |-> IF d = registry /\ b(d).pc # "closed" THEN Acknowledged(b(d)) ELSE b(d)]
        /\ UNCHANGED <<wire, registry, lapsed, crossed>>
    BY <1>3, <1>9 DEF ServeAck
  <2>2. x \in Nat
    BY <1>2, <2>1 DEF Travels
  <2> HIDE DEF x
  <2>3. ASSUME NEW d \in Client
        PROVE  /\ b(d) \in StreamState /\ b(d).pc = stream[d].pc /\ b(d).sent = stream[d].sent
               /\ b(d).pending = stream[d].pending
    BY <1>2, <2>2 DEF StreamState
  <2> HIDE DEF b
  <2>4. ASSUME NEW s \in StreamState
        PROVE  /\ Acknowledged(s) \in StreamState /\ Acknowledged(s).pc = s.pc
               /\ Acknowledged(s).sent = s.sent /\ Elems(Acknowledged(s).pending) \subseteq Elems(s.pending)
    <3> DEFINE q == IF s.pending = <<>> THEN s.pending ELSE Tail(s.pending)
    <3>1. s.pending \in Seq(Nat) /\ s.acks \in Nat
      BY DEF StreamState
    <3>2. q \in Seq(Nat) /\ Elems(q) \subseteq Elems(s.pending)
      BY <3>1, ElemsTail
    <3>3. Acknowledged(s) = [s EXCEPT !.acks = @ + 1, !.pending = q]
      BY DEF Acknowledged
    <3> DEFINE n == s.acks + 1
               u == [s EXCEPT !.acks = n, !.pending = q]
    <3>4. n \in Nat /\ Acknowledged(s) = u
      BY <3>1, <3>3
    <3> HIDE DEF q, n
    <3>5. u \in StreamState /\ u.pc = s.pc /\ u.sent = s.sent /\ u.pending = q
      BY <3>2, <3>4 DEF StreamState
    <3> HIDE DEF u
    <3> QED
      BY <3>2, <3>4, <3>5
  <2>5. ASSUME NEW d \in Client
        PROVE  /\ stream'[d] \in StreamState /\ stream'[d].pc = stream[d].pc
               /\ stream'[d].sent = stream[d].sent
               /\ Elems(stream'[d].pending) \subseteq Elems(stream[d].pending)
    BY <2>1, <2>3, <2>4
  <2>6. k \in ClientState /\ k.pc = "open" /\ k.got = client[c].got
    BY <1>2 DEF ClientState
  <2> HIDE DEF k
  <2>7. StreamTypeOK' /\ setup' \in Setups
    <3>1. stream' \in [Client -> StreamState]
      <4>1. DOMAIN stream' = Client /\ stream' = [d \in Client |-> stream'[d]]
        BY <2>1
      <4> QED
        BY <2>5, <4>1
    <3> QED
      BY <1>1, <2>1, <2>6, <3>1 DEF StreamBase, StreamTypeOK
  <2>8. ASSUME NEW d \in Client PROVE Travels(client'[d], stream'[d], wire'[d])
    <3>1. client'[d].got = client[d].got /\ client'[d].pc = IF d = c THEN "open" ELSE client[d].pc
      BY <1>3, <2>1, <2>6
    <3>2. Travels(client[d], stream[d], wire[d])
      BY <1>2
    <3> QED
      BY <2>1, <2>5, <3>1, <3>2 DEF Travels
  <2>9. ASSUME NEW d \in Client PROVE Travels(client[d], stream[d], wire[d])'
    BY <1>1, <2>8 DEF Travels, Chunks, End, Fail
  <2> QED
    BY <2>7, <2>9 DEF StreamBase
<1>10. ASSUME NEW c \in Client, LoseAck(c) PROVE StreamBase'
  <2> DEFINE k == Retry(client[c])
  <2>1. /\ client[c].pc = "ack" /\ client' = [client EXCEPT ![c] = k]
        /\ stream' = [stream EXCEPT ![c] = Closed] /\ wire' = [wire EXCEPT ![c] = <<>>]
        /\ registry' = None /\ lapsed < MaxAckFails /\ lapsed' = lapsed + 1 /\ crossed' = crossed
    BY <1>3, <1>10 DEF LoseAck
  <2>2. k \in ClientState /\ k.pc \in {"retry", "failed"} /\ k.got = client[c].got
    BY <1>2 DEF ClientState, Retry
  <2> HIDE DEF k
  <2>3. lapsed' \in 0..MaxAckFails
    BY <1>3, <2>1, StreamConstants
  <2>4. Travels(k, Closed, <<>>)
    BY <1>1, <1>2, <1>4, <1>5, <2>2 DEF Travels
  <2>5. registry' \in Client \cup {None} /\ crossed' \in BOOLEAN
    BY <1>3, <2>1
  <2> QED
    BY <1>1, <1>4, <1>5, <2>1, <2>2, <2>3, <2>4, <2>5, CallMoves
<1>11. ASSUME NEW c \in Client, SendChunk(c) PROVE StreamBase'
  <2> DEFINE x == stream[c].sent + 1
             s == [stream[c] EXCEPT !.sent = x, !.outstanding = @ + 1, !.pending = Append(@, x)]
             w == Append(wire[c], x)
  <2>1. /\ stream[c].pc = "run" /\ stream[c].sent < Chunks
        /\ stream' = [stream EXCEPT ![c] = s] /\ wire' = [wire EXCEPT ![c] = w]
        /\ client' = [client EXCEPT ![c] = client[c]] /\ UNCHANGED <<registry, lapsed, crossed>>
    BY <1>3, <1>11 DEF SendChunk, Runs
  <2>2. x \in Nat /\ x <= Chunks /\ 1..x = 1..stream[c].sent \cup {x}
    BY <1>1, <1>2, <2>1
  <2> HIDE DEF x
  <2>3. /\ w \in Seq(Nat) /\ Elems(w) = Elems(wire[c]) \cup {x}
        /\ Append(stream[c].pending, x) \in Seq(Nat)
        /\ Elems(Append(stream[c].pending, x)) = Elems(stream[c].pending) \cup {x}
    BY <1>2, <2>2, ElemsAppend
  <2> HIDE DEF w
  <2>4. s \in StreamState /\ s.pc = "run" /\ s.sent = x /\ s.pending = Append(stream[c].pending, x)
    <3> DEFINE q == Append(stream[c].pending, x)
               n == stream[c].outstanding + 1
    <3>1. q \in Seq(Nat) /\ n \in Nat /\ s = [stream[c] EXCEPT !.sent = x, !.outstanding = n, !.pending = q]
      BY <1>2, <2>3
    <3> HIDE DEF q, n, s
    <3>2. s \in StreamState /\ s.pc = "run" /\ s.sent = x /\ s.pending = q
      BY <1>2, <2>1, <2>2, <3>1 DEF StreamState
    <3> QED
      BY <3>2 DEF q
  <2> HIDE DEF s
  <2>5. Elems(s.pending) = Elems(stream[c].pending) \cup {x}
    BY <2>3, <2>4
  <2>6. /\ stream[c].sent <= Chunks /\ Elems(stream[c].pending) \subseteq 1..stream[c].sent
        /\ Elems(wire[c]) \subseteq 1..stream[c].sent
        /\ 1..stream[c].sent \subseteq Elems(client[c].got) \cup Elems(wire[c])
    BY <1>2, <2>1 DEF Travels
  <2>7. /\ Elems(s.pending) \subseteq 1..s.sent /\ Elems(w) \subseteq 1..s.sent /\ s.sent <= Chunks
        /\ 1..s.sent \subseteq Elems(client[c].got) \cup Elems(w)
    BY <2>2, <2>3, <2>4, <2>5, <2>6
  <2>8. Travels(client[c], s, w)
    BY <1>2, <2>1, <2>4, <2>7 DEF Travels
  <2> QED
    BY <1>1, <1>2, <1>3, <2>1, <2>3, <2>4, <2>8, CallMoves
<1>12. ASSUME NEW c \in Client, TakeAck(c) PROVE StreamBase'
  <2> DEFINE s == [stream[c] EXCEPT !.acks = @ - 1, !.outstanding = @ - 1, !.timeouts = 0]
  <2>1. /\ stream' = [stream EXCEPT ![c] = s] /\ wire' = [wire EXCEPT ![c] = wire[c]]
        /\ client' = [client EXCEPT ![c] = client[c]] /\ UNCHANGED <<registry, lapsed, crossed>>
    BY <1>3, <1>12 DEF TakeAck
  <2>2. stream[c].acks - 1 \in Nat /\ stream[c].outstanding - 1 \in Nat
    <3>1. stream[c].acks > 0 /\ stream[c].outstanding > 0
      BY <1>2, <1>12, StreamConstants DEF TakeAck, AwaitsAck
    <3> QED
      BY <1>2, <3>1
  <2>3. /\ s \in StreamState /\ s.pc = stream[c].pc /\ s.sent = stream[c].sent
        /\ s.pending = stream[c].pending
    BY <1>2, <2>2 DEF StreamState
  <2> HIDE DEF s
  <2>4. Travels(client[c], s, wire[c])
    BY <1>2, <2>3 DEF Travels
  <2> QED
    BY <1>1, <1>2, <1>3, <2>1, <2>3, <2>4, CallMoves
<1>13. ASSUME NEW c \in Client, AckTimesOut(c) PROVE StreamBase'
  <2> DEFINE s == [stream[c] EXCEPT !.timeouts = @ + 1,
                                    !.pc = IF stream[c].timeouts + 1 >= Patience THEN "raised" ELSE @]
             w == wire[c] \o stream[c].pending
  <2>1. /\ stream[c].pc = "run"
        /\ stream' = [stream EXCEPT ![c] = s] /\ wire' = [wire EXCEPT ![c] = w]
        /\ client' = [client EXCEPT ![c] = client[c]] /\ UNCHANGED <<registry, lapsed, crossed>>
    BY <1>3, <1>13 DEF AckTimesOut, AwaitsAck, Runs
  <2>2. w \in Seq(Nat) /\ Elems(w) = Elems(wire[c]) \cup Elems(stream[c].pending)
    BY <1>2, ElemsConcat
  <2> HIDE DEF w
  <2>3. /\ s \in StreamState /\ s.pc # "closed" /\ s.sent = stream[c].sent
        /\ s.pending = stream[c].pending
    <3> DEFINE n == stream[c].timeouts + 1
               p == IF n >= Patience THEN "raised" ELSE "run"
    <3>1. n \in Nat /\ p \in {"raised", "run"} /\ s = [stream[c] EXCEPT !.timeouts = n, !.pc = p]
      BY <1>2, <2>1 DEF StreamState
    <3> HIDE DEF n, p, s
    <3> QED
      BY <1>2, <3>1 DEF StreamState
  <2> HIDE DEF s
  <2>4. Travels(client[c], s, w)
    BY <1>2, <2>1, <2>2, <2>3 DEF Travels
  <2> QED
    BY <1>1, <1>2, <1>3, <2>1, <2>2, <2>3, <2>4, CallMoves
<1>14. ASSUME NEW c \in Client, FinishDiff(c) PROVE StreamBase'
  <2> DEFINE x == IF stream[c].pc = "raised" THEN Fail ELSE End
             w == Append(wire[c], x)
  <2>1. /\ stream[c].pc # "closed" /\ (x = End => stream[c].sent = Chunks)
    BY <1>1, <1>14 DEF FinishDiff, DiffOver, Runs, End, Fail
  <2>2. /\ stream' = [stream EXCEPT ![c] = Closed] /\ wire' = [wire EXCEPT ![c] = w]
        /\ client' = [client EXCEPT ![c] = client[c]] /\ registry' = None
        /\ UNCHANGED <<lapsed, crossed>>
    BY <1>3, <1>14 DEF FinishDiff
  <2>3. x \in Nat /\ x \in {End, Fail}
    BY <1>1 DEF End, Fail
  <2> HIDE DEF x
  <2>4. w \in Seq(Nat) /\ w # <<>> /\ w[Len(w)] = x /\ Elems(w) = Elems(wire[c]) \cup {x}
    BY <1>2, <2>3, ElemsAppend
  <2>5. \A i \in 1..(Len(w) - 1) : w[i] \in Elems(wire[c])
    <3>1. Len(w) - 1 = Len(wire[c]) /\ \A i \in 1..Len(wire[c]) : w[i] = wire[c][i]
      BY <1>2, <2>3
    <3>2. DOMAIN wire[c] = 1..Len(wire[c])
      BY <1>2
    <3> QED
      BY <3>1, <3>2 DEF Elems
  <2> HIDE DEF w
  <2>6. /\ stream[c].sent <= Chunks /\ Elems(wire[c]) \subseteq 1..stream[c].sent
        /\ 1..stream[c].sent \subseteq Elems(client[c].got) \cup Elems(wire[c])
        /\ client[c].pc \in {"open", "ack"}
    BY <1>2, <2>1 DEF Travels
  <2>7. 1..stream[c].sent \subseteq 1..Chunks
    BY <1>1, <1>2, <2>6
  <2>8. Travels(client[c], Closed, w)
    <3>1. \A i \in 1..(Len(w) - 1) : w[i] \in 1..Chunks
      BY <2>5, <2>6, <2>7
    <3>2. w[Len(w)] = End => 1..Chunks \subseteq Elems(client[c].got) \cup Elems(w)
      BY <2>1, <2>4, <2>6
    <3>3. Closed.sent <= Chunks /\ Elems(Closed.pending) \subseteq 1..Closed.sent
      BY <1>1, <1>4, <1>5
    <3> QED
      BY <1>2, <1>4, <2>3, <2>4, <2>6, <3>1, <3>2, <3>3 DEF Travels
  <2>9. registry' \in Client \cup {None} /\ crossed' \in BOOLEAN /\ lapsed' \in 0..MaxAckFails
    BY <1>3, <2>2
  <2> QED
    BY <1>1, <1>2, <1>4, <2>2, <2>4, <2>8, <2>9, CallMoves
<1>15. ASSUME NEW c \in Client, PublishingFails(c) PROVE StreamBase'
  <2>1. /\ client[c].pc \in {"open", "ack"} /\ lapsed < MaxAckFails /\ lapsed' = lapsed + 1
        /\ stream[c].pc # "closed" \/ (wire[c] # <<>> /\ wire[c][Len(wire[c])] = End)
        /\ stream' = [stream EXCEPT ![c] = Closed]
        /\ client' = [client EXCEPT ![c] = client[c]]
        /\ registry' \in {None, registry} /\ crossed' = crossed
    BY <1>3, <1>15 DEF PublishingFails
  <2>2. PICK n \in {m \in 0..Len(wire[c]) : m = 0 \/ wire[c][m] # End} :
          wire' = [wire EXCEPT ![c] = Append(SubSeq(wire[c], 1, n), Fail)]
    BY <1>3, <1>15 DEF PublishingFails
  <2> DEFINE w == Append(SubSeq(wire[c], 1, n), Fail)
  <2>3. Fail \in Nat /\ Fail # End
    BY <1>1 DEF Fail, End
  <2>4. /\ n \in Nat /\ n <= Len(wire[c]) /\ Len(wire[c]) \in Nat
        /\ SubSeq(wire[c], 1, n) \in Seq(Nat) /\ Len(SubSeq(wire[c], 1, n)) = n
        /\ \A i \in 1..n : SubSeq(wire[c], 1, n)[i] = wire[c][i]
    BY <1>2, <2>2
  <2>5. /\ w \in Seq(Nat) /\ w # <<>> /\ Len(w) = n + 1 /\ w[Len(w)] = Fail
        /\ \A i \in 1..n : w[i] = wire[c][i]
    BY <2>3, <2>4
  <2> HIDE DEF w
  <2>6. ASSUME NEW i \in 1..n PROVE wire[c][i] \in 1..Chunks
    <3>1. CASE stream[c].pc # "closed"
      <4>1. Elems(wire[c]) \subseteq 1..stream[c].sent /\ stream[c].sent <= Chunks
        BY <1>2, <3>1 DEF Travels
      <4>2. wire[c][i] \in Elems(wire[c])
        BY <1>2, <2>4, <2>6 DEF Elems
      <4> QED
        BY <1>1, <1>2, <4>1, <4>2
    <3>2. CASE stream[c].pc = "closed"
      <4>1. wire[c][Len(wire[c])] = End /\ \A j \in 1..(Len(wire[c]) - 1) : wire[c][j] \in 1..Chunks
        BY <1>2, <2>1, <3>2 DEF Travels
      <4>2. n = 0 \/ n # Len(wire[c])
        BY <2>2, <4>1
      <4>3. i \in 1..(Len(wire[c]) - 1)
        BY <2>4, <4>2
      <4> QED
        BY <4>1, <4>3
    <3> QED
      BY <3>1, <3>2
  <2>7. Travels(client[c], Closed, w)
    <3>0. Len(w) - 1 = n /\ \A i \in 1..n : wire[c][i] \in 1..Chunks
      BY <2>4, <2>5, <2>6
    <3>1. \A i \in 1..(Len(w) - 1) : w[i] \in 1..Chunks
      BY <2>5, <3>0
    <3>2. Closed.sent <= Chunks /\ Elems(Closed.pending) \subseteq 1..Closed.sent
      BY <1>1, <1>4, <1>5
    <3>3. /\ client[c].pc \in {"open", "ack"} /\ Elems(client[c].got) \subseteq 1..Chunks
          /\ (client[c].pc = "ack" => client[c].got # <<>>)
      BY <1>2, <2>1 DEF Travels
    <3>4. w # <<>> /\ w[Len(w)] = Fail /\ Fail # End
      BY <2>3, <2>5
    <3> QED
      BY <1>4, <3>1, <3>2, <3>3, <3>4 DEF Travels
  <2>8. lapsed' \in 0..MaxAckFails
    BY <1>3, <2>1, StreamConstants
  <2>9. wire' = [wire EXCEPT ![c] = w] /\ registry' \in Client \cup {None} /\ crossed' \in BOOLEAN
    BY <1>3, <2>1, <2>2 DEF w
  <2> QED
    BY <1>1, <1>2, <1>4, <2>1, <2>5, <2>7, <2>8, <2>9, CallMoves
<1> QED
  BY <1>6, <1>7, <1>8, <1>9, <1>10, <1>11, <1>12, <1>13, <1>14, <1>15
  DEF StreamNext, ClientStep, ThreadStep

-----------------------------------------------------------------------------
(* Acknowledgements *)

\* A running stream has counted or taken an acknowledgement for every chunk that was
\* acknowledged: the chunks sent, less the outstanding ones, and those not yet taken.  One
\* that has given up lacks one.
Counted(s) ==
    /\ s.pc = "run" => IsFiniteSet(s.acked) /\ Cardinality(s.acked) + s.outstanding <= s.acks + s.sent
    /\ s.pc = "raised" => s.acked # 1..s.sent

\* While RPCs do not overlap, acknowledgements find the stream they are meant for.
AckInv ==
    ~crossed =>
        /\ \A c, d \in Client :
             client[c].pc \in {"open", "ack"} /\ client[d].pc \in {"open", "ack"} => c = d
        /\ \A c \in Client : stream[c].pc # "closed" => registry = c
        /\ \A c \in Client : Counted(stream[c])

\* n chunks are n.
LEMMA ChunkCount ==
    ASSUME NEW n \in Nat
    PROVE  IsFiniteSet(1..n) /\ Cardinality(1..n) = n
<1>1. /\ IsFiniteSet(1..n)
      /\ Cardinality(1..n) = IF 1 > n THEN 0 ELSE n - 1 + 1
  BY FS_Interval
<1> QED
  BY <1>1

\* A stream moves, in the only call there is.
LEMMA AckMoves ==
    ASSUME StreamBase, AckInv, NEW c \in Client, NEW s \in StreamState, stream[c].pc # "closed",
           stream' = [stream EXCEPT ![c] = s], ~crossed => Counted(s), UNCHANGED <<client, crossed>>,
           registry' = registry \/ s.pc = "closed"
    PROVE  AckInv'
<1> SUFFICES ASSUME ~crossed PROVE AckInv'
  BY DEF AckInv
<1>1. \A d \in Client : d # c => stream[d].pc = "closed" /\ stream'[d] = stream[d]
  BY DEF AckInv, StreamBase, StreamTypeOK, Travels
<1>2. stream'[c] = s
  BY DEF StreamBase, StreamTypeOK
<1>3. \A d \in Client : Counted(stream'[d])
  BY <1>1, <1>2 DEF AckInv
<1>4. ASSUME NEW d \in Client PROVE Counted(stream[d])'
  BY <1>3 DEF Counted
<1> QED
  BY <1>1, <1>2, <1>4 DEF AckInv

\* No step of a client, a thread or the event loop counts an acknowledgement twice or for
\* another call, as long as RPCs do not overlap.
LEMMA AckStep ==
    ASSUME StreamBase, AckInv, StreamNext
    PROVE  AckInv'
<1>1. ASSUME NEW c \in Client
      PROVE  /\ stream[c] \in StreamState /\ Travels(client[c], stream[c], wire[c])
             /\ stream[c].sent \in Nat /\ stream[c].acks \in Nat /\ stream[c].outstanding \in Nat
             /\ stream[c].timeouts \in Nat /\ stream[c].pending \in Seq(Nat)
             /\ stream[c].acked \in SUBSET Nat /\ stream[c].pc \in {"run", "raised", "closed"}
  BY DEF StreamBase, StreamTypeOK, StreamState
<1>2. stream \in [Client -> StreamState] /\ client \in [Client -> ClientState]
  BY DEF StreamBase, StreamTypeOK
<1>3. ASSUME NEW s, s.pc = "closed" PROVE Counted(s)
  BY <1>3 DEF Counted
<1>4. Closed \in StreamState /\ Closed.pc = "closed" /\ Counted(Closed)
  <2>1. <<>> \in Seq(Nat) /\ {} \in SUBSET Nat
    OBVIOUS
  <2>2. Closed \in StreamState /\ Closed.pc = "closed"
    BY <2>1 DEF NewStream, Closed, StreamState
  <2> QED
    BY <1>3, <2>2
<1>5. ASSUME NEW c \in Client, OpenDiff(c) PROVE AckInv'
  <2> SUFFICES ASSUME ~crossed' PROVE AckInv'
    BY DEF AckInv
  <2>1. /\ ~crossed /\ \A d \in Client : d # c => client[d].pc \notin {"open", "ack"}
        /\ registry' = c
        /\ \A d \in Client : d # c => client'[d] = client[d] /\ stream'[d] = stream[d]
        /\ stream'[c] = NewStream
    BY <1>2, <1>5 DEF OpenDiff
  <2>2. \A d \in Client : d # c => stream[d].pc = "closed"
    BY <1>1, <2>1 DEF Travels
  <2>3. Counted(NewStream)
    <3>1. /\ NewStream.pc = "run" /\ NewStream.acked = {} /\ NewStream.outstanding = 0
          /\ NewStream.acks = 0 /\ NewStream.sent = 0
      BY DEF NewStream
    <3> QED
      BY <3>1, FS_EmptySet DEF Counted
  <2>4. \A d \in Client : Counted(stream'[d])
    BY <1>3, <2>1, <2>2, <2>3
  <2>5. ASSUME NEW d \in Client PROVE Counted(stream[d])'
    BY <2>4 DEF Counted
  <2> QED
    BY <2>1, <2>2, <2>5 DEF AckInv
<1>6. ASSUME NEW c \in Client, UNCHANGED <<stream, registry, crossed>>, client[c].pc \in {"open", "ack"},
             \A d \in Client : d # c => client'[d] = client[d]
      PROVE  AckInv'
  <2>1. ASSUME NEW d \in Client, Counted(stream[d]) PROVE Counted(stream[d])'
    BY <1>6, <2>1 DEF Counted
  <2> QED
    BY <1>6, <2>1 DEF AckInv
<1>7. ASSUME NEW c \in Client, ReceiveChunk(c) \/ ReceiveEnd(c) PROVE AckInv'
  BY <1>2, <1>6, <1>7 DEF ReceiveChunk, ReceiveEnd
<1>8. ASSUME NEW c \in Client, ServeAck(c) PROVE AckInv'
  <2> DEFINE x == client[c].got[Len(client[c].got)]
             b(d) == IF d = c /\ Runs(c) THEN [stream[d] EXCEPT !.acked = @ \cup {x}] ELSE stream[d]
             k == [client[c] EXCEPT !.pc = "open"]
  <2>1. /\ client[c].pc = "ack" /\ client' = [client EXCEPT ![c] = k] /\ k.pc = "open"
        /\ \A d \in Client : stream'[d] = IF d = registry /\ b(d).pc # "closed" THEN Acknowledged(b(d)) ELSE b(d)
        /\ UNCHANGED <<registry, crossed>>
    BY <1>2, <1>8 DEF ServeAck, ClientState
  <2> HIDE DEF k
  <2> SUFFICES ASSUME ~crossed PROVE AckInv'
    BY <2>1 DEF AckInv
  <2>2. x \in Nat
    BY <1>1, <2>1 DEF Travels, StreamBase, StreamTypeOK, ClientState
  <2> HIDE DEF x
  <2>3. ASSUME NEW d \in Client
        PROVE  /\ b(d) \in StreamState /\ b(d).pc = stream[d].pc /\ b(d).sent = stream[d].sent
               /\ b(d).acks = stream[d].acks /\ b(d).outstanding = stream[d].outstanding
               /\ b(d).acked = IF d = c /\ Runs(c) THEN stream[d].acked \cup {x} ELSE stream[d].acked
    BY <1>1, <2>2 DEF StreamState
  <2> HIDE DEF b
  <2>4. ASSUME NEW s \in StreamState
        PROVE  /\ Acknowledged(s).pc = s.pc /\ Acknowledged(s).sent = s.sent /\ Acknowledged(s).acked = s.acked
               /\ Acknowledged(s).outstanding = s.outstanding /\ Acknowledged(s).acks = s.acks + 1
    BY DEF Acknowledged, StreamState
  <2>5. \A d \in Client : d # c => stream[d].pc = "closed"
    BY <1>1, <2>1 DEF AckInv, Travels
  <2>6. ASSUME NEW d \in Client PROVE stream'[d].pc = stream[d].pc
    <3>1. b(d) \in StreamState /\ b(d).pc = stream[d].pc
      BY <2>3
    <3>2. Acknowledged(b(d)).pc = b(d).pc
      BY <2>4, <3>1
    <3> QED
      BY <2>1, <3>1, <3>2
  <2>7. stream[c].pc # "closed" => registry = c
    BY DEF AckInv
  <2>9. ASSUME stream[c].pc # "closed" PROVE Counted(stream'[c])
    <3> DEFINE s == Acknowledged(b(c))
    <3>1. stream'[c] = s
      BY <2>1, <2>3, <2>7, <2>9
    <3>2. /\ s.pc = stream[c].pc /\ s.sent = stream[c].sent /\ s.outstanding = stream[c].outstanding
          /\ s.acks = stream[c].acks + 1
          /\ s.acked = IF Runs(c) THEN stream[c].acked \cup {x} ELSE stream[c].acked
      BY <2>3, <2>4
    <3> HIDE DEF s
    <3>3. Counted(stream[c])
      BY DEF AckInv
    <3>4. CASE stream[c].pc = "run"
      <4>1. IsFiniteSet(stream[c].acked) /\ Cardinality(stream[c].acked) \in Nat
            /\ Cardinality(stream[c].acked) + stream[c].outstanding <= stream[c].acks + stream[c].sent
        BY <3>3, <3>4, FS_CardinalityType DEF Counted
      <4>2. /\ IsFiniteSet(stream[c].acked \cup {x})
            /\ \/ Cardinality(stream[c].acked \cup {x}) = Cardinality(stream[c].acked)
               \/ Cardinality(stream[c].acked \cup {x}) = Cardinality(stream[c].acked) + 1
        BY <4>1, FS_AddElement
      <4>3. s.acked = stream[c].acked \cup {x}
        BY <3>2, <3>4 DEF Runs
      <4>4. ASSUME NEW h \in Nat, NEW i \in Nat, NEW o \in Nat, NEW a \in Nat, NEW n \in Nat,
                   h + o <= a + n, i = h \/ i = h + 1
            PROVE  i + o <= (a + 1) + n
        BY <4>4
      <4>5. Cardinality(stream[c].acked \cup {x}) + stream[c].outstanding <= (stream[c].acks + 1) + stream[c].sent
        BY <1>1, <4>1, <4>2, <4>4, FS_CardinalityType
      <4>6. Cardinality(s.acked) + s.outstanding <= s.acks + s.sent
        BY <3>2, <4>3, <4>5
      <4> QED
        BY <3>1, <3>2, <3>4, <4>2, <4>3, <4>6 DEF Counted
    <3>5. CASE stream[c].pc = "raised"
      BY <3>1, <3>2, <3>3, <3>5 DEF Counted, Runs
    <3> QED
      BY <1>1, <2>9, <3>4, <3>5
  <2>10. \A d \in Client : Counted(stream'[d])
    BY <1>3, <2>5, <2>6, <2>9
  <2>11. ASSUME NEW d \in Client PROVE Counted(stream[d])'
    BY <2>10 DEF Counted
  <2>12. \A d \in Client : client'[d].pc \in {"open", "ack"} => client[d].pc \in {"open", "ack"}
    BY <1>2, <2>1
  <2> QED
    BY <2>1, <2>6, <2>11, <2>12 DEF AckInv
<1>9. ASSUME NEW c \in Client, LoseAck(c) PROVE AckInv'
  <2> DEFINE k == Retry(client[c])
  <2>1. /\ client[c].pc = "ack" /\ client' = [client EXCEPT ![c] = k]
        /\ stream' = [stream EXCEPT ![c] = Closed] /\ crossed' = crossed
    BY <1>2, <1>9 DEF LoseAck
  <2>2. k.pc \in {"retry", "failed"}
    BY <1>2 DEF ClientState, Retry
  <2> HIDE DEF k
  <2> SUFFICES ASSUME ~crossed PROVE AckInv'
    BY <2>1 DEF AckInv
  <2>3. \A d \in Client : d # c => stream[d].pc = "closed" /\ stream'[d] = stream[d]
    BY <1>1, <1>2, <2>1 DEF AckInv, Travels
  <2>4. stream'[c] = Closed
    BY <1>2, <2>1
  <2>5. \A d \in Client : stream'[d].pc = "closed" /\ Counted(stream'[d])
    BY <1>3, <1>4, <2>3, <2>4
  <2>6. ASSUME NEW d \in Client PROVE Counted(stream[d])'
    BY <2>5 DEF Counted
  <2>7. \A d \in Client : client'[d].pc \in {"open", "ack"} => client[d].pc \in {"open", "ack"}
    BY <1>2, <2>1, <2>2
  <2> QED
    BY <2>1, <2>5, <2>6, <2>7 DEF AckInv
<1>10. ASSUME NEW c \in Client, SendChunk(c) PROVE AckInv'
  <2> DEFINE x == stream[c].sent + 1
             n == stream[c].outstanding + 1
             q == Append(stream[c].pending, x)
             s == [stream[c] EXCEPT !.sent = x, !.outstanding = n, !.pending = q]
  <2>1. /\ stream[c].pc = "run" /\ stream' = [stream EXCEPT ![c] = s] /\ UNCHANGED <<client, registry, crossed>>
    BY <1>10 DEF SendChunk, Runs
  <2>2. x \in Nat /\ n \in Nat /\ q \in Seq(Nat)
    BY <1>1
  <2> HIDE DEF x, n, q
  <2>3. /\ s \in StreamState /\ s.pc = "run" /\ s.sent = x /\ s.outstanding = n
        /\ s.acked = stream[c].acked /\ s.acks = stream[c].acks
    BY <1>1, <2>1, <2>2 DEF StreamState
  <2> HIDE DEF s
  <2>4. ASSUME ~crossed PROVE Counted(s)
    <3>1. IsFiniteSet(stream[c].acked) /\ Cardinality(stream[c].acked) \in Nat
          /\ Cardinality(stream[c].acked) + stream[c].outstanding <= stream[c].acks + stream[c].sent
      BY <2>1, <2>4, FS_CardinalityType DEF AckInv, Counted
    <3>2. Cardinality(stream[c].acked) + n <= stream[c].acks + x
      BY <1>1, <3>1 DEF x, n
    <3> QED
      BY <2>3, <3>1, <3>2 DEF Counted
  <2> QED
    BY <2>1, <2>3, <2>4, AckMoves
<1>11. ASSUME NEW c \in Client, TakeAck(c) PROVE AckInv'
  <2> DEFINE a == stream[c].acks - 1
             n == stream[c].outstanding - 1
             s == [stream[c] EXCEPT !.acks = a, !.outstanding = n, !.timeouts = 0]
  <2>1. /\ stream[c].pc = "run" /\ stream' = [stream EXCEPT ![c] = s] /\ UNCHANGED <<client, registry, crossed>>
        /\ stream[c].acks > 0 /\ stream[c].outstanding > 0
    BY <1>1, <1>11, StreamConstants DEF TakeAck, AwaitsAck, Runs
  <2>2. a \in Nat /\ n \in Nat
    BY <1>1, <2>1
  <2> HIDE DEF a, n
  <2>3. /\ s \in StreamState /\ s.pc = "run" /\ s.sent = stream[c].sent /\ s.outstanding = n
        /\ s.acked = stream[c].acked /\ s.acks = a
    BY <1>1, <2>1, <2>2 DEF StreamState
  <2> HIDE DEF s
  <2>4. ASSUME ~crossed PROVE Counted(s)
    <3>1. IsFiniteSet(stream[c].acked) /\ Cardinality(stream[c].acked) \in Nat
          /\ Cardinality(stream[c].acked) + stream[c].outstanding <= stream[c].acks + stream[c].sent
      BY <2>1, <2>4, FS_CardinalityType DEF AckInv, Counted
    <3>2. Cardinality(stream[c].acked) + n <= a + stream[c].sent
      BY <1>1, <3>1 DEF a, n
    <3> QED
      BY <2>3, <3>1, <3>2 DEF Counted
  <2> QED
    BY <2>1, <2>3, <2>4, AckMoves
<1>12. ASSUME NEW c \in Client, AckTimesOut(c) PROVE AckInv'
  <2> DEFINE n == stream[c].timeouts + 1
             p == IF n >= Patience THEN "raised" ELSE "run"
             s == [stream[c] EXCEPT !.timeouts = n, !.pc = p]
  <2>1. /\ stream[c].pc = "run" /\ stream' = [stream EXCEPT ![c] = s] /\ UNCHANGED <<client, registry, crossed>>
        /\ stream[c].acks = 0 /\ stream[c].outstanding > 0
    BY <1>1, <1>12, StreamConstants DEF AckTimesOut, AwaitsAck, Runs
  <2>2. n \in Nat /\ p \in {"raised", "run"}
    BY <1>1
  <2> HIDE DEF n, p
  <2>3. /\ s \in StreamState /\ s.pc = p /\ s.sent = stream[c].sent
        /\ s.outstanding = stream[c].outstanding
        /\ s.acked = stream[c].acked /\ s.acks = stream[c].acks
    BY <1>1, <2>1, <2>2 DEF StreamState
  <2> HIDE DEF s
  <2>4. ASSUME ~crossed PROVE Counted(s)
    <3>1. IsFiniteSet(stream[c].acked) /\ Cardinality(stream[c].acked) \in Nat
          /\ Cardinality(stream[c].acked) + stream[c].outstanding <= stream[c].acks + stream[c].sent
      BY <2>1, <2>4, FS_CardinalityType DEF AckInv, Counted
    <3>2. Cardinality(stream[c].acked) # stream[c].sent
      BY <1>1, <2>1, <3>1
    <3>3. stream[c].acked # 1..stream[c].sent
      BY <1>1, <3>2, ChunkCount
    <3> QED
      BY <2>3, <3>1, <3>3 DEF Counted
  <2>5. s.pc # "closed"
    BY <2>2, <2>3
  <2> QED
    BY <2>1, <2>3, <2>4, AckMoves
<1>13. ASSUME NEW c \in Client, FinishDiff(c) PROVE AckInv'
  <2>1. /\ stream[c].pc # "closed" /\ stream' = [stream EXCEPT ![c] = Closed]
        /\ UNCHANGED <<client, crossed>>
    BY <1>13 DEF FinishDiff, DiffOver, Runs
  <2> QED
    BY <1>4, <2>1, AckMoves
<1>14. ASSUME NEW c \in Client, PublishingFails(c) PROVE AckInv'
  <2>1. /\ client[c].pc \in {"open", "ack"} /\ stream' = [stream EXCEPT ![c] = Closed]
        /\ UNCHANGED <<client, crossed>>
    BY <1>14 DEF PublishingFails
  <2> SUFFICES ASSUME ~crossed PROVE AckInv'
    BY <2>1 DEF AckInv
  <2>2. \A d \in Client : d # c => stream[d].pc = "closed" /\ stream'[d] = stream[d]
    BY <1>1, <1>2, <2>1 DEF AckInv, Travels
  <2>3. stream'[c] = Closed
    BY <1>2, <2>1
  <2>4. \A d \in Client : stream'[d].pc = "closed" /\ Counted(stream'[d])
    BY <1>3, <1>4, <2>2, <2>3
  <2>5. ASSUME NEW d \in Client PROVE Counted(stream[d])'
    BY <2>4 DEF Counted
  <2> QED
    BY <2>1, <2>4, <2>5 DEF AckInv
<1> QED
  BY <1>5, <1>7, <1>8, <1>9, <1>10, <1>11, <1>12, <1>13, <1>14 DEF StreamNext, ClientStep, ThreadStep

\* A caller that is told a diff succeeded has all of its chunks, whatever acknowledgements
\* were lost, late or counted for another call; and when a diff fails because the client did
\* not acknowledge its chunks, some chunk was not acknowledged, unless RPCs overlapped.
THEOREM AnswersAlwaysTrue == StreamSpec => []AnswerTellsTruth
<1> DEFINE Inv == StreamBase /\ AckInv
<1>1. StreamInit => Inv
  <2> SUFFICES ASSUME StreamInit PROVE Inv
    OBVIOUS
  <2>1. /\ \A c \in Client : stream[c] = Closed /\ wire[c] = <<>> /\ client[c].pc = "idle" /\ client[c].got = <<>>
        /\ setup \in Setups /\ Chunks \in Nat \ {0}
    BY StreamConstants DEF StreamInit, Chunks
  <2>2. <<>> \in Seq(Nat) /\ {} \in SUBSET Nat /\ Elems(<<>>) = {}
    BY DEF Elems
  <2>3. Closed \in StreamState /\ Closed.pc = "closed" /\ Closed.sent = 0 /\ Closed.pending = <<>>
    BY <2>2 DEF NewStream, Closed, StreamState
  <2>4. [pc |-> "idle", tries |-> 0, got |-> <<>>] \in ClientState
    BY <2>2 DEF ClientState
  <2>5. StreamTypeOK
    <3>1. registry \in Client \cup {None} /\ lapsed \in 0..MaxAckFails /\ crossed \in BOOLEAN
      <4>1. registry = None /\ lapsed = 0 /\ crossed = FALSE
        BY DEF StreamInit
      <4>2. 0 \in 0..MaxAckFails
        BY StreamConstants
      <4> QED
        BY <4>1, <4>2
    <3>2. stream \in [Client -> StreamState] /\ wire \in [Client -> Seq(Nat)]
      BY <2>2, <2>3 DEF StreamInit
    <3> DEFINE k == [pc |-> "idle", tries |-> 0, got |-> <<>>]
    <3>3. client = [c \in Client |-> k] /\ k \in ClientState
      BY <2>4 DEF StreamInit
    <3> HIDE DEF k
    <3>4. client \in [Client -> ClientState]
      BY <3>3
    <3> QED
      BY <3>1, <3>2, <3>4 DEF StreamTypeOK
  <2>6. \A c \in Client : Travels(client[c], stream[c], wire[c])
    BY <2>1, <2>2, <2>3 DEF Travels
  <2>7. AckInv
    BY <2>1, <2>3 DEF AckInv, Counted
  <2> QED
    BY <2>1, <2>5, <2>6, <2>7 DEF StreamBase
<1>2. Inv /\ [StreamNext]_<<streamVars, setup>> => Inv'
  <2> SUFFICES ASSUME StreamBase, AckInv, [StreamNext]_<<streamVars, setup>> PROVE Inv'
    OBVIOUS
  <2>1. CASE StreamNext
    BY <2>1, StreamStep, AckStep
  <2>2. CASE UNCHANGED <<streamVars, setup>>
    <3>1. UNCHANGED <<registry, stream, wire, client, lapsed, crossed, setup>>
      BY <2>2 DEF streamVars
    <3>2. ASSUME NEW c \in Client PROVE Travels(client[c], stream[c], wire[c])'
      BY <3>1 DEF StreamBase, Travels, Chunks, End, Fail
    <3>3. AckInv'
      BY <3>1 DEF AckInv, Counted
    <3> QED
      BY <3>1, <3>2, <3>3 DEF StreamBase, StreamTypeOK
  <2> QED
    BY <2>1, <2>2
<1>3. Inv => AnswerTellsTruth
  <2> SUFFICES ASSUME StreamBase, AckInv PROVE AnswerTellsTruth
    OBVIOUS
  <2>1. \A c \in Client : client[c].pc = "ok" => Elems(client[c].got) = 1..Chunks
    BY DEF StreamBase, Travels
  <2>2. ResultComplete
    BY <2>1 DEF ResultComplete, StreamBase, Elems
  <2>3. TimeoutMeansUnacked
    BY DEF TimeoutMeansUnacked, AckInv, Counted
  <2> QED
    BY <2>2, <2>3 DEF AnswerTellsTruth
<1> HIDE DEF Inv
<1> QED
  BY <1>1, <1>2, <1>3, PTL DEF StreamSpec
=============================================================================
