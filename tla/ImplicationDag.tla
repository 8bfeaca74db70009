--------------------------- MODULE ImplicationDag ---------------------------
(***************************************************************************)
(* The implication graph of the ontology                                   *)
(* (crates/ontology/src/implication_dag.rs).  The code keeps a petgraph    *)
(* DiGraph, whose nodes are vector slots and whose edges join slots, next  *)
(* to a map from tag to slot.  Removing a node moves the last slot into    *)
(* the hole, so the map has to be patched: both are kept here.             *)
(***************************************************************************)
EXTENDS Integers, Sequences, FiniteSets, SequencesExt, Functions

EmptyDag == [graph |-> <<>>, edges |-> {}, nodes |-> [t \in {} |-> 0]]

Slots(dag) == DOMAIN dag.graph

contains(dag, t) == t \in DOMAIN dag.nodes

add_tag(dag, t) ==
    IF contains(dag, t) THEN dag
    ELSE [dag EXCEPT !.graph = Append(@, t),
                     !.nodes = [u \in DOMAIN @ \cup {t} |->
                                    IF u = t THEN Len(dag.graph) + 1 ELSE @[u]]]

\* The slots reached from S, S included (the breadth-first search with a
\* visited set that reachable and closure both run).
Reached(dag, S) ==
    LET wave[n \in 0 .. Len(dag.graph)] ==
            IF n = 0 THEN S
            ELSE wave[n-1] \cup {e[2] : e \in {d \in dag.edges : d[1] \in wave[n-1]}}
    IN  wave[Len(dag.graph)]

\* Successors of one slot.
Outgoing(dag, i) == {e[2] : e \in {d \in dag.edges : d[1] = i}}

\* petgraph's toposort succeeds iff no slot reaches itself.
cycle_check(dag) == \A i \in Slots(dag) : i \notin Reached(dag, Outgoing(dag, i))

\* Answers [ok, dag]: an unknown endpoint or a cycle is an error, and the
\* edge that closed the cycle is taken out again.
add_implication(dag, from, to) ==
    IF ~contains(dag, from) \/ ~contains(dag, to) THEN [ok |-> FALSE, dag |-> dag]
    ELSE LET with == [dag EXCEPT !.edges = @ \cup {<<dag.nodes[from], dag.nodes[to]>>}]
         IN  IF cycle_check(with) THEN [ok |-> TRUE, dag |-> with]
             ELSE [ok |-> FALSE, dag |-> dag]

remove_implication(dag, from, to) ==
    IF contains(dag, from) /\ contains(dag, to)
    THEN [dag EXCEPT !.edges = @ \ {<<dag.nodes[from], dag.nodes[to]>>}]
    ELSE dag

\* DiGraph::remove_node: the edges of the slot go, the last slot takes its
\* place and the edges of the last slot follow it.
remove_node(dag, i) ==
    LET last == Len(dag.graph)
        moved(j) == IF j = last THEN i ELSE j
    IN  [dag EXCEPT
            !.graph = SubSeq([@ EXCEPT ![i] = dag.graph[last]], 1, last - 1),
            !.edges = {<<moved(e[1]), moved(e[2])>> :
                           e \in {d \in @ : d[1] # i /\ d[2] # i}}]

\* Mutant of remove_tag: the slot of the tag that was moved is not patched.
remove_tag_unpatched(dag, t) ==
    IF contains(dag, t)
    THEN LET i == dag.nodes[t]
         IN  [remove_node(dag, i) EXCEPT !.nodes = Restrict(@, DOMAIN @ \ {t})]
    ELSE dag

remove_tag(dag, t) ==
    IF contains(dag, t)
    THEN LET i    == dag.nodes[t]
             last == Len(dag.graph)
             left == Restrict(dag.nodes, DOMAIN dag.nodes \ {t})
         IN  [remove_node(dag, i) EXCEPT
                 !.nodes = IF last # i THEN [left EXCEPT ![dag.graph[last]] = i] ELSE left]
    ELSE dag

is_a(dag, t, ancestor) ==
    IF t = ancestor THEN contains(dag, t)
    ELSE /\ contains(dag, t) /\ contains(dag, ancestor)
         /\ dag.nodes[ancestor] \in Reached(dag, {dag.nodes[t]})

\* The materialised set of a set of direct tags; unknown tags drop out.
closure(dag, direct) ==
    LET starts == {dag.nodes[t] : t \in {u \in direct : contains(dag, u)}}
    IN  {dag.graph[i] : i \in Reached(dag, starts)}

TagEdges(dag) == {<<dag.graph[e[1]], dag.graph[e[2]]>> : e \in dag.edges}

\* The image keeps the sorted node list and the edge list; loading adds the
\* nodes in that order and then the edges one by one, each of them checked.
snapshot(dag) == [tags |-> ToSet(dag.graph), edges |-> TagEdges(dag)]

from_snapshot(snap) ==
    LET order == SetToSortSeq(snap.tags, <)
        bare  == FoldLeft(add_tag, EmptyDag, order)
        step(acc, e) == IF acc.ok THEN add_implication(acc.dag, e[1], e[2]) ELSE acc
        lex(d, e) == d[1] < e[1] \/ (d[1] = e[1] /\ d[2] < e[2])
    IN  FoldLeft(step, [ok |-> TRUE, dag |-> bare], SetToSortSeq(snap.edges, lex))
=============================================================================
