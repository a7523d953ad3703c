--------------------------- MODULE TopologicalSort ---------------------------
(***************************************************************************)
(* The loop of topological_sort (backend/app/engine/executor.py), Kahn's   *)
(* algorithm over a list of nodes and a list of edges.                     *)
(*                                                                         *)
(* A node moves from the queue to the end of the order, and from nowhere   *)
(* else, so both are kept in one sequence: the order is the first `popped` *)
(* entries of `line`, the queue is the rest.                               *)
(*                                                                         *)
(* The lists come from the client.  An edge may name a node that is not    *)
(* listed: as a target it is given an in-degree of its own and enters the  *)
(* order, as a source it never leaves the graph.                           *)
(***************************************************************************)
EXTENDS FlowGraph, Sequences

CONSTANT Graphs     \* the graphs a client may send

Graph == [nodes : SUBSET Nodes, edges : SUBSET Edge]

ASSUME TopologicalSortAssumption ==
    /\ Graphs \subseteq Graph
    /\ \A g \in Graphs : IsFiniteSet(g.edges)

VARIABLES
    graph,      \* the nodes and edges given
    in_deg,     \* per node, how many of its incoming edges are still there
    line,       \* the order, followed by the queue
    popped,     \* how long the order is
    todo,       \* edges of the node popped last that were not taken off yet
    outcome     \* "none", "sorted" (returned) or "cycle" (raised)

vars == <<graph, in_deg, line, popped, todo, outcome>>

Into(g, n) == {e \in g.edges : e.target = n}

\* The keys of in_deg: the nodes listed, and every target.
Known(g) == g.nodes \cup {e.target : e \in g.edges}

Roots(g) == {n \in g.nodes : Into(g, n) = {}}

Init ==
    /\ graph \in Graphs
    /\ in_deg = [n \in Nodes |-> Cardinality(Into(graph, n))]
    /\ line \in Listings(Roots(graph))
    /\ popped = 0
    /\ todo = {}
    /\ outcome = "none"

\* queue.popleft, order.append.
Pop ==
    /\ todo = {} /\ popped < Len(line)
    /\ popped' = popped + 1
    /\ todo' = {e \in graph.edges : e.source = line[popped + 1]}
    /\ UNCHANGED <<graph, in_deg, line, outcome>>

\* Mutated form: a target is queued as soon as one of its edges is taken off.
RelaxEarly(e) ==
    /\ e \in todo
    /\ todo' = todo \ {e}
    /\ in_deg' = [in_deg EXCEPT ![e.target] = @ - 1]
    /\ line' = IF in_deg[e.target] = Cardinality(Into(graph, e.target))
               THEN Append(line, e.target) ELSE line
    /\ UNCHANGED <<graph, popped, outcome>>

\* One edge of the popped node; the last edge into a target queues it.
Relax(e) ==
    /\ e \in todo
    /\ todo' = todo \ {e}
    /\ in_deg' = [in_deg EXCEPT ![e.target] = @ - 1]
    /\ line' = IF in_deg[e.target] = 1 THEN Append(line, e.target) ELSE line
    /\ UNCHANGED <<graph, popped, outcome>>

\* Mutated form: raise only if nothing at all could be ordered.
FinishUnlessEmpty ==
    /\ todo = {} /\ popped = Len(line) /\ outcome = "none"
    /\ outcome' = IF Len(line) > 0 THEN "sorted" ELSE "cycle"
    /\ UNCHANGED <<graph, in_deg, line, popped, todo>>

\* The queue is empty: return the order, or raise "Flow contains a cycle."
Finish ==
    /\ todo = {} /\ popped = Len(line) /\ outcome = "none"
    /\ outcome' = IF Len(line) = Cardinality(graph.nodes) THEN "sorted" ELSE "cycle"
    /\ UNCHANGED <<graph, in_deg, line, popped, todo>>

Returned == outcome # "none" /\ UNCHANGED vars

Next == Pop \/ (\E e \in todo : Relax(e)) \/ Finish \/ Returned

Spec == Init /\ [][Next]_vars

-----------------------------------------------------------------------------
(* Correctness *)

\* Every variable stays within its type; no in-degree ever falls below zero.
TypeOK ==
    /\ graph \in Graphs
    /\ in_deg \in [Nodes -> Nat]
    /\ line \in Seq(Nodes)
    /\ popped \in 0 .. Len(line)
    /\ todo \subseteq graph.edges
    /\ outcome \in {"none", "sorted", "cycle"}

Popped == {line[i] : i \in 1 .. popped}
InLine == {line[i] : i \in 1 .. Len(line)}

\* No node is queued twice, nor before the sources of all edges into it are in
\* the order, whatever the edges are: parallel, circular or to missing nodes.
ParentsPoppedFirst ==
    /\ \A i, j \in 1 .. Len(line) : line[i] = line[j] => i = j
    /\ \A e \in graph.edges : \A j \in 1 .. Len(line) :
           line[j] = e.target => \E i \in 1 .. popped : i < j /\ line[i] = e.source

Dangling(g) == \E e \in g.edges : ~({e.source, e.target} \subseteq g.nodes)

\* If all edges are between listed nodes, the exception is raised for cyclic flows
\* and for no others.
RaisesOnCyclesOnly ==
    (outcome # "none" /\ ~Dangling(graph)) => (outcome = "cycle" <=> IsCyclic(graph.edges))

Position == [n \in Nodes |-> CHOOSE i \in 1 .. Len(line) : line[i] = n]

\* What is returned is one of the orders that FlowGraph allows: all nodes, along
\* the edges, first ready first served.
ReturnsTopologicalOrder ==
    (outcome = "sorted" /\ ~Dangling(graph) /\ graph.nodes = Nodes) =>
        Position \in TopologicalOrders(graph.edges)

(***************************************************************************)
(* The inductive invariant: an in-degree counts the edges that were not    *)
(* taken off; a node is in the line once that count is zero; it entered    *)
(* the line when the last of its parents left the queue, ReadyFrom; and a  *)
(* set whose members all have a parent in it is never entered.             *)
(***************************************************************************)
Spent == {e \in graph.edges : e.source \in Popped /\ e \notin todo}

Remaining(n) == {e \in graph.edges : e.target = n /\ e \notin Spent}

InDegreesCount == \A n \in Nodes : in_deg[n] = Cardinality(Remaining(n))

LineIsReady == \A n \in Nodes : n \in InLine <=> (n \in Known(graph) /\ Remaining(n) = {})

TodoIsCurrent == \A e \in todo : popped > 0 /\ e.source = line[popped]

NoneTwice == \A i, j \in 1 .. Len(line) : line[i] = line[j] => i = j

ReadyFrom(j, r) ==
    /\ \A e \in graph.edges : e.target = line[j] => \E i \in 1 .. r : line[i] = e.source
    /\ r = 0 \/ \E e \in graph.edges : e.target = line[j] /\ e.source = line[r]

ReadyInTime == \A j \in 1 .. Len(line) : \E r \in 0 .. popped : r < j /\ ReadyFrom(j, r)

FirstReadyFirst ==
    \A j, k \in 1 .. Len(line) : \A r, s \in 0 .. popped :
        (j < k /\ ReadyFrom(j, r) /\ ReadyFrom(k, s)) => r <= s

SelfFeeding(S) == \A n \in S : Parents(graph.edges, n) \cap S # {}

CyclesStayOut == \A S \in SUBSET Nodes : SelfFeeding(S) => InLine \cap S = {}

OutcomeIsFinal ==
    outcome # "none" =>
        /\ todo = {} /\ popped = Len(line)
        /\ outcome = "sorted" <=> Len(line) = Cardinality(graph.nodes)

IInv ==
    /\ TypeOK
    /\ InDegreesCount
    /\ LineIsReady
    /\ TodoIsCurrent
    /\ NoneTwice
    /\ ReadyInTime
    /\ FirstReadyFirst
    /\ CyclesStayOut
    /\ OutcomeIsFinal

-----------------------------------------------------------------------------
\* "Flow contains a cycle." (executor.py:59), said of a flow that contains one.
CycleMeansCycle == outcome = "cycle" => IsCyclic(graph.edges)
=============================================================================
