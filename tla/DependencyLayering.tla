------------------------- MODULE DependencyLayering -------------------------
(***************************************************************************)
(* _dependency_layers (backend/app/engine/executor.py): the loop of        *)
(* topological_sort once more, which also computes the layer of each node. *)
(* Its local names are indeg for in_deg, and `seen` for the length of the  *)
(* order.                                                                  *)
(*                                                                         *)
(* The function is given the order that topological_sort returned and      *)
(* drops edges that leave it; graphs here have no such edges.  Cyclic      *)
(* graphs, which topological_sort refuses before, are kept: the function   *)
(* has a branch for them.                                                  *)
(***************************************************************************)
EXTENDS TopologicalSort

VARIABLE depth      \* the layer of each node so far

layeringVars == <<vars, depth>>

LayeringInit ==
    /\ Init
    /\ ~Dangling(graph)
    /\ depth = [n \in Nodes |-> 0]

LayeringPop == Pop /\ UNCHANGED depth

Larger(i, j) == IF i < j THEN j ELSE i

\* Mutated form: every relaxed edge pushes its target one layer down.
LayeringRelaxCount(e) ==
    /\ Relax(e)
    /\ depth' = [depth EXCEPT ![e.target] = depth[e.target] + 1]

LayeringRelax(e) ==
    /\ Relax(e)
    /\ depth' = [depth EXCEPT ![e.target] = Larger(depth[e.target], depth[e.source] + 1)]

\* "sorted" stands for the layers by depth, "cycle" for one layer per node.
LayeringFinish == Finish /\ UNCHANGED depth

LayeringReturned == Returned /\ UNCHANGED depth

LayeringNext ==
    \/ LayeringPop
    \/ \E e \in todo : LayeringRelax(e)
    \/ LayeringFinish
    \/ LayeringReturned

LayeringSpec == LayeringInit /\ [][LayeringNext]_layeringVars

-----------------------------------------------------------------------------
(* Correctness *)

\* Depths stay within the number of nodes, so that every layer has an index.
DepthOK == depth \in [Nodes -> 0 .. popped] /\ popped <= Cardinality(Nodes)

\* The layers are the ones that FlowGraph defines: one past the deepest parent.
LayersAreDependencyLayers ==
    (outcome = "sorted" /\ graph.nodes = Nodes) => depth \in DependencyLayers(graph.edges)

\* "Nodes sharing a layer have no path between them, which is what makes running
\* them concurrently safe": whatever a node leads to lies in a later layer.
PathsLeadToLaterLayers ==
    outcome = "sorted" =>
        \A n \in Nodes : \A m \in Descendants(graph.edges, n) : depth[n] < depth[m]

(***************************************************************************)
(* The inductive invariant, on top of the loop's: an edge that was taken   *)
(* off leads to a later layer, a node is one past the source of one of     *)
(* them, and depths never outrun the order.                                *)
(***************************************************************************)
SpentLeadsDown == \A e \in Spent : depth[e.source] < depth[e.target]

DeepestParent ==
    \A n \in Nodes : \/ depth[n] = 0
                     \/ \E e \in Spent : e.target = n /\ depth[n] = depth[e.source] + 1

OrderOutrunsDepth == \A i \in 1 .. popped : depth[line[i]] < i

LayeringInv ==
    /\ depth \in [Nodes -> 0 .. popped]
    /\ SpentLeadsDown
    /\ DeepestParent
    /\ OrderOutrunsDepth
    /\ ~Dangling(graph)
=============================================================================
