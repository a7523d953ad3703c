------------------------------ MODULE FlowGraph ------------------------------
(***************************************************************************)
(* The graph of a flow and the functions the executor computes from it     *)
(* (backend/app/engine/executor.py, "DAG utilities").                      *)
(*                                                                         *)
(* An edge is a record because a router may be wired to one target twice,  *)
(* through two of its handles.  Only a router looks at the handle; the     *)
(* edges of every other node carry Default.                                *)
(*                                                                         *)
(* Everything is stated declaratively, so that it can be reasoned about;   *)
(* modules TopologicalSort, DependencyLayering and ReachWalk model the     *)
(* source's loops and show that they compute what is defined here.         *)
(***************************************************************************)
EXTENDS Integers, FiniteSets

CONSTANTS
    Nodes,      \* the node ids of the canvas
    Handles,    \* the branch labels an edge may leave a router through
    Default     \* the router's default_label

ASSUME FlowGraphAssumption ==
    /\ IsFiniteSet(Nodes)
    /\ Default \in Handles

Edge == [source : Nodes, target : Nodes, handle : Handles]

-----------------------------------------------------------------------------
Children(E, n) == {e.target : e \in {d \in E : d.source = n}}

\* parents_of: the upstream nodes whose frames a node reads.
Parents(E, n) == {e.source : e \in {d \in E : d.target = n}}

\* The sequences that list a set, each member once.
Listings(S) ==
    {s \in [1 .. Cardinality(S) -> S] :
        /\ \A i, j \in DOMAIN s : s[i] = s[j] => i = j
        /\ \A n \in S : \E i \in DOMAIN s : s[i] = n}

Closed(E, S) == \A e \in E : e.source \in S => e.target \in S

(***************************************************************************)
(* descendants_from: the starts and all that is reachable from them.  The  *)
(* least closed set is written as the meet of all of them.                 *)
(***************************************************************************)
DescendantsFrom(E, starts) ==
    {m \in Nodes : \A S \in SUBSET Nodes :
                       (starts \subseteq S /\ Closed(E, S)) => m \in S}

\* descendants_of: what lies strictly downstream of n (n itself on a cycle).
Descendants(E, n) == DescendantsFrom(E, Children(E, n))

-----------------------------------------------------------------------------
(***************************************************************************)
(* topological_sort raises "Flow contains a cycle." when it cannot empty   *)
(* the graph: some set of nodes keeps at least one parent each.            *)
(***************************************************************************)
IsCyclic(E) ==
    \E S \in (SUBSET Nodes) \ {{}} : \A n \in S : Parents(E, n) \cap S # {}

Rank == 0 .. Cardinality(Nodes)

\* The position at which the last parent of n leaves Kahn's queue, 0 for a root.
ReadyAt(E, pos, n) ==
    CHOOSE r \in Rank :
        /\ \A p \in Parents(E, n) : pos[p] <= r
        /\ r = 0 \/ \E p \in Parents(E, n) : pos[p] = r

(***************************************************************************)
(* The orders topological_sort can return, as the position of each node.   *)
(* The queue is first-in first-out, so a node never overtakes one that     *)
(* became ready earlier; ties are broken by the order in which nodes and   *)
(* edges are listed, which is any order.                                   *)
(***************************************************************************)
TopologicalOrders(E) ==
    {pos \in [Nodes -> Rank \ {0}] :
        /\ \A n, m \in Nodes : pos[n] = pos[m] => n = m
        /\ \A e \in E : pos[e.source] < pos[e.target]
        /\ \A n, m \in Nodes :
               pos[n] < pos[m] => ReadyAt(E, pos, n) <= ReadyAt(E, pos, m)}

(***************************************************************************)
(* _dependency_layers: one past the deepest layer of any parent.           *)
(***************************************************************************)
DependencyLayers(E) ==
    {depth \in [Nodes -> Rank] :
        /\ \A e \in E : depth[e.source] < depth[e.target]
        /\ \A n \in Nodes : \/ depth[n] = 0
                            \/ \E p \in Parents(E, n) : depth[n] = depth[p] + 1}

\* Mutated form: a node sits in the layer after its nearest parent.
ShallowBatches(E, driver) ==
    {depth \in [Nodes -> Rank] :
        \A n \in Nodes :
            IF Parents(E, n) = {} THEN depth[n] = 0
            ELSE /\ \A p \in Parents(E, n) : depth[n] <= depth[p] + 1
                 /\ \E p \in Parents(E, n) : depth[n] = depth[p] + 1}

(***************************************************************************)
(* The two drivers at the end of execute_flow hand out the nodes in        *)
(* batches: one node at a time in topological order, or, with              *)
(* SFS_PARALLEL_BRANCHES set, one dependency layer at a time.              *)
(***************************************************************************)
Batches(E, driver) ==
    IF driver = "parallel" THEN DependencyLayers(E) ELSE TopologicalOrders(E)
=============================================================================
