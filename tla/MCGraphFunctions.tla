-------------------------- MODULE MCGraphFunctions --------------------------
(* Instances of the graph functions' loops for TLC.  A behaviour is one call: of _dependency_layers,
   which begins as topological_sort does, or of a walk. *)
EXTENDS DependencyLayering, ReachWalk

CONSTANTS a, b, c, d, x, y

VARIABLE part

Plain(s, t) == [source |-> s, target |-> t, handle |-> y]
Twice(s, t) == [source |-> s, target |-> t, handle |-> x]

(* All graphs on three nodes, loops and edges to a node that is not listed included; a may be a
   router that is wired to b twice. *)
AllEdges == {Plain(s, t) : s, t \in {a, b, c}}
Wirings == SUBSET AllEdges \cup {E \cup {Twice(a, b)} : E \in SUBSET AllEdges}

SmallGraphs == [nodes : {{a, b, c}, {a, b}}, edges : Wirings]

(* Four nodes along a fixed order, a back edge, a router that is wired to a node twice. *)
Pairs == {Plain(a, b), Plain(a, c), Plain(a, d), Plain(b, c), Plain(b, d), Plain(c, d),
          Plain(d, b), Twice(a, d)}

FourNodeGraphs == [nodes : {{a, b, c, d}}, edges : SUBSET Pairs]

AllGraphs == SmallGraphs \cup FourNodeGraphs

AllWalks == [edges : Wirings, starts : {{a}, {b, c}}]

NoWalk == walk = [edges |-> {}, starts |-> {}] /\ stack = <<>> /\ seen = {}

NoSort ==
    /\ graph = [nodes |-> {}, edges |-> {}] /\ in_deg = [n \in Nodes |-> 0]
    /\ line = <<>> /\ popped = 0 /\ todo = {} /\ outcome = "none"

Start ==
    \/ part = "sort" /\ Init /\ graph \in SmallGraphs /\ depth = [n \in Nodes |-> 0] /\ NoWalk
    \/ part = "layers" /\ LayeringInit /\ graph \in FourNodeGraphs /\ NoWalk
    \/ part = "walk" /\ WalkInit /\ NoSort /\ depth = [n \in Nodes |-> 0]

Step ==
    /\ UNCHANGED part
    /\ \/ part = "sort" /\ Next /\ UNCHANGED <<depth, walkVars>>
       \/ part = "layers" /\ LayeringNext /\ UNCHANGED walkVars
       \/ part = "walk" /\ WalkNext /\ UNCHANGED layeringVars

Functions == Start /\ [][Step]_<<part, layeringVars, walkVars>> /\ WF_walkVars(part = "walk" /\ WalkNext)
=============================================================================
