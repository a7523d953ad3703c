------------------------------ MODULE ReachWalk ------------------------------
(***************************************************************************)
(* The loop of descendants_from and descendants_of (backend/app/engine/    *)
(* executor.py): a walk with a stack and a set of nodes seen.  The first   *)
(* is given the starts, the second starts from the children of a node.     *)
(***************************************************************************)
EXTENDS FlowGraph, Sequences

CONSTANT Walks      \* the walks asked for: edges and starts

ASSUME ReachWalkAssumption ==
    /\ Walks \subseteq [edges : SUBSET Edge, starts : SUBSET Nodes]
    /\ \A w \in Walks : IsFiniteSet(w.edges)

VARIABLES walk, stack, seen

walkVars == <<walk, stack, seen>>

WalkInit ==
    /\ walk \in Walks
    /\ stack \in Listings(walk.starts)
    /\ seen = {}

\* adj[n]: a target once per edge, in the order in which the client lists them.
Adjacent(n) ==
    {[i \in DOMAIN l |-> l[i].target] : l \in Listings({e \in walk.edges : e.source = n})}

Top  == stack[Len(stack)]
Below == SubSeq(stack, 1, Len(stack) - 1)

SkipSeen ==
    /\ stack # <<>> /\ Top \in seen
    /\ stack' = Below
    /\ UNCHANGED <<walk, seen>>

\* Mutated form: a node is expanded again whenever it is met.
VisitAgain ==
    /\ stack # <<>>
    /\ seen' = seen \cup {Top}
    /\ \E next \in Adjacent(Top) : stack' = Below \o next
    /\ UNCHANGED walk

\* Mutated form: what the node leads to replaces what was still to be done.
VisitForgetting ==
    /\ stack # <<>> /\ Top \notin seen
    /\ seen' = seen \cup {Top}
    /\ \E next \in Adjacent(Top) : stack' = IF next = <<>> THEN Below ELSE next
    /\ UNCHANGED walk

Visit ==
    /\ stack # <<>> /\ Top \notin seen
    /\ seen' = seen \cup {Top}
    /\ \E next \in Adjacent(Top) : stack' = Below \o next
    /\ UNCHANGED walk

WalkReturned == stack = <<>> /\ UNCHANGED walkVars

WalkNext == SkipSeen \/ Visit \/ WalkReturned

WalkSpec == WalkInit /\ [][WalkNext]_walkVars

-----------------------------------------------------------------------------
(* Correctness *)

OnStack == {stack[i] : i \in 1 .. Len(stack)}

\* When the stack is empty, exactly the nodes reachable from the starts were seen,
\* cycles and repeated edges notwithstanding.
SeesDescendants == stack = <<>> => seen = DescendantsFrom(walk.edges, walk.starts)

\* The walk ends, on a cycle as well.
WalkEnds == <>(stack = <<>>)

(***************************************************************************)
(* The inductive invariant: nothing is forgotten, and all that was seen or *)
(* waits is reachable.                                                     *)
(***************************************************************************)
WalkTypeOK == walk \in Walks /\ stack \in Seq(Nodes) /\ seen \subseteq Nodes

\* While the walk goes on, nothing it owes is dropped: the starts, and the targets
\* of every node seen, were seen or wait on the stack.
NothingForgotten ==
    /\ walk.starts \subseteq seen \cup OnStack
    /\ \A e \in walk.edges : e.source \in seen => e.target \in seen \cup OnStack

OnlyReachable == seen \cup OnStack \subseteq DescendantsFrom(walk.edges, walk.starts)

WalkInv == WalkTypeOK /\ NothingForgotten /\ OnlyReachable
=============================================================================
