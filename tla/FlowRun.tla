------------------------------- MODULE FlowRun -------------------------------
(***************************************************************************)
(* What a run of a flow promises, without coroutines, batches or a set of  *)
(* blocked nodes: the nodes settle one by one, a node settles after all of *)
(* its parents, and whether it is skipped follows from what settled        *)
(* upstream of it alone (docs/CAPABILITIES.md, "Branching, Stop & Tap" and *)
(* "Conditional branching").                                               *)
(***************************************************************************)
EXTENDS FlowGraph

CONSTANT None

VARIABLES
    flow,       \* the flow of the current run
    scope,      \* the nodes the run was asked for
    active,     \* a run is under way
    verdict,    \* how each node has settled
    taken       \* the branch each settled router took

vars == <<flow, scope, active, verdict, taken>>

Verdicts == {"pending", "ok", "error", "stopped", "skipped", "silent"}

Untouched == /\ verdict = [n \in Nodes |-> "pending"]
             /\ taken = [n \in Nodes |-> None]

Init == Untouched /\ ~active

\* A run is requested; a flow that cannot be ordered is refused.
Begin ==
    /\ ~active
    /\ active' \in BOOLEAN
    /\ Untouched'

Through(n, handles) ==
    {e.target : e \in {f \in flow.edges : f.source = n /\ f.handle \in handles}}

\* n stands between d and its data: it failed, it stopped the branch, or it
\* sent the data down branches that do not lead to d.
Withholds(n, d) ==
    \/ verdict[n] \in {"error", "stopped"} /\ d \in Descendants(flow.edges, n)
    \/ /\ taken[n] # None
       /\ d \in DescendantsFrom(flow.edges, Through(n, Handles \ {taken[n]}))
       /\ d \notin DescendantsFrom(flow.edges, Through(n, {taken[n]}))

Withheld(d) == \E n \in Nodes : Withholds(n, d)

Executable(n) == n \in scope /\ flow.kind[n] # "note"

MaySettle(n, v) ==
    IF Withheld(n) THEN v = "skipped"
    ELSE IF ~Executable(n) THEN v = "silent"
    ELSE IF flow.kind[n] = "stop" THEN v \in {"stopped", "error"}
    ELSE v \in {"ok", "error"}

Settle(n) ==
    /\ active
    /\ verdict[n] = "pending"
    /\ \A p \in Parents(flow.edges, n) : verdict[p] # "pending"
    /\ \E v \in Verdicts : MaySettle(n, v) /\ verdict' = [verdict EXCEPT ![n] = v]
    /\ IF flow.kind[n] = "router" /\ verdict'[n] = "ok"
       THEN \E label \in Handles : taken' = [taken EXCEPT ![n] = label]
       ELSE UNCHANGED taken
    /\ UNCHANGED <<flow, scope, active>>

\* The run is over when every node has settled.
End ==
    /\ active
    /\ \A n \in Nodes : verdict[n] # "pending"
    /\ ~active'
    /\ UNCHANGED <<flow, scope, verdict, taken>>

\* The server dies under the run.
Abort ==
    /\ ~active'
    /\ Untouched'
    /\ UNCHANGED <<flow, scope>>

Next == Begin \/ (\E n \in Nodes : Settle(n)) \/ End \/ Abort

Spec == Init /\ [][Next]_vars
=============================================================================
