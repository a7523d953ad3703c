------------------------ MODULE ExecuteFlowRefinement ------------------------
(***************************************************************************)
(* execute_flow keeps the promise of FlowRun.  A node has settled when its *)
(* coroutine has returned: that a router or a failing node extends         *)
(* `blocked` before or after its broadcast cannot be told from outside.    *)
(***************************************************************************)
EXTENDS ExecuteFlow

Verdict(n) ==
    IF pc[n] # "done" THEN "pending"
    ELSE IF result[n] # "none" THEN result[n]
    ELSE IF Ran(n) THEN "ok"
    ELSE IF n \in blocked THEN "skipped" ELSE "silent"

Promise == INSTANCE FlowRun WITH
    active  <- phase = "nodes",
    verdict <- [n \in Nodes |-> Verdict(n)],
    taken   <- [n \in Nodes |-> IF pc[n] = "done" THEN chosen[n] ELSE None]

\* Every behaviour of the executor is one of the promise, under both drivers.
ImplementsFlowRun == Promise!Spec
=============================================================================
