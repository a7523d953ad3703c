---------------------------- MODULE MCExecuteFlow ----------------------------
(* Instances of ExecuteFlow for TLC. *)
EXTENDS ExecuteFlowRefinement, TLC

CONSTANTS a, b, c, d, x, y

Plain(s, t)     == [source |-> s, target |-> t, handle |-> Default]
Via(s, t, h)    == [source |-> s, target |-> t, handle |-> h]
NoPersist(E, k) == [edges |-> E, kind |-> k, persist |-> {}]

ThreeNodes == {a, b, c}
FourNodes  == {a, b, c, d}

\* A router's edge may leave through any handle, any other node's through Default.
RouterHandlesOnly(f) ==
    \A e \in f.edges : f.kind[e.source] # "router" => e.handle = Default

(* Every acyclic wiring of three nodes (up to renaming) with every choice of types. *)
Forward == {Plain(a, b), Plain(a, c), Plain(b, c)}
Wirings == SUBSET (Forward \cup {Via(a, b, x), Via(a, c, x)})

SomeKinds == {"trigger", "processor", "router", "stop", "chart_out", "note"}

AllThreeNodeFlows ==
    {f \in {NoPersist(E, k) : E \in Wirings, k \in [ThreeNodes -> SomeKinds]} : RouterHandlesOnly(f)}
    \cup {NoPersist({Plain(a, b), Plain(b, a)}, [n \in ThreeNodes |-> "processor"])}

(* A checkpointed source, a node of any kind, and one that reads both of them. *)
Triangle == {Plain(a, b), Plain(b, c), Plain(a, c)}

TriangleFlow(ka, kb, kc) ==
    [edges |-> Triangle, kind |-> (a :> ka @@ b :> kb @@ c :> kc), persist |-> {a}]

RerunFlows ==
    {TriangleFlow(ka, kb, kc) :
        ka \in {"processor", "lazy"}, kb \in {"processor", "router", "note"},
        kc \in {"pushdown", "report_out", "other", "table_out"}}

(* Fork and join: the widest layer, followed by a node that reads it all. *)
Diamond == {Plain(a, b), Plain(a, c), Plain(b, d), Plain(c, d)}

DiamondFlows ==
    {NoPersist(Diamond, (a :> ka @@ b :> kb @@ c :> kc @@ d :> "processor")) :
        ka \in {"processor", "trigger"}, kb, kc \in {"processor", "stop", "tap"}}
    \cup {NoPersist({Via(a, b, x), Via(a, c, y), Plain(b, d), Plain(c, d)},
                    (a :> "router" @@ b :> "processor" @@ c :> kc @@ d :> "processor")) :
             kc \in {"stop", "processor"}}

(* A router fans out, its branches merge again. *)
MergeFlows ==
    {NoPersist({Via(a, b, x), Via(a, c, y), Plain(b, d), Plain(c, d)},
               (a :> "router" @@ b :> "processor" @@ c :> "processor" @@ d :> "processor"))}

(* A chart in the middle of a branch. *)
ChartFlows ==
    {NoPersist({Plain(a, b), Plain(b, c)},
               (a :> "processor" @@ b :> "chart_out" @@ c :> "processor"))}

(* Two routers in a row, a stop and an error among their branches. *)
RouterFlows ==
    {NoPersist(E, (a :> "router" @@ b :> kb @@ c :> kc @@ d :> kd)) :
        E \in {{Via(a, b, x), Via(a, c, y), Plain(b, d), Plain(c, d)},
               {Via(a, b, x), Via(a, b, y), Via(a, c, x), Plain(c, d)},
               {Via(a, b, x), Via(b, d, x), Via(a, c, y), Via(c, d, y)}},
        kb \in {"router", "stop", "processor"}, kc \in {"processor", "router", "note"},
        kd \in {"processor", "stop"}}

EndFlows == DiamondFlows \cup {f \in RouterFlows : RouterHandlesOnly(f)}

=============================================================================
