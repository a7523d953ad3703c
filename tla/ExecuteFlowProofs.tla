-------------------------- MODULE ExecuteFlowProofs --------------------------
(***************************************************************************)
(* Theorems about ExecuteFlow for every set of nodes and flows, and that   *)
(* it implements FlowRun.  They rest on FlowGraphAssumption and            *)
(* ExecuteFlowAssumption only.                                             *)
(***************************************************************************)
EXTENDS ExecuteFlowRefinement, FiniteSetTheorems, TLAPS

(***************************************************************************)
(* Facts about reachability.  DescendantsFrom is a meet of closed sets, so *)
(* they follow without induction: exhibit a closed set.                    *)
(***************************************************************************)

\* A closed set that contains the starts contains all that is reachable.
LEMMA ReachableStaysInside ==
    ASSUME NEW E, NEW starts, NEW S \in SUBSET Nodes,
           starts \subseteq S, Closed(E, S)
    PROVE  DescendantsFrom(E, starts) \subseteq S
BY DEF DescendantsFrom

\* What is reachable is closed under edges, and contains the starts.
LEMMA ReachableIsClosed ==
    ASSUME NEW E \in SUBSET Edge, NEW starts \in SUBSET Nodes
    PROVE  /\ Closed(E, DescendantsFrom(E, starts))
           /\ starts \subseteq DescendantsFrom(E, starts)
           /\ DescendantsFrom(E, starts) \subseteq Nodes
<1>1. \A e \in E : e.source \in Nodes /\ e.target \in Nodes
  BY DEF Edge
<1>2. QED
  BY <1>1 DEF DescendantsFrom, Closed

\* The targets of a node's edges are nodes.
LEMMA ChildrenAreNodes ==
    ASSUME NEW E \in SUBSET Edge, NEW n
    PROVE  Children(E, n) \subseteq Nodes
BY DEF Children, Edge
-----------------------------------------------------------------------------
(* Type correctness *)

LEMMA PlanTypes ==
    ASSUME NEW f \in Flows, NEW driver, Plan(f, driver)
    PROVE  /\ batch' \in [Nodes -> Rank]
           /\ \A e \in f.edges : batch'[e.source] < batch'[e.target]
           /\ phase' = "nodes" /\ finale' = "none"
BY DEF Plan, Batches, DependencyLayers, TopologicalOrders

LEMMA FreshTypes ==
    ASSUME FreshLocals
    PROVE  /\ pc' \in [Nodes -> PCs]
           /\ blocked' \subseteq Nodes
           /\ chosen' \in [Nodes -> Handles \cup {None}]
           /\ result' \in [Nodes -> Statuses \cup {"none"}]
BY DEF FreshLocals, PCs

\* A request appends a row and leaves it the last one.
LEMMA RequestTypes ==
    ASSUME TypeOK, NEW f \in Flows, Request(f)
    PROVE  /\ rows' \in Seq(Statuses \cup {"running"})
           /\ Len(rows') = Run + 1 /\ Run + 1 \in 1 .. MaxRuns
           /\ flow' = f /\ f \in Flow
<1>1. MaxRuns \in Nat /\ f \in Flow
  BY ExecuteFlowAssumption
<1>2. rows \in Seq(Statuses \cup {"running"}) /\ Run \in Nat
  BY DEF TypeOK, Run
<1>3. QED
  BY <1>1, <1>2 DEF Request, CanRequest, Run

LEMMA SayTypes ==
    ASSUME TypeOK, NEW n \in Nodes, NEW e \in NodeEvents, Say(n, e)
    PROVE  sent' \in [Nodes -> Seq(NodeEvents)]
<1>1. Append(sent[n], e) \in Seq(NodeEvents)
  BY DEF TypeOK
<1>2. QED
  BY <1>1 DEF TypeOK, Say

LEMMA StoreTypes ==
    ASSUME TypeOK, NEW n \in Nodes, phase # "idle", StoreFrame(n) \/ TearFrame(n)
    PROVE  cache' \in [Nodes -> Frame]
<1>1. Run \in 0 .. MaxRuns
  BY ExecuteFlowAssumption DEF TypeOK, Run
<1>2. \A w \in BOOLEAN : [by |-> Run, whole |-> w] \in Frame
  BY <1>1 DEF Frame
<1>3. QED
  BY <1>2 DEF TypeOK, StoreFrame, TearFrame

\* One step of one node keeps the types; the driver stays where it is.
LEMMA NodeStepTypes ==
    ASSUME TypeOK, Settled, NEW n \in Nodes, NodeStep(n)
    PROVE  TypeOK' /\ phase = "nodes" /\ phase' = "nodes" /\ flow' = flow /\ batch' = batch
<1> USE DEF TypeOK
<1>1. phase = "nodes"
  BY DEF Settled, NodeStep, SkipBlocked, SkipSilently, Begin, Reached, InputsMissing,
         RaisesUnwritten, RaisesTorn, SinkFails, Launch, Returns, ReturnsAndPersists,
         PersistFails, AfterPersist, PassThrough, Chart, Route, PassUnknown, Settle, SettleError
<1>2. flow' = flow /\ phase' = phase /\ batch' = batch /\ scope' = scope
      /\ finale' = finale /\ rows' = rows
  BY DEF NodeStep, SkipBlocked, SkipSilently, Begin, InputsMissing, Raise,
         RaisesUnwritten, RaisesTorn, SinkFails, Launch, Returns, ReturnsAndPersists,
         PersistFails, AfterPersist, PassThrough, Chart, Route, PassUnknown, Settle,
         SettleError, runVars
<1>3. pc' \in [Nodes -> PCs]
  BY DEF NodeStep, SkipBlocked, SkipSilently, Begin, InputsMissing, Raise, Goto, PCs,
         RaisesUnwritten, RaisesTorn, SinkFails, Launch, Returns, ReturnsAndPersists,
         PersistFails, AfterPersist, PassThrough, Chart, Route, PassUnknown, Settle, SettleError
<1>4. sent' \in [Nodes -> Seq(NodeEvents)]
  <2>1. CASE UNCHANGED sent
    BY <2>1
  <2>2. ASSUME NEW e \in NodeEvents, Say(n, e)  PROVE sent' \in [Nodes -> Seq(NodeEvents)]
    BY <2>2, SayTypes
  <2>3. UNCHANGED sent \/ \E e \in NodeEvents : Say(n, e)
    BY DEF NodeStep, SkipBlocked, SkipSilently, Begin, InputsMissing, Raise, NodeEvents, Report,
           RaisesUnwritten, RaisesTorn, SinkFails, Launch, Returns, ReturnsAndPersists,
           PersistFails, AfterPersist, PassThrough, Chart, Route, PassUnknown, Settle, SettleError
  <2>4. QED
    BY <2>1, <2>2, <2>3
<1>5. cache' \in [Nodes -> Frame]
  <2>1. UNCHANGED cache \/ StoreFrame(n) \/ TearFrame(n)
    BY DEF NodeStep, SkipBlocked, SkipSilently, Begin, InputsMissing, storeVars,
           RaisesUnwritten, RaisesTorn, SinkFails, Launch, Returns, ReturnsAndPersists,
           PersistFails, AfterPersist, PassThrough, Chart, Route, PassUnknown, Settle, SettleError
  <2>2. QED
    BY <2>1, <1>1, StoreTypes
<1>6. persisted' \in [Nodes -> 0 .. MaxRuns]
  <2>1. Run \in 0 .. MaxRuns
    BY ExecuteFlowAssumption DEF Run
  <2>2. QED
    BY <2>1 DEF NodeStep, SkipBlocked, SkipSilently, Begin, InputsMissing, storeVars, Raise,
           RaisesUnwritten, RaisesTorn, SinkFails, Launch, Returns, ReturnsAndPersists,
           PersistFails, AfterPersist, PassThrough, Chart, Route, PassUnknown, Settle, SettleError
<1>7. result' \in [Nodes -> Statuses \cup {"none"}] /\ chosen' \in [Nodes -> Handles \cup {None}]
  BY DEF NodeStep, SkipBlocked, SkipSilently, Begin, InputsMissing, Raise, Statuses,
         RaisesUnwritten, RaisesTorn, SinkFails, Launch, Returns, ReturnsAndPersists,
         PersistFails, AfterPersist, PassThrough, Chart, Route, PassUnknown, Settle, SettleError
<1>8. blocked' \subseteq Nodes
  <2>1. \A E, S : DescendantsFrom(E, S) \subseteq Nodes
    BY DEF DescendantsFrom
  <2>2. QED
    BY <2>1 DEF NodeStep, SkipBlocked, SkipSilently, Begin, InputsMissing, Raise, Blocks,
           Descendants, Cut,
           RaisesUnwritten, RaisesTorn, SinkFails, Launch, Returns, ReturnsAndPersists,
           PersistFails, AfterPersist, PassThrough, Chart, Route, PassUnknown, Settle, SettleError
<1>9. QED
  BY <1>1, <1>2, <1>3, <1>4, <1>5, <1>6, <1>7, <1>8 DEF Run
-----------------------------------------------------------------------------
(* What a node that has not returned knows of the nodes downstream of it *)

LEMMA EdgesAreTyped ==
    ASSUME TypeOK
    PROVE  flow.edges \in SUBSET Edge /\ \A e \in flow.edges : e.source \in Nodes /\ e.target \in Nodes
BY DEF TypeOK, Flow, Edge

\* Nothing downstream of a node that has not returned has been reached.
LEMMA DownstreamIsIdle ==
    ASSUME TypeOK, ParentsFirst, NEW n \in Nodes, pc[n] # "done"
    PROVE  \A d \in Descendants(flow.edges, n) : pc[d] = "idle"
<1> DEFINE S == {m \in Nodes : pc[m] = "idle"}
<1>1. Children(flow.edges, n) \subseteq S
  BY EdgesAreTyped DEF Children, ParentsFirst
<1>2. Closed(flow.edges, S)
  BY EdgesAreTyped DEF Closed, ParentsFirst
<1>3. Descendants(flow.edges, n) \subseteq S
  BY <1>1, <1>2, ReachableStaysInside DEF Descendants
<1>4. QED
  BY <1>3

\* Everything downstream of a node is in a later batch.
LEMMA DownstreamIsLater ==
    ASSUME TypeOK, BatchesFollowEdges, phase = "nodes", NEW n \in Nodes
    PROVE  \A d \in Descendants(flow.edges, n) : batch[n] < batch[d]
<1> DEFINE S == {m \in Nodes : batch[n] < batch[m]}
<1>0. \A m \in Nodes : batch[m] \in Int
  BY DEF TypeOK, Rank
<1>1. Children(flow.edges, n) \subseteq S
  BY EdgesAreTyped DEF Children, BatchesFollowEdges
<1>2. Closed(flow.edges, S)
  BY <1>0, EdgesAreTyped DEF Closed, BatchesFollowEdges
<1>3. Descendants(flow.edges, n) \subseteq S
  BY <1>1, <1>2, ReachableStaysInside DEF Descendants
<1>4. QED
  BY <1>3

\* A router blocks nodes downstream of itself only.
LEMMA CutIsDownstream ==
    ASSUME TypeOK, NEW n \in Nodes, NEW label
    PROVE  Cut(n, label) \subseteq Descendants(flow.edges, n)
<1>1. Children(flow.edges, n) \in SUBSET Nodes /\ flow.edges \in SUBSET Edge
  BY EdgesAreTyped, ChildrenAreNodes
<1>2. /\ Closed(flow.edges, Descendants(flow.edges, n))
      /\ Children(flow.edges, n) \subseteq Descendants(flow.edges, n)
      /\ Descendants(flow.edges, n) \in SUBSET Nodes
  BY <1>1, ReachableIsClosed DEF Descendants
<1>3. Targets(n, Handles \ {label}) \subseteq Children(flow.edges, n)
  BY DEF Targets, Children
<1>4. DescendantsFrom(flow.edges, Targets(n, Handles \ {label})) \subseteq Descendants(flow.edges, n)
  BY <1>2, <1>3, ReachableStaysInside
<1>5. QED
  BY <1>4 DEF Cut

\* What is downstream of a router and out of reach of the branch it took is what
\* the router blocks.
LEMMA OutOfReachIsCut ==
    ASSUME TypeOK, NEW n \in Nodes, NEW d \in Nodes, CutsOff(n, d)
    PROVE  d \in Cut(n, chosen[n])
<1> DEFINE A == DescendantsFrom(flow.edges, Targets(n, Handles \ {chosen[n]}))
           B == DescendantsFrom(flow.edges, Targets(n, {chosen[n]}))
<1>1. flow.edges \in SUBSET Edge
  BY EdgesAreTyped
<1>2. \A h : Targets(n, h) \in SUBSET Nodes
  BY <1>1 DEF Targets, Edge
<1> HIDE DEF A, B
<1>a. Closed(flow.edges, A) /\ Targets(n, Handles \ {chosen[n]}) \subseteq A /\ A \subseteq Nodes
  BY <1>1, <1>2, ReachableIsClosed DEF A
<1>b. Closed(flow.edges, B) /\ Targets(n, {chosen[n]}) \subseteq B /\ B \subseteq Nodes
  BY <1>1, <1>2, ReachableIsClosed DEF B
<1>3. /\ Closed(flow.edges, A) /\ Closed(flow.edges, B)
      /\ Targets(n, Handles \ {chosen[n]}) \subseteq A /\ Targets(n, {chosen[n]}) \subseteq B
      /\ A \cup B \in SUBSET Nodes
  BY <1>a, <1>b
<1>4. Children(flow.edges, n) \subseteq A \cup B
  BY <1>1, <1>3 DEF Children, Targets, Edge
<1>5. Closed(flow.edges, A \cup B)
  BY <1>3 DEF Closed
<1>6. Descendants(flow.edges, n) \subseteq A \cup B
  BY <1>3, <1>4, <1>5, ReachableStaysInside DEF Descendants
<1>7. QED
  BY <1>6 DEF CutsOff, Cut, A, B
-----------------------------------------------------------------------------
(* The invariant is inductive *)

LEMMA InitIInv == Init => IInv
<1> SUFFICES ASSUME Init PROVE IInv
  OBVIOUS
<1>1. TypeOK
  <2>1. NoFlow \in Flow
    BY DEF NoFlow, Flow, Kinds
  <2>2. rows \in Seq(Statuses \cup {"running"}) /\ Run = 0 /\ Run <= MaxRuns
    BY ExecuteFlowAssumption DEF Init, Run
  <2>3. NoFrame \in Frame /\ 0 \in Rank /\ 0 \in 0 .. MaxRuns
    BY ExecuteFlowAssumption, FS_CardinalityType, FlowGraphAssumption DEF NoFrame, Frame, Rank
  <2>4. QED
    BY <2>1, <2>2, <2>3 DEF Init, TypeOK, PCs
<1>2. QED
  BY <1>1 DEF Init, IInv, Settled, BatchesFollowEdges, ParentsFirst, UnreachedUnrun, OpenUntilSettled, Ran,
              HaltsBlock, CutsBlock, BlockedUnrun, BlockedForAReason, NoFlow

\* A run begins with nothing reached, blocked or chosen.
LEMMA FreshIInv ==
    ASSUME TypeOK', FreshLocals, \A n \in Nodes : ~Ran(n)',
           phase' = "nodes" => \A e \in flow'.edges : batch'[e.source] < batch'[e.target]
    PROVE  IInv'
<1>1. /\ \A n \in Nodes : pc'[n] = "idle" /\ result'[n] = "none" /\ chosen'[n] = None
      /\ blocked' = {}
  BY DEF FreshLocals
<1>2. \A e \in flow'.edges : e.source \in Nodes /\ e.target \in Nodes
  BY DEF TypeOK, Flow, Edge
<1>3. QED
  BY <1>1, <1>2 DEF IInv, Settled, BatchesFollowEdges, ParentsFirst, UnreachedUnrun, OpenUntilSettled, HaltsBlock,
                    CutsBlock, BlockedUnrun, BlockedForAReason

LEMMA StartStepIInv == ASSUME IInv, StartStep PROVE IInv'
<1> USE DEF IInv
<1>1. PICK f \in Flows :
        \/ StartCyclic(f)
        \/ \E driver \in Drivers : \/ \E start \in Nodes \cup {None} : Start(f, driver, start)
                                   \/ \E n \in Nodes : Resume(f, driver, n)
        \/ \E n \in Nodes : ResumeFails(f, n)
  BY DEF StartStep
<1>2. FreshLocals /\ Request(f)
  BY <1>1 DEF StartCyclic, Start, Resume, ResumeFails
<1>3. /\ rows' \in Seq(Statuses \cup {"running"}) /\ Len(rows') = Run + 1 /\ Run + 1 \in 1 .. MaxRuns
      /\ flow' = f /\ f \in Flow
  BY <1>2, RequestTypes
<1>4. \A E, S : DescendantsFrom(E, S) \subseteq Nodes
  BY DEF DescendantsFrom
<1>5. 0 \in Rank
  BY FS_CardinalityType, FlowGraphAssumption DEF Rank
<1>6. /\ phase' \in {"nodes", "over"} /\ finale' \in {"none", "flow_error", "flow_complete"}
      /\ scope' \subseteq Nodes /\ batch' \in [Nodes -> Rank]
      /\ phase' = "nodes" => \A e \in flow'.edges : batch'[e.source] < batch'[e.target]
  BY <1>1, <1>3, <1>4, <1>5, PlanTypes DEF StartCyclic, Start, Resume, ResumeFails, RunScope, Descendants
<1>7. sent' \in [Nodes -> Seq(NodeEvents)] /\ \A n \in Nodes : ~Ran(n)'
  <2>1. \A n \in Nodes : sent'[n] \in {<<>>, <<"node_complete">>, <<"node_error">>}
    BY <1>1 DEF StartCyclic, Start, Resume, ResumeFails
  <2>2. sent' = [n \in Nodes |-> sent'[n]]
    BY <1>1 DEF StartCyclic, Start, Resume, ResumeFails
  <2>3. {<<>>, <<"node_complete">>, <<"node_error">>} \subseteq Seq(NodeEvents)
    BY DEF NodeEvents
  <2>4. sent' \in [Nodes -> Seq(NodeEvents)]
    BY <2>1, <2>2, <2>3
  <2>5. ASSUME NEW n \in Nodes PROVE ~Ran(n)'
    <3>1. sent'[n] = <<>> \/ sent'[n][1] \in {"node_complete", "node_error"}
      BY <2>1
    <3>2. QED
      BY <3>1 DEF Ran
  <2>6. QED
    BY <2>4, <2>5
<1>8. cache' \in [Nodes -> Frame] /\ persisted' \in [Nodes -> 0 .. MaxRuns]
  <2>1. \A w \in BOOLEAN : [by |-> Run + 1, whole |-> w] \in Frame
    BY <1>3, ExecuteFlowAssumption DEF Frame
  <2>2. cache' = cache \/ \E n \in Nodes, w \in BOOLEAN :
                             cache' = [cache EXCEPT ![n] = [by |-> Run + 1, whole |-> w]]
    BY <1>1 DEF StartCyclic, Start, Resume, ResumeFails, storeVars
  <2>3. cache' \in [Nodes -> Frame]
    BY <1>1, <2>1, <2>2 DEF TypeOK
  <2>4. QED
    BY <1>1, <2>3 DEF StartCyclic, Start, Resume, ResumeFails, storeVars, TypeOK
<1>9. TypeOK'
  <2>1. Run' = Run + 1 /\ Run' <= MaxRuns /\ Run' > 0
    BY <1>3, ExecuteFlowAssumption DEF Run
  <2>2. QED
    BY <1>2, <1>3, <1>6, <1>7, <1>8, <2>1, FreshTypes DEF TypeOK
<1>10. QED
  BY <1>2, <1>6, <1>7, <1>9, FreshIInv

\* An event other than node_start does not make a node one that ran.
LEMMA SayKeepsUnrun ==
    ASSUME TypeOK, NEW n \in Nodes, NEW e \in NodeEvents, e # "node_start", Say(n, e),
           NEW m \in Nodes, ~Ran(m)
    PROVE  ~Ran(m)'
<1>1. CASE m # n
  BY <1>1 DEF TypeOK, Say, Ran
<1>2. CASE m = n
  <2>1. sent'[n] = Append(sent[n], e) /\ sent[n] \in Seq(NodeEvents)
    BY DEF TypeOK, Say
  <2>2. CASE sent[n] = <<>>
    BY <1>2, <2>1, <2>2 DEF Ran
  <2>3. CASE sent[n] # <<>>
    <3>1. sent'[n][1] = sent[n][1]
      BY <2>1, <2>3
    <3>2. QED
      BY <1>2, <2>3, <3>1 DEF Ran
  <2>4. QED
    BY <2>2, <2>3
<1>3. QED
  BY <1>1, <1>2
(***************************************************************************)
(* What a step of one node does to the rest: it leaves the other nodes     *)
(* alone, and what it blocks lies downstream of a node not yet returned.   *)
(***************************************************************************)
Effect(n) ==
    /\ pc[n] # "done" /\ pc'[n] # "idle"
    /\ pc[n] = "idle" => Turn(n)
    /\ pc'[n] = "started" => pc[n] = "idle"
    /\ \A m \in Nodes \ {n} : /\ pc'[m] = pc[m] /\ result'[m] = result[m]
                              /\ chosen'[m] = chosen[m] /\ sent'[m] = sent[m]
    /\ \/ UNCHANGED sent
       \/ \E e \in NodeEvents \ {"node_start"} : Say(n, e)
       \/ Say(n, "node_start") /\ pc[n] = "idle" /\ n \notin blocked /\ UNCHANGED blocked
    /\ \/ UNCHANGED <<blocked, result, chosen>> /\ pc'[n] # "done"
       \/ UNCHANGED <<blocked, result, chosen>> /\ pc'[n] = "done"
       \/ /\ pc[n] = "started" /\ pc'[n] = "reporting" /\ UNCHANGED result
          /\ chosen'[n] \in Handles /\ blocked' = blocked \cup Cut(n, chosen'[n])
       \/ /\ result'[n] = "ok" /\ pc'[n] = "done" /\ UNCHANGED <<blocked, chosen>>
       \/ /\ result'[n] \in {"error", "stopped"} /\ pc'[n] = "done" /\ Blocks(n) /\ UNCHANGED chosen

LEMMA NodeStepEffect ==
    ASSUME TypeOK, NEW n \in Nodes, NodeStep(n)
    PROVE  Effect(n)
<1> USE DEF TypeOK, Effect
<1>1. CASE SkipBlocked(n) \/ SkipSilently(n) \/ Begin(n)
  BY <1>1 DEF SkipBlocked, SkipSilently, Begin, Reached, Goto, Say, NodeEvents
<1>2. CASE InputsMissing(n) \/ RaisesUnwritten(n) \/ RaisesTorn(n) \/ SinkFails(n) \/ PersistFails(n)
  <2>1. pc[n] \in {"started", "running"} /\ Raise(n)
    BY <1>2 DEF InputsMissing, RaisesUnwritten, RaisesTorn, SinkFails, PersistFails
  <2>2. QED
    BY <2>1 DEF Raise, Goto, Say, NodeEvents
<1>3. CASE Launch(n) \/ Returns(n) \/ ReturnsAndPersists(n) \/ AfterPersist(n) \/ Chart(n)
  BY <1>3 DEF Launch, Returns, ReturnsAndPersists, AfterPersist, Chart, Goto, Say, NodeEvents
<1>4. CASE PassThrough(n) \/ PassUnknown(n)
  BY <1>4 DEF PassThrough, PassUnknown, Report, Goto, Say, NodeEvents
<1>5. CASE Route(n)
  BY <1>5 DEF Route, Goto, Say, NodeEvents
<1>6. CASE Settle(n) \/ SettleError(n)
  BY <1>6 DEF Settle, SettleError, Goto, Blocks
<1>7. QED
  BY <1>1, <1>2, <1>3, <1>4, <1>5, <1>6 DEF NodeStep

(***************************************************************************)
(* The step that preserves the invariant: a node that has not returned     *)
(* blocks only nodes that are idle, and those have not run.                *)
(***************************************************************************)
LEMMA NodeStepIInv == ASSUME IInv, NEW n \in Nodes, NodeStep(n) PROVE IInv'
<1> USE DEF IInv
<1>1. /\ TypeOK' /\ TypeOK /\ phase = "nodes" /\ phase' = "nodes"
      /\ flow' = flow /\ batch' = batch
  BY NodeStepTypes
<1>2. Effect(n)
  BY NodeStepEffect
<1>3. \A E, S : DescendantsFrom(E, S) \subseteq Nodes
  BY DEF DescendantsFrom
<1>4. \A d \in Descendants(flow.edges, n) : pc[d] = "idle" /\ ~Ran(d)
  BY <1>2, <1>3, DownstreamIsIdle DEF Effect, UnreachedUnrun, Descendants
<1>5. \A d \in blocked' : ~Ran(d)
  BY <1>2, <1>3, <1>4, CutIsDownstream DEF Effect, Blocks, BlockedUnrun, Descendants
<1>6. blocked \subseteq blocked'
  BY <1>2 DEF Effect, Blocks
<1>7. Settled' /\ BatchesFollowEdges'
  BY <1>1 DEF Settled, BatchesFollowEdges
<1>8. ParentsFirst'
  <2> SUFFICES ASSUME NEW e \in flow.edges, pc'[e.target] # "idle" PROVE pc'[e.source] = "done"
    BY <1>1 DEF ParentsFirst
  <2>1. e.source \in Nodes /\ e.target \in Nodes
    BY EdgesAreTyped
  <2>2. pc[e.source] = "done"
    BY <1>1, <1>2, <2>1 DEF Effect, Turn, ParentsFirst, BatchesFollowEdges
  <2>3. QED
    BY <1>2, <2>1, <2>2 DEF Effect
<1>9. UnreachedUnrun'
  BY <1>2 DEF Effect, UnreachedUnrun, Ran
<1>10. OpenUntilSettled'
  BY <1>2 DEF Effect, OpenUntilSettled
<1>11. HaltsBlock'
  <2> SUFFICES ASSUME NEW m \in Nodes, result'[m] \in {"error", "stopped"}
               PROVE  Descendants(flow.edges, m) \subseteq blocked'
    BY <1>1 DEF HaltsBlock
  <2>1. CASE result'[m] = result[m]
    BY <1>6, <2>1 DEF HaltsBlock
  <2>2. CASE result'[m] # result[m]
    BY <1>2, <2>2 DEF Effect, Blocks
  <2>3. QED
    BY <2>1, <2>2
<1>12. CutsBlock'
  <2> SUFFICES ASSUME NEW m \in Nodes, chosen'[m] # None PROVE Cut(m, chosen'[m]) \subseteq blocked'
    BY <1>1 DEF CutsBlock, Cut, Targets
  <2>1. CASE chosen'[m] = chosen[m]
    BY <1>6, <2>1 DEF CutsBlock
  <2>2. CASE chosen'[m] # chosen[m]
    BY <1>2, <2>2 DEF Effect
  <2>3. QED
    BY <2>1, <2>2
<1>13. BlockedUnrun'
  <2> SUFFICES ASSUME NEW d \in blocked' PROVE ~Ran(d)'
    BY DEF BlockedUnrun
  <2>1. ~Ran(d) /\ d \in Nodes
    BY <1>1, <1>5 DEF TypeOK
  <2>2. CASE UNCHANGED sent
    BY <2>1, <2>2 DEF Ran
  <2>3. CASE \E e \in NodeEvents \ {"node_start"} : Say(n, e)
    BY <1>1, <2>1, <2>3, SayKeepsUnrun
  <2>4. CASE pc[n] = "idle" /\ n \notin blocked /\ UNCHANGED blocked
    BY <1>2, <2>1, <2>4 DEF Effect, Ran
  <2>5. QED
    BY <1>2, <2>2, <2>3, <2>4 DEF Effect
<1>14. BlockedForAReason'
  <2> SUFFICES ASSUME NEW d \in blocked' PROVE \E m \in Nodes : (Stops(m, d) \/ CutsOff(m, d))'
    BY DEF BlockedForAReason
  <2>1. CASE d \in blocked
    <3>1. PICK m \in Nodes : Stops(m, d) \/ CutsOff(m, d)
      BY <2>1 DEF BlockedForAReason
    <3>2. Stops(m, d) => Stops(m, d)'
      BY <1>1, <1>2 DEF Stops, Effect, OpenUntilSettled
    <3>3. CutsOff(m, d) => CutsOff(m, d)'
      BY <1>1, <1>2 DEF CutsOff, Effect, OpenUntilSettled, Targets
    <3>4. QED
      BY <3>1, <3>2, <3>3
  <2>2. CASE d \notin blocked /\ blocked' = blocked \cup Descendants(flow.edges, n)
                /\ result'[n] \in {"error", "stopped"}
    BY <1>1, <2>2 DEF Stops
  <2>3. CASE d \notin blocked /\ chosen'[n] \in Handles /\ blocked' = blocked \cup Cut(n, chosen'[n])
    <3>1. d \in Cut(n, chosen'[n]) /\ d \in Descendants(flow.edges, n)
      BY <1>1, <2>3, CutIsDownstream
    <3>2. chosen'[n] # None
      BY <2>3, ExecuteFlowAssumption
    <3>3. CutsOff(n, d)'
      BY <1>1, <3>1, <3>2 DEF CutsOff, Cut, Targets
    <3>4. QED
      BY <3>3
  <2>4. QED
    BY <1>2, <2>1, <2>2, <2>3 DEF Effect, Blocks
<1>15. QED
  BY <1>1, <1>7, <1>8, <1>9, <1>10, <1>11, <1>12, <1>13, <1>14

\* Steps that touch no coroutine: the end of a run, the stores, stuttering.
LEMMA RestIInv ==
    ASSUME IInv, TypeOK', UNCHANGED <<flow, batch, nodeVars>>,
           phase' = "nodes" => phase = "nodes", Settled'
    PROVE  IInv'
<1>1. \A n, d \in Nodes : (Stops(n, d) => Stops(n, d)') /\ (CutsOff(n, d) => CutsOff(n, d)')
  BY DEF Stops, CutsOff, Targets, nodeVars
<1>2. BlockedForAReason'
  BY <1>1 DEF IInv, TypeOK, BlockedForAReason, nodeVars
<1>3. QED
  BY <1>2 DEF IInv, nodeVars, BatchesFollowEdges, ParentsFirst, UnreachedUnrun,
              OpenUntilSettled, HaltsBlock, CutsBlock, Cut, Targets, BlockedUnrun, Ran

LEMMA EndOfRunIInv == ASSUME IInv, Complete \/ Record PROVE IInv'
<1> USE DEF nodeVars, runVars, storeVars
<1>1. TypeOK /\ Settled
  BY DEF IInv
<1>2. CASE Complete
  <2>1. TypeOK' /\ Settled'
    BY <1>1, <1>2 DEF Complete, TypeOK, Settled, Run
  <2>2. QED
    BY <1>2, <2>1, RestIInv DEF Complete
<1>3. CASE Record
  <2>1. RunStatus \in Statuses \cup {"running"}
    BY DEF RunStatus, Statuses
  <2>2. rows' \in Seq(Statuses \cup {"running"}) /\ Len(rows') = Len(rows)
    BY <1>1, <1>3, <2>1 DEF Record, TypeOK, Run
  <2>3. TypeOK' /\ Settled'
    BY <1>1, <1>3, <2>2 DEF Record, TypeOK, Settled, Run
  <2>4. QED
    BY <1>3, <2>3, RestIInv DEF Record
<1>4. QED
  BY <1>2, <1>3

LEMMA CrashIInv == ASSUME IInv, Crash PROVE IInv'
<1>1. TypeOK
  BY DEF IInv
<1>2. FreshLocals /\ phase' = "idle" /\ finale' = "none" /\ UNCHANGED <<runVars, persisted, rows>>
  BY DEF Crash
<1>3. [by |-> Run, whole |-> FALSE] \in Frame
  BY <1>1, ExecuteFlowAssumption DEF TypeOK, Run, Frame, Crash
<1>4. cache' \in [Nodes -> Frame]
  BY <1>1, <1>3 DEF TypeOK, Crash
<1>5. sent' \in [Nodes -> Seq(NodeEvents)] /\ \A n \in Nodes : ~Ran(n)'
  BY DEF Crash, Ran
<1>6. TypeOK'
  BY <1>1, <1>2, <1>4, <1>5, FreshTypes DEF TypeOK, runVars, Run
<1>7. QED
  BY <1>2, <1>5, <1>6, FreshIInv

LEMMA StoreStepIInv ==
    ASSUME IInv, NEW n \in Nodes, ClearFrame(n) \/ FlushPersist(n)
    PROVE  IInv'
<1> USE DEF nodeVars, runVars
<1>1. TypeOK /\ Settled
  BY DEF IInv
<1>2. NoFrame \in Frame /\ 0 \in 0 .. MaxRuns
  BY ExecuteFlowAssumption DEF NoFrame, Frame
<1>3. TypeOK' /\ Settled'
  BY <1>1, <1>2 DEF ClearFrame, FlushPersist, TypeOK, Settled, Run
<1>4. QED
  BY <1>3, RestIInv DEF ClearFrame, FlushPersist

LEMMA NextIInv == ASSUME IInv, [Next]_vars PROVE IInv'
<1>1. CASE StartStep
  BY <1>1, StartStepIInv
<1>2. CASE \E n \in Nodes : NodeStep(n)
  BY <1>2, NodeStepIInv
<1>3. CASE Complete \/ Record
  BY <1>3, EndOfRunIInv
<1>4. CASE UNCHANGED vars
  <2>1. TypeOK' /\ Settled' /\ UNCHANGED <<flow, batch, nodeVars, phase>>
    BY <1>4 DEF IInv, TypeOK, Settled, vars, nodeVars, Run
  <2>2. QED
    BY <2>1, RestIInv
<1>5. CASE Crash
  BY <1>5, CrashIInv
<1>6. CASE \E n \in Nodes : ClearFrame(n) \/ FlushPersist(n)
  BY <1>6, StoreStepIInv
<1>7. QED
  BY <1>1, <1>2, <1>3, <1>4, <1>5, <1>6 DEF Next, Quiet

\* The invariant holds in every reachable state, for any flows, drivers, faults.
THEOREM InvariantHolds == Spec => []IInv
BY InitIInv, NextIInv, PTL DEF Spec
-----------------------------------------------------------------------------
(* The theorems *)

\* Every variable of the executor keeps its type.
THEOREM TypeCorrect == Spec => []TypeOK
<1>1. IInv => TypeOK
  BY DEF IInv
<1>2. QED
  BY <1>1, InvariantHolds, PTL

\* Under both drivers a node is reached only after all of its parents returned.
THEOREM ParentsComeFirst == Spec => []ParentsFirst
<1>1. IInv => ParentsFirst
  BY DEF IInv
<1>2. QED
  BY <1>1, InvariantHolds, PTL

\* Nothing downstream of an error or a hard stop is executed in the same run, in
\* spite of the await between the node's event and the update of `blocked`.
THEOREM HaltedBranchesStaySilent == Spec => []HaltedBranchSilent
<1>1. IInv => HaltedBranchSilent
  BY DEF IInv, HaltsBlock, BlockedUnrun, HaltedBranchSilent
<1>2. QED
  BY <1>1, InvariantHolds, PTL

\* What a router's choice does not reach is not executed in the same run.
THEOREM CutBranchesStaySilent == Spec => []CutBranchSilent
<1>1. ASSUME IInv, NEW n \in Nodes, NEW d \in Nodes, CutsOff(n, d) PROVE ~Ran(d)
  <2>1. d \in Cut(n, chosen[n]) /\ chosen[n] # None
    BY <1>1, OutOfReachIsCut DEF IInv, CutsOff
  <2>2. QED
    BY <1>1, <2>1 DEF IInv, CutsBlock, BlockedUnrun
<1>2. IInv => CutBranchSilent
  BY <1>1 DEF CutBranchSilent
<1>3. QED
  BY <1>2, InvariantHolds, PTL

\* A node is only ever blocked by a failure or stop upstream of it, or by a router
\* that cannot reach it through the branch it chose: siblings are left alone.
THEOREM BlockedOnlyForAReason == Spec => []BlockedForAReason
<1>1. IInv => BlockedForAReason
  BY DEF IInv
<1>2. QED
  BY <1>1, InvariantHolds, PTL

\* A step blocks only nodes of later batches, which the driver has not come to:
\* coroutines of one layer never race on `blocked`.
THEOREM BlockingAlwaysLooksAhead == Spec => BlockingLooksAhead
<1>1. ASSUME IInv, [Next]_vars, NEW d \in blocked' \ blocked
      PROVE  d \in Nodes => pc[d] = "idle" /\ ~Turn(d)
  <2>1. PICK n \in Nodes : NodeStep(n)
    BY <1>1 DEF Next, StartStep, StartCyclic, Start, Resume, ResumeFails, FreshLocals, Complete,
                Record, Quiet, Crash, ClearFrame, FlushPersist, vars, nodeVars
  <2>2. Effect(n) /\ TypeOK /\ phase = "nodes"
    BY <1>1, <2>1, NodeStepEffect, NodeStepTypes DEF IInv
  <2>3. \A label : Cut(n, label) \subseteq Descendants(flow.edges, n)
    BY <2>2, CutIsDownstream
  <2>4. d \in Descendants(flow.edges, n)
    BY <1>1, <2>2, <2>3 DEF Effect, Blocks
  <2>5. pc[d] = "idle" /\ batch[n] < batch[d]
    BY <1>1, <2>2, <2>4, DownstreamIsIdle, DownstreamIsLater DEF IInv, Effect
  <2>6. ~Turn(d)
    BY <2>2, <2>5 DEF Turn, Effect
  <2>7. QED
    BY <2>5, <2>6
<1>2. IInv /\ IInv' /\ [Next]_vars
          => [\A n \in blocked' \ blocked : pc[n] = "idle" /\ ~Turn(n)]_vars
  BY <1>1 DEF IInv, TypeOK
<1>3. QED
  BY <1>2, InvariantHolds, PTL DEF Spec, BlockingLooksAhead
-----------------------------------------------------------------------------
(***************************************************************************)
(* What a node has told and left behind at every await.  The invariant     *)
(* above says what a node knows of the others; this one follows a single   *)
(* node from its start to its result.                                      *)
(***************************************************************************)
Closings == {"node_complete", "node_routed", "node_stopped", "table_ready", "chart_ready", "report_ready"}

Started(n) == Len(sent[n]) = 1 /\ sent[n][1] = "node_start"

Followed(n, events) == Len(sent[n]) = 2 /\ sent[n][1] = "node_start" /\ sent[n][2] \in events

Succeeded(n) ==
    \/ Followed(n, Closings)
    \/ /\ Len(sent[n]) = 3 /\ sent[n][1] = "node_start"
       /\ sent[n][2] = "node_persisted" /\ sent[n][3] = "node_complete"

KindFits(n) ==
    /\ pc[n] \notin {"idle", "done"} => n \in scope /\ flow.kind[n] # "note"
    /\ pc[n] \in {"running", "persisted"} => flow.kind[n] \in Engines
    /\ chosen[n] # None => flow.kind[n] = "router"
    /\ pc[n] = "reporting" /\ flow.kind[n] = "router" => chosen[n] # None
    /\ pc[n] = "failing" => chosen[n] = None

Told(n) ==
    /\ pc[n] = "idle" /\ n \in scope => sent[n] = <<>>
    /\ pc[n] \in {"started", "running"} => Started(n)
    /\ pc[n] = "persisted" => Followed(n, {"node_persisted"})
    /\ pc[n] = "reporting" => Succeeded(n)
    /\ pc[n] = "failing" => Followed(n, {"node_error"})
    /\ pc[n] = "done" /\ ~Ran(n) => result[n] = "none"
    /\ pc[n] = "done" /\ Ran(n) =>
           \/ result[n] = "none" /\ flow.kind[n] = "other"
           \/ result[n] = "error" /\ Followed(n, {"node_error"})
           \/ result[n] \in {"ok", "stopped"} /\ Succeeded(n)

Fresh(n) == cache[n] \in {[by |-> Run, whole |-> TRUE], NoFrame}

Kept(n) ==
    /\ pc[n] \in {"persisted", "reporting"} /\ flow.kind[n] \in StoringKinds => Fresh(n)
    /\ pc[n] = "done" /\ Ran(n) /\ result[n] # "error" /\ flow.kind[n] \in StoringKinds => Fresh(n)

NotPassedOver(n) == pc[n] = "done" /\ n \in scope \ blocked /\ flow.kind[n] # "note" => Ran(n)

Stages == \A n \in Nodes : KindFits(n) /\ Told(n) /\ Kept(n) /\ NotPassedOver(n)

OverWhenDone ==
    phase = "over" /\ finale = "flow_complete" /\ scope # {} => \A n \in Nodes : pc[n] = "done"

SInv == Stages /\ OverWhenDone

\* Ranks that grow along the edges grow along paths.
LEMMA RanksGrowDownstream ==
    ASSUME NEW E \in SUBSET Edge, NEW depth \in [Nodes -> Int],
           \A e \in E : depth[e.source] < depth[e.target], NEW n \in Nodes
    PROVE  \A d \in Descendants(E, n) : depth[n] < depth[d]
<1> DEFINE S == {m \in Nodes : depth[n] < depth[m]}
<1>0. \A e \in E : e.source \in Nodes /\ e.target \in Nodes
  BY DEF Edge
<1>1. Children(E, n) \subseteq S
  BY <1>0 DEF Children
<1>2. Closed(E, S)
  BY <1>0 DEF Closed
<1>3. Descendants(E, n) \subseteq S
  BY <1>1, <1>2, ReachableStaysInside DEF Descendants
<1>4. QED
  BY <1>3

\* The locals of a run begin fresh; only the node a run resumes from, which it does
\* not run, has been told of.
LEMMA FreshSInv ==
    ASSUME FreshLocals, \A n \in Nodes : n \in scope' => sent'[n] = <<>>, OverWhenDone'
    PROVE  SInv'
<1>1. \A n \in Nodes : pc'[n] = "idle" /\ result'[n] = "none" /\ chosen'[n] = None
  BY DEF FreshLocals
<1>2. QED
  BY <1>1 DEF SInv, Stages, KindFits, Told, Kept, NotPassedOver

LEMMA InitSInv == Init => SInv
BY DEF Init, SInv, Stages, KindFits, Told, Kept, NotPassedOver, OverWhenDone

LEMMA StartStepSInv == ASSUME IInv, StartStep PROVE SInv'
<1>1. PICK f \in Flows :
        \/ StartCyclic(f)
        \/ \E driver \in Drivers : \/ \E start \in Nodes \cup {None} : Start(f, driver, start)
                                   \/ \E n \in Nodes : Resume(f, driver, n)
        \/ \E n \in Nodes : ResumeFails(f, n)
  BY DEF StartStep
<1>2. FreshLocals
  BY <1>1 DEF StartCyclic, Start, Resume, ResumeFails
<1>3. CASE StartCyclic(f)
  BY <1>2, <1>3, FreshSInv DEF StartCyclic, OverWhenDone
<1>4. CASE \E driver \in Drivers, start \in Nodes \cup {None} : Start(f, driver, start)
  BY <1>2, <1>4, FreshSInv DEF Start, Plan, OverWhenDone
<1>5. ASSUME NEW driver \in Drivers, NEW n \in Nodes, Resume(f, driver, n) PROVE SInv'
  <2>1. f.edges \in SUBSET Edge
    BY ExecuteFlowAssumption DEF Flow
  <2>2. batch' \in [Nodes -> Int] /\ \A e \in f.edges : batch'[e.source] < batch'[e.target]
    BY <1>5, PlanTypes DEF Resume, Rank
  <2>3. n \notin Descendants(f.edges, n)
    BY <2>1, <2>2, RanksGrowDownstream
  <2>4. \A m \in Nodes : m \in scope' => sent'[m] = <<>>
    BY <1>5, <2>3 DEF Resume
  <2>5. OverWhenDone'
    BY <1>5 DEF Resume, Plan, OverWhenDone
  <2>6. QED
    BY <1>2, <2>4, <2>5, FreshSInv
<1>6. CASE \E n \in Nodes : ResumeFails(f, n)
  BY <1>2, <1>6, FreshSInv DEF ResumeFails, OverWhenDone
<1>7. QED
  BY <1>1, <1>3, <1>4, <1>5, <1>6

\* A step of one node leaves what the others told and stored.
LEMMA OthersStages ==
    ASSUME IInv, Stages, NEW n \in Nodes, NodeStep(n), NEW m \in Nodes, m # n
    PROVE  KindFits(m)' /\ Told(m)' /\ Kept(m)' /\ NotPassedOver(m)'
<1>1. TypeOK /\ Effect(n)
  BY NodeStepEffect DEF IInv
<1>2. flow' = flow /\ scope' = scope /\ rows' = rows /\ cache'[m] = cache[m]
  BY <1>1 DEF TypeOK, NodeStep, SkipBlocked, SkipSilently, Begin, InputsMissing, Raise, StoreFrame, TearFrame,
         RaisesUnwritten, RaisesTorn, SinkFails, Launch, Returns, ReturnsAndPersists, storeVars,
         PersistFails, AfterPersist, PassThrough, Chart, Route, PassUnknown, Settle, SettleError, runVars
<1>3. /\ pc'[m] = pc[m] /\ result'[m] = result[m] /\ chosen'[m] = chosen[m] /\ sent'[m] = sent[m]
      /\ blocked \subseteq blocked'
  BY <1>1 DEF Effect, Blocks
<1>4. KindFits(m) /\ Told(m) /\ Kept(m) /\ NotPassedOver(m)
  BY DEF Stages
<1>5. KindFits(m)' /\ Told(m)'
  BY <1>2, <1>3, <1>4 DEF KindFits, Told, Ran, Started, Followed, Succeeded
<1>6. Kept(m)'
  BY <1>2, <1>3, <1>4 DEF Kept, Fresh, Ran, Run
<1>7. NotPassedOver(m)'
  BY <1>2, <1>3, <1>4 DEF NotPassedOver, Ran
<1>8. QED
  BY <1>5, <1>6, <1>7

\* The first, the second and the third event of a node.
LEMMA FirstSaid ==
    ASSUME TypeOK, NEW n \in Nodes, sent[n] = <<>>, Say(n, "node_start")
    PROVE  Started(n)'
BY DEF TypeOK, Say, Started

LEMMA SecondSaid ==
    ASSUME TypeOK, NEW n \in Nodes, Started(n), NEW e \in NodeEvents, Say(n, e)
    PROVE  Followed(n, {e})'
<1>1. sent[n] \in Seq(NodeEvents) /\ sent'[n] = Append(sent[n], e)
  BY DEF TypeOK, Say
<1>2. QED
  BY <1>1 DEF Started, Followed

LEMMA ThirdSaid ==
    ASSUME TypeOK, NEW n \in Nodes, Followed(n, {"node_persisted"}), Say(n, "node_complete")
    PROVE  Succeeded(n)'
<1>1. sent[n] \in Seq(NodeEvents) /\ sent'[n] = Append(sent[n], "node_complete")
  BY DEF TypeOK, Say
<1>2. "node_complete" \in NodeEvents
  BY DEF NodeEvents
<1>3. QED
  BY <1>1, <1>2 DEF Succeeded, Followed

\* What the invariants say of one node.
LEMMA OneNode ==
    ASSUME IInv, Stages, NEW n \in Nodes
    PROVE  /\ KindFits(n) /\ Told(n) /\ Kept(n) /\ NotPassedOver(n)
           /\ pc[n] # "done" => result[n] = "none"
           /\ pc[n] \in {"idle", "started"} => chosen[n] = None
           /\ pc[n] = "idle" => ~Ran(n)
           /\ n \in blocked => ~Ran(n)
           /\ None \notin Handles
BY ExecuteFlowAssumption DEF IInv, Stages, OpenUntilSettled, UnreachedUnrun, BlockedUnrun

LEMMA SkipStages ==
    ASSUME IInv, Stages, NEW n \in Nodes, SkipBlocked(n) \/ SkipSilently(n)
    PROVE  KindFits(n)' /\ Told(n)' /\ Kept(n)' /\ NotPassedOver(n)'
<1>1. TypeOK
  BY DEF IInv
<1>2. /\ pc[n] = "idle" /\ ~Ran(n) /\ result[n] = "none" /\ chosen[n] = None
  BY OneNode DEF SkipBlocked, SkipSilently, Reached
<1>3. /\ pc'[n] = "done" /\ result'[n] = "none" /\ chosen'[n] = None
      /\ flow' = flow /\ scope' = scope /\ blocked' = blocked
  BY <1>1, <1>2 DEF TypeOK, SkipBlocked, SkipSilently, Goto, runVars
<1>4. ~Ran(n)'
  <2>1. CASE SkipBlocked(n)
    BY <1>1, <1>2, <2>1, SayKeepsUnrun DEF SkipBlocked, NodeEvents
  <2>2. CASE SkipSilently(n)
    BY <1>2, <2>2 DEF SkipSilently, Ran
  <2>3. QED
    BY <2>1, <2>2
<1>5. n \notin scope \ blocked \/ flow.kind[n] = "note"
  BY DEF SkipBlocked, SkipSilently
<1>6. QED
  BY <1>3, <1>4, <1>5 DEF KindFits, Told, Kept, NotPassedOver

LEMMA BeginStages ==
    ASSUME IInv, Stages, NEW n \in Nodes, Begin(n)
    PROVE  KindFits(n)' /\ Told(n)' /\ Kept(n)' /\ NotPassedOver(n)'
<1>1. TypeOK
  BY DEF IInv
<1>2. pc[n] = "idle" /\ sent[n] = <<>> /\ chosen[n] = None
  BY OneNode DEF Begin, Reached, Told
<1>3. pc'[n] = "started" /\ chosen'[n] = None /\ flow' = flow /\ scope' = scope
  BY <1>1, <1>2 DEF TypeOK, Begin, Goto, runVars
<1>4. Started(n)'
  BY <1>1, <1>2, FirstSaid DEF Begin
<1>5. n \in scope /\ flow.kind[n] # "note"
  BY DEF Begin
<1>6. QED
  BY <1>3, <1>4, <1>5 DEF KindFits, Told, Kept, NotPassedOver

LEMMA RaiseStages ==
    ASSUME IInv, Stages, NEW n \in Nodes,
           InputsMissing(n) \/ RaisesUnwritten(n) \/ RaisesTorn(n) \/ SinkFails(n) \/ PersistFails(n)
    PROVE  KindFits(n)' /\ Told(n)' /\ Kept(n)' /\ NotPassedOver(n)'
<1>1. TypeOK
  BY DEF IInv
<1>2. pc[n] \in {"started", "running"} /\ Raise(n)
  BY DEF InputsMissing, RaisesUnwritten, RaisesTorn, SinkFails, PersistFails
<1>3. Started(n) /\ n \in scope /\ flow.kind[n] # "note" /\ chosen[n] = None
  BY <1>2, OneNode DEF KindFits, Told, Engines
<1>4. pc'[n] = "failing" /\ chosen'[n] = None /\ flow' = flow /\ scope' = scope
  BY <1>1, <1>2, <1>3 DEF TypeOK, Raise, Goto, runVars
<1>5. Followed(n, {"node_error"})'
  BY <1>1, <1>2, <1>3, SecondSaid DEF Raise, NodeEvents
<1>6. QED
  BY <1>3, <1>4, <1>5 DEF KindFits, Told, Kept, NotPassedOver

LEMMA LaunchStages ==
    ASSUME IInv, Stages, NEW n \in Nodes, Launch(n)
    PROVE  KindFits(n)' /\ Told(n)' /\ Kept(n)' /\ NotPassedOver(n)'
<1>1. TypeOK
  BY DEF IInv
<1>2. /\ pc[n] = "started" /\ Started(n) /\ chosen[n] = None
      /\ n \in scope /\ flow.kind[n] \in Engines
  BY OneNode DEF Launch, Told, KindFits
<1>3. /\ pc'[n] = "running" /\ chosen'[n] = None /\ flow' = flow /\ scope' = scope /\ Started(n)'
  BY <1>1, <1>2 DEF TypeOK, Launch, Goto, runVars, Started
<1>4. QED
  BY <1>2, <1>3 DEF KindFits, Told, Kept, NotPassedOver, Engines

\* The frame that a node stores is whole, and of this run.
LEMMA StoredFresh ==
    ASSUME TypeOK, NEW n \in Nodes, StoreFrame(n), rows' = rows
    PROVE  Fresh(n)'
BY DEF TypeOK, StoreFrame, Fresh, Run

LEMMA ReturnStages ==
    ASSUME IInv, Stages, NEW n \in Nodes, Returns(n) \/ ReturnsAndPersists(n)
    PROVE  KindFits(n)' /\ Told(n)' /\ Kept(n)' /\ NotPassedOver(n)'
<1>1. TypeOK
  BY DEF IInv
<1>2. /\ pc[n] = "running" /\ Started(n) /\ chosen[n] = None
      /\ n \in scope /\ flow.kind[n] \in Engines
  BY OneNode DEF Returns, ReturnsAndPersists, Told, KindFits, Engines
<1>3. chosen'[n] = None /\ flow' = flow /\ scope' = scope /\ Fresh(n)'
  BY <1>1, <1>2, StoredFresh DEF TypeOK, Returns, ReturnsAndPersists, runVars
<1>4. CASE Returns(n)
  <2>1. pc'[n] = "reporting"
    BY <1>1, <1>4 DEF TypeOK, Returns, Goto
  <2>2. Followed(n, {"node_complete"})'
    BY <1>1, <1>2, <1>4, SecondSaid DEF Returns, NodeEvents
  <2>3. Succeeded(n)'
    BY <2>2 DEF Followed, Succeeded, Closings
  <2>4. QED
    BY <1>2, <1>3, <2>1, <2>3 DEF KindFits, Told, Kept, NotPassedOver, Engines
<1>5. CASE ReturnsAndPersists(n)
  <2>1. pc'[n] = "persisted"
    BY <1>1, <1>5 DEF TypeOK, ReturnsAndPersists, Goto
  <2>2. Followed(n, {"node_persisted"})'
    BY <1>1, <1>2, <1>5, SecondSaid DEF ReturnsAndPersists, NodeEvents
  <2>3. QED
    BY <1>2, <1>3, <2>1, <2>2 DEF KindFits, Told, Kept, NotPassedOver, Engines
<1>6. QED
  BY <1>4, <1>5

LEMMA AfterPersistStages ==
    ASSUME IInv, Stages, NEW n \in Nodes, AfterPersist(n)
    PROVE  KindFits(n)' /\ Told(n)' /\ Kept(n)' /\ NotPassedOver(n)'
<1>1. TypeOK
  BY DEF IInv
<1>2. /\ pc[n] = "persisted" /\ Followed(n, {"node_persisted"}) /\ chosen[n] = None
      /\ n \in scope /\ flow.kind[n] \in Engines /\ Fresh(n)
  BY OneNode DEF AfterPersist, Told, KindFits, Kept, Engines, StoringKinds, Kinds
<1>3. pc'[n] = "reporting" /\ chosen'[n] = None /\ flow' = flow /\ scope' = scope /\ Fresh(n)'
  BY <1>1, <1>2 DEF TypeOK, AfterPersist, Goto, runVars, storeVars, Fresh, Run
<1>4. Succeeded(n)'
  BY <1>1, <1>2, ThirdSaid DEF AfterPersist
<1>5. QED
  BY <1>2, <1>3, <1>4 DEF KindFits, Told, Kept, NotPassedOver, Engines

LEMMA ReportStages ==
    ASSUME IInv, Stages, NEW n \in Nodes, PassThrough(n) \/ Chart(n) \/ Route(n)
    PROVE  KindFits(n)' /\ Told(n)' /\ Kept(n)' /\ NotPassedOver(n)'
<1>1. TypeOK
  BY DEF IInv
<1>2. pc[n] = "started" /\ Started(n) /\ chosen[n] = None /\ n \in scope /\ flow.kind[n] # "note"
  BY OneNode DEF PassThrough, Chart, Route, Told, KindFits
<1>3. pc'[n] = "reporting" /\ flow' = flow /\ scope' = scope
  BY <1>1 DEF TypeOK, PassThrough, Chart, Route, Goto, runVars
<1>4. PICK e \in Closings : Say(n, e)
  BY DEF PassThrough, Chart, Route, Report, Closings
<1>5. Succeeded(n)'
  <2>1. Followed(n, {e})'
    BY <1>1, <1>2, <1>4, SecondSaid DEF Closings, NodeEvents
  <2>2. QED
    BY <1>4, <2>1 DEF Followed, Succeeded
<1>6. flow.kind[n] \in StoringKinds => Fresh(n)'
  <2>1. CASE PassThrough(n) \/ Route(n)
    BY <1>1, <2>1, StoredFresh DEF PassThrough, Route
  <2>2. CASE Chart(n)
    BY <2>2 DEF Chart, StoringKinds
  <2>3. QED
    BY <2>1, <2>2
<1>7. IF flow.kind[n] = "router" THEN chosen'[n] # None ELSE chosen'[n] = None
  <2>1. CASE PassThrough(n) \/ Chart(n)
    BY <1>2, <2>1 DEF PassThrough, Chart
  <2>2. CASE Route(n)
    BY <1>1, <2>2, ExecuteFlowAssumption DEF TypeOK, Route
  <2>3. QED
    BY <2>1, <2>2
<1>8. QED
  BY <1>2, <1>3, <1>5, <1>6, <1>7 DEF KindFits, Told, Kept, NotPassedOver

LEMMA UnknownStages ==
    ASSUME IInv, Stages, NEW n \in Nodes, PassUnknown(n)
    PROVE  KindFits(n)' /\ Told(n)' /\ Kept(n)' /\ NotPassedOver(n)'
<1>1. TypeOK
  BY DEF IInv
<1>2. /\ pc[n] = "started" /\ Started(n) /\ chosen[n] = None /\ result[n] = "none"
      /\ flow.kind[n] = "other"
  BY OneNode DEF PassUnknown, Told
<1>3. /\ pc'[n] = "done" /\ chosen'[n] = None /\ result'[n] = "none" /\ flow' = flow
      /\ sent' = sent /\ Fresh(n)'
  BY <1>1, <1>2, StoredFresh DEF TypeOK, PassUnknown, Goto, runVars
<1>4. Ran(n)'
  BY <1>2, <1>3 DEF Started, Ran
<1>5. QED
  BY <1>2, <1>3, <1>4 DEF KindFits, Told, Kept, NotPassedOver

LEMMA SettleStages ==
    ASSUME IInv, Stages, NEW n \in Nodes, Settle(n) \/ SettleError(n)
    PROVE  KindFits(n)' /\ Told(n)' /\ Kept(n)' /\ NotPassedOver(n)'
<1>1. TypeOK
  BY DEF IInv
<1>2. /\ KindFits(n) /\ Told(n) /\ Kept(n)
      /\ pc'[n] = "done" /\ chosen'[n] = chosen[n] /\ flow' = flow /\ sent' = sent /\ cache' = cache
      /\ Run' = Run
  BY <1>1, OneNode DEF TypeOK, Settle, SettleError, Goto, runVars, storeVars, Run
<1>3. CASE Settle(n)
  <2>1. pc[n] = "reporting" /\ result'[n] \in {"ok", "stopped"}
    BY <1>1, <1>3 DEF TypeOK, Settle
  <2>2. Succeeded(n) /\ (flow.kind[n] \in StoringKinds => Fresh(n))
    BY <1>2, <2>1 DEF Told, Kept
  <2>3. Succeeded(n)' /\ Ran(n)' /\ (flow.kind[n] \in StoringKinds => Fresh(n)')
    BY <1>2, <2>2 DEF Succeeded, Followed, Ran, Fresh
  <2>4. QED
    BY <1>2, <2>1, <2>3 DEF KindFits, Told, Kept, NotPassedOver
<1>4. CASE SettleError(n)
  <2>1. pc[n] = "failing" /\ result'[n] = "error" /\ Followed(n, {"node_error"})
    BY <1>1, <1>2, <1>4 DEF TypeOK, SettleError, Told
  <2>2. Followed(n, {"node_error"})' /\ Ran(n)'
    BY <1>2, <2>1 DEF Followed, Ran
  <2>3. QED
    BY <1>2, <2>1, <2>2 DEF KindFits, Told, Kept, NotPassedOver
<1>5. QED
  BY <1>3, <1>4

LEMMA NodeStepSInv == ASSUME IInv, SInv, NEW n \in Nodes, NodeStep(n) PROVE SInv'
<1>1. KindFits(n)' /\ Told(n)' /\ Kept(n)' /\ NotPassedOver(n)'
  BY SkipStages, BeginStages, RaiseStages, LaunchStages, ReturnStages, AfterPersistStages, ReportStages,
     UnknownStages, SettleStages DEF SInv, NodeStep
<1>2. \A m \in Nodes \ {n} : KindFits(m)' /\ Told(m)' /\ Kept(m)' /\ NotPassedOver(m)'
  BY OthersStages DEF SInv
<1>3. phase' = "nodes"
  BY NodeStepTypes DEF IInv
<1>4. QED
  BY <1>1, <1>2, <1>3 DEF SInv, Stages, OverWhenDone

\* Steps that touch no coroutine leave what was told; frames may be cleared.
LEMMA RestSInv ==
    ASSUME SInv, UNCHANGED <<flow, scope, nodeVars>>, Run' = Run,
           \A n \in Nodes : cache'[n] \in {cache[n], NoFrame}, OverWhenDone'
    PROVE  SInv'
<1> SUFFICES ASSUME NEW n \in Nodes PROVE KindFits(n)' /\ Told(n)' /\ Kept(n)' /\ NotPassedOver(n)'
  BY DEF SInv, Stages
<1>1. KindFits(n) /\ Told(n) /\ Kept(n) /\ NotPassedOver(n)
  BY DEF SInv, Stages
<1>2. KindFits(n)' /\ Told(n)' /\ NotPassedOver(n)'
  BY <1>1 DEF KindFits, Told, NotPassedOver, Ran, Started, Followed, Succeeded, nodeVars
<1>3. Fresh(n) => Fresh(n)'
  BY DEF Fresh
<1>4. Kept(n)'
  BY <1>1, <1>3 DEF Kept, Ran, nodeVars
<1>5. QED
  BY <1>2, <1>4

LEMMA NextSInv == ASSUME IInv, SInv, [Next]_vars PROVE SInv'
<1> USE DEF nodeVars, runVars, storeVars
<1>1. CASE StartStep
  BY <1>1, StartStepSInv
<1>2. CASE \E n \in Nodes : NodeStep(n)
  BY <1>2, NodeStepSInv
<1>3. CASE Complete
  <2>1. Run' = Run /\ OverWhenDone'
    BY <1>3 DEF Complete, Run, OverWhenDone
  <2>2. QED
    BY <1>3, <2>1, RestSInv DEF Complete
<1>4. CASE Record
  <2>1. Run' = Run /\ OverWhenDone'
    BY <1>4 DEF IInv, TypeOK, Record, Run, OverWhenDone
  <2>2. QED
    BY <1>4, <2>1, RestSInv DEF Record
<1>5. CASE UNCHANGED vars
  <2>1. Run' = Run /\ OverWhenDone'
    BY <1>5 DEF vars, Run, SInv, OverWhenDone
  <2>2. QED
    BY <1>5, <2>1, RestSInv DEF vars
<1>6. CASE Crash
  <2>1. FreshLocals /\ (\A n \in Nodes : sent'[n] = <<>>) /\ OverWhenDone'
    BY <1>6 DEF Crash, OverWhenDone
  <2>2. QED
    BY <2>1, FreshSInv
<1>7. ASSUME NEW n \in Nodes, ClearFrame(n) \/ FlushPersist(n) PROVE SInv'
  <2>1. Run' = Run /\ OverWhenDone'
    BY <1>7 DEF ClearFrame, FlushPersist, Run, SInv, OverWhenDone
  <2>2. \A m \in Nodes : cache'[m] \in {cache[m], NoFrame}
    BY <1>7 DEF IInv, TypeOK, ClearFrame, FlushPersist
  <2>3. QED
    BY <1>7, <2>1, <2>2, RestSInv DEF ClearFrame, FlushPersist
<1>8. QED
  BY <1>1, <1>2, <1>3, <1>4, <1>5, <1>6, <1>7 DEF Next, Quiet

\* What every node has told and left behind, in every reachable state.
THEOREM StagesHold == Spec => []SInv
BY InvariantHolds, InitSInv, NextSInv, PTL DEF Spec

\* A run that returns normally has executed every node in scope that it did not
\* block: no branch is dropped with its sibling.
THEOREM UnblockedNodesAllRan == Spec => []UnblockedNodesRan
<1>1. IInv => scope \subseteq Nodes
  BY DEF IInv, TypeOK
<1>2. SInv /\ IInv => UnblockedNodesRan
  BY <1>1 DEF SInv, Stages, NotPassedOver, OverWhenDone, UnblockedNodesRan
<1>3. QED
  BY <1>2, InvariantHolds, StagesHold, PTL

\* The closing event of a node and its entry in the results agree, and there is
\* one of each.
THEOREM EveryNodeHasOneVerdict == Spec => []OneVerdictPerNode
<1>1. ASSUME SInv, NEW n \in Nodes, pc[n] = "done", Ran(n), flow.kind[n] # "other"
      PROVE  /\ Len(sent[n]) = IF "node_persisted" \in {sent[n][i] : i \in 1 .. Len(sent[n])}
                               THEN 3 ELSE 2
             /\ Last(sent[n]) = "node_error" <=> result[n] = "error"
             /\ result[n] # "none"
  <2>1. \/ result[n] = "error" /\ Followed(n, {"node_error"})
        \/ result[n] \in {"ok", "stopped"} /\ Succeeded(n)
    BY <1>1 DEF SInv, Stages, Told
  <2>2. CASE result[n] = "error" /\ Followed(n, {"node_error"})
    <3>1. Len(sent[n]) = 2 /\ sent[n][1] = "node_start" /\ sent[n][2] = "node_error"
      BY <2>2 DEF Followed
    <3>2. "node_persisted" \notin {sent[n][i] : i \in 1 .. Len(sent[n])}
      BY <3>1
    <3>3. Last(sent[n]) = "node_error"
      BY <3>1 DEF Last
    <3>4. QED
      BY <2>2, <3>1, <3>2, <3>3
  <2>3. CASE result[n] \in {"ok", "stopped"} /\ Followed(n, Closings)
    <3>1. Len(sent[n]) = 2 /\ sent[n][1] = "node_start" /\ sent[n][2] \in Closings
      BY <2>3 DEF Followed
    <3>2. "node_persisted" \notin {sent[n][i] : i \in 1 .. Len(sent[n])}
      BY <3>1 DEF Closings
    <3>3. Last(sent[n]) # "node_error"
      BY <3>1 DEF Last, Closings
    <3>4. QED
      BY <2>3, <3>1, <3>2, <3>3
  <2>4. CASE result[n] \in {"ok", "stopped"} /\ ~Followed(n, Closings) /\ Succeeded(n)
    <3>1. Len(sent[n]) = 3 /\ sent[n][2] = "node_persisted" /\ sent[n][3] = "node_complete"
      BY <2>4 DEF Succeeded
    <3>2. "node_persisted" \in {sent[n][i] : i \in 1 .. Len(sent[n])}
      BY <3>1
    <3>3. Last(sent[n]) # "node_error"
      BY <3>1 DEF Last
    <3>4. QED
      BY <2>4, <3>1, <3>2, <3>3
  <2>5. QED
    BY <2>1, <2>2, <2>3, <2>4
<1>2. SInv => OneVerdictPerNode
  BY <1>1 DEF OneVerdictPerNode
<1>3. QED
  BY <1>2, StagesHold, PTL

\* Whatever is reported as ok or stopped has left this run's frame, whole.
THEOREM SuccessAlwaysLeavesFrame == Spec => []SuccessLeavesFrame
<1>1. ASSUME IInv, SInv, NEW n \in Nodes, result[n] \in {"ok", "stopped"}, flow.kind[n] \in StoringKinds
      PROVE  Fresh(n)
  <2>1. pc[n] = "done"
    BY <1>1 DEF IInv, OpenUntilSettled
  <2>2. Ran(n)
    BY <1>1, <2>1 DEF SInv, Stages, Told
  <2>3. QED
    BY <1>1, <2>1, <2>2 DEF SInv, Stages, Kept
<1>2. IInv /\ SInv => SuccessLeavesFrame
  BY <1>1 DEF SuccessLeavesFrame, Fresh
<1>3. QED
  BY <1>2, InvariantHolds, StagesHold, PTL

\* A node that starts to work reads, of every parent that this run was to execute,
\* the frame of this run: an older one can only be under a failed parent, and what
\* follows a failure is blocked.
THEOREM InputsAreFresh == Spec => FreshInputs
<1>1. ASSUME IInv, SInv, [Next]_vars, NEW n \in Nodes, pc[n] = "started", pc'[n] \in {"running", "reporting"}
      PROVE  InputsReady(n)
  <2>1. PICK m \in Nodes : NodeStep(m)
    BY <1>1 DEF Next, StartStep, StartCyclic, Start, Resume, ResumeFails, FreshLocals, Complete,
                Record, Quiet, Crash, ClearFrame, FlushPersist, vars, nodeVars
  <2>2. TypeOK /\ Effect(m)
    BY <1>1, <2>1, NodeStepEffect DEF IInv
  <2>3. m = n
    BY <1>1, <2>2 DEF Effect
  <2>4. QED
    BY <1>1, <2>1, <2>2, <2>3 DEF TypeOK, NodeStep, SkipBlocked, SkipSilently, Begin, Reached, InputsMissing, Raise, Goto,
         RaisesUnwritten, RaisesTorn, SinkFails, Launch, Returns, ReturnsAndPersists,
         PersistFails, AfterPersist, PassThrough, Chart, Route, PassUnknown, Settle, SettleError
<1>2. ASSUME IInv, SInv, NEW n \in Nodes, pc[n] = "started", InputsReady(n), NEW p \in Parents(flow.edges, n)
      PROVE  cache[p].by = Run \/ StaleByDesign(p)
  <2>1. p \in Nodes /\ n \in Children(flow.edges, p)
    BY <1>2, EdgesAreTyped DEF IInv, Parents, Children
  <2>2. pc[p] = "done"
    BY <1>2, EdgesAreTyped DEF IInv, ParentsFirst, Parents
  <2>3. n \in Descendants(flow.edges, p)
    BY <1>2, <2>1, EdgesAreTyped, ChildrenAreNodes, ReachableIsClosed DEF IInv, Descendants
  <2>4. n \notin blocked
    <3>1. Ran(n)
      BY <1>2 DEF SInv, Stages, Told, Started, Ran
    <3>2. QED
      BY <1>2, <3>1 DEF IInv, BlockedUnrun
  <2>5. result[p] # "error"
    BY <1>2, <2>1, <2>3, <2>4 DEF IInv, HaltsBlock
  <2>6. SUFFICES ASSUME ~StaleByDesign(p) PROVE cache[p].by = Run
    OBVIOUS
  <2>7. Ran(p) /\ flow.kind[p] \in StoringKinds
    BY <1>2, <2>1, <2>2, <2>6 DEF IInv, TypeOK, Flow, SInv, Stages, NotPassedOver, StaleByDesign, StoringKinds
  <2>8. Fresh(p)
    BY <1>2, <2>1, <2>2, <2>5, <2>7 DEF SInv, Stages, Kept
  <2>9. cache[p].by # 0
    BY <1>2 DEF InputsReady
  <2>10. QED
    BY <2>8, <2>9 DEF Fresh, NoFrame
<1>3. IInv /\ SInv /\ [Next]_vars
        => [\A n \in Nodes :
              pc[n] = "started" /\ pc'[n] \in {"running", "reporting"} =>
                 \A p \in Parents(flow.edges, n) : cache[p].by = Run \/ StaleByDesign(p)]_vars
  BY <1>1, <1>2
<1>4. QED
  BY <1>3, InvariantHolds, StagesHold, PTL DEF Spec, FreshInputs
-----------------------------------------------------------------------------
(***************************************************************************)
(* The executor implements FlowRun.  A node settles when its coroutine     *)
(* returns; every other step of a run is a stuttering step of the promise. *)
(* What has to be shown is that `blocked`, which grows while other nodes   *)
(* run, is exactly what the settled nodes withhold by the time the driver  *)
(* comes to a node.                                                        *)
(***************************************************************************)
LEMMA SameGraph ==
    /\ \A E, S : Promise!DescendantsFrom(E, S) = DescendantsFrom(E, S)
    /\ \A E, n : Promise!Descendants(E, n) = Descendants(E, n)
    /\ \A E, n : Promise!Parents(E, n) = Parents(E, n)
    /\ \A n, handles : Promise!Through(n, handles) = Targets(n, handles)
BY DEF Promise!DescendantsFrom, DescendantsFrom, Promise!Closed, Closed, Promise!Descendants, Descendants,
       Promise!Children, Children, Promise!Parents, Parents, Promise!Through, Targets

LEMMA WithholdsMeans ==
    ASSUME NEW n \in Nodes, NEW d
    PROVE  Promise!Withholds(n, d) <=>
              \/ Verdict(n) \in {"error", "stopped"} /\ d \in Descendants(flow.edges, n)
              \/ pc[n] = "done" /\ chosen[n] # None /\ d \in Cut(n, chosen[n])
BY SameGraph DEF Promise!Withholds, Cut

\* A node with a result has the verdict of its result, one without has none of those.
LEMMA VerdictOfResult ==
    ASSUME IInv, NEW n \in Nodes
    PROVE  /\ Verdict(n) \in {"error", "stopped"} <=> result[n] \in {"error", "stopped"}
           /\ Verdict(n) = "pending" <=> pc[n] # "done"
BY DEF IInv, TypeOK, Statuses, OpenUntilSettled, Verdict

\* Once all parents of a node have returned, so has all that is upstream of it.
LEMMA UpstreamIsDone ==
    ASSUME IInv, NEW m \in Nodes, NEW d \in Descendants(flow.edges, m),
           \A p \in Parents(flow.edges, d) : pc[p] = "done"
    PROVE  pc[m] = "done"
<1> SUFFICES ASSUME pc[m] # "done" PROVE FALSE
  OBVIOUS
<1> DEFINE S == {k \in Nodes : \E e \in flow.edges : e.target = k /\ pc[e.source] # "done"}
<1>1. TypeOK /\ ParentsFirst
  BY DEF IInv
<1>2. Children(flow.edges, m) \subseteq S
  BY <1>1, EdgesAreTyped DEF Children
<1>3. Closed(flow.edges, S)
  BY <1>1, EdgesAreTyped DEF Closed, ParentsFirst
<1>4. d \in S
  BY <1>2, <1>3, ReachableStaysInside DEF Descendants
<1>5. QED
  BY <1>4 DEF Parents

LEMMA BlockedIsWithheld ==
    ASSUME IInv, NEW d \in Nodes, \A p \in Parents(flow.edges, d) : pc[p] = "done"
    PROVE  d \in blocked <=> Promise!Withheld(d)
<1>1. ASSUME d \in blocked PROVE \E n \in Nodes : Promise!Withholds(n, d)
  <2>1. PICK n \in Nodes : Stops(n, d) \/ CutsOff(n, d)
    BY <1>1 DEF IInv, BlockedForAReason
  <2>2. CASE Stops(n, d)
    BY <2>2, VerdictOfResult, WithholdsMeans DEF Stops
  <2>3. CASE CutsOff(n, d)
    <3>1. chosen[n] # None /\ d \in Descendants(flow.edges, n) /\ d \in Cut(n, chosen[n])
      BY <2>3, OutOfReachIsCut DEF IInv, CutsOff
    <3>2. pc[n] = "done"
      BY <3>1, UpstreamIsDone
    <3>3. QED
      BY <3>1, <3>2, WithholdsMeans
  <2>4. QED
    BY <2>1, <2>2, <2>3
<1>2. ASSUME NEW n \in Nodes, Promise!Withholds(n, d) PROVE d \in blocked
  BY <1>2, WithholdsMeans, VerdictOfResult DEF IInv, HaltsBlock, CutsBlock
<1>3. QED
  BY <1>1, <1>2 DEF Promise!Withheld

\* A step of one node settles no other: what it blocks has not been reached.
LEMMA OthersVerdict ==
    ASSUME IInv, NEW n \in Nodes, NodeStep(n), NEW m \in Nodes, m # n
    PROVE  Verdict(m)' = Verdict(m) /\ pc'[m] = pc[m] /\ chosen'[m] = chosen[m]
<1>1. TypeOK /\ Effect(n)
  BY NodeStepEffect DEF IInv
<1>2. pc'[m] = pc[m] /\ result'[m] = result[m] /\ chosen'[m] = chosen[m] /\ sent'[m] = sent[m]
  BY <1>1 DEF Effect
<1>3. m \in blocked' /\ m \notin blocked => pc[m] = "idle"
  <2>1. \A label : Cut(n, label) \subseteq Descendants(flow.edges, n)
    BY <1>1, CutIsDownstream
  <2>2. m \in blocked' /\ m \notin blocked => m \in Descendants(flow.edges, n)
    BY <1>1, <2>1 DEF Effect, Blocks
  <2>3. QED
    BY <1>1, <2>2, DownstreamIsIdle DEF IInv, Effect
<1>4. m \in blocked => m \in blocked'
  BY <1>1 DEF Effect, Blocks
<1>5. QED
  BY <1>2, <1>3, <1>4 DEF Verdict, Ran

\* How the node that returns settles.
LEMMA OwnVerdict ==
    ASSUME IInv, SInv, NEW n \in Nodes, NodeStep(n), pc'[n] = "done"
    PROVE  /\ n \in blocked => Verdict(n)' = "skipped"
           /\ n \notin blocked /\ ~Promise!Executable(n) => Verdict(n)' = "silent"
           /\ n \notin blocked /\ Promise!Executable(n) =>
                 Verdict(n)' \in (IF flow.kind[n] = "stop" THEN {"stopped", "error"} ELSE {"ok", "error"})
           /\ IF flow.kind[n] = "router" /\ Verdict(n)' = "ok" THEN chosen'[n] \in Handles ELSE chosen'[n] = None
<1>1. TypeOK
  BY DEF IInv
<1>2. CASE SkipBlocked(n)
  <2>1. pc[n] = "idle" /\ n \in blocked /\ blocked' = blocked /\ result'[n] = "none" /\ chosen'[n] = None /\ ~Ran(n)
    BY <1>2, OneNode DEF SInv, SkipBlocked, Reached
  <2>2. ~Ran(n)'
    BY <1>1, <1>2, <2>1, SayKeepsUnrun DEF SkipBlocked, NodeEvents
  <2>3. QED
    BY <2>1, <2>2 DEF Verdict
<1>3. CASE SkipSilently(n)
  <2>1. pc[n] = "idle" /\ n \notin blocked /\ blocked' = blocked /\ result'[n] = "none" /\ chosen'[n] = None /\ ~Ran(n)'
    BY <1>3, OneNode DEF SInv, SkipSilently, Reached, Ran
  <2>2. ~Promise!Executable(n)
    BY <1>3 DEF SkipSilently, Promise!Executable
  <2>3. QED
    BY <2>1, <2>2 DEF Verdict
<1>4. CASE PassUnknown(n)
  <2>1. /\ pc[n] = "started" /\ flow.kind[n] = "other" /\ result'[n] = "none" /\ chosen'[n] = None /\ sent' = sent
        /\ Started(n) /\ n \in scope
    BY <1>4, OneNode DEF SInv, PassUnknown, Told, KindFits
  <2>2. Ran(n) /\ Ran(n)'
    BY <2>1 DEF Started, Ran
  <2>3. n \notin blocked /\ Promise!Executable(n)
    BY <2>1, <2>2 DEF IInv, BlockedUnrun, Promise!Executable
  <2>4. Verdict(n)' = "ok"
    BY <2>1, <2>2 DEF Verdict
  <2>5. QED
    BY <2>1, <2>3, <2>4
<1>5. CASE Settle(n)
  <2>1. pc[n] = "reporting" /\ Succeeded(n) /\ KindFits(n)
    BY <1>5, OneNode DEF SInv, Settle, Told
  <2>2. n \notin blocked /\ Promise!Executable(n)
    BY <2>1 DEF IInv, BlockedUnrun, Promise!Executable, KindFits, Succeeded, Followed, Ran
  <2>3. result'[n] = IF flow.kind[n] = "stop" THEN "stopped" ELSE "ok"
    BY <1>1, <1>5 DEF TypeOK, Settle
  <2>4. Verdict(n)' = result'[n]
    BY <2>3 DEF Verdict
  <2>5. chosen'[n] = chosen[n] /\ chosen[n] \in Handles \cup {None}
    BY <1>1, <1>5 DEF TypeOK, Settle
  <2>6. IF flow.kind[n] = "router" THEN chosen'[n] \in Handles ELSE chosen'[n] = None
    BY <2>1, <2>5 DEF KindFits
  <2>7. QED
    BY <2>2, <2>3, <2>4, <2>6
<1>6. CASE SettleError(n)
  <2>1. pc[n] = "failing" /\ Followed(n, {"node_error"}) /\ KindFits(n)
    BY <1>6, OneNode DEF SInv, SettleError, Told
  <2>2. n \notin blocked /\ Promise!Executable(n)
    BY <2>1 DEF IInv, BlockedUnrun, Promise!Executable, KindFits, Followed, Ran
  <2>3. result'[n] = "error" /\ chosen'[n] = None
    BY <1>1, <1>6, <2>1 DEF TypeOK, SettleError, KindFits
  <2>4. Verdict(n)' = "error"
    BY <2>3 DEF Verdict
  <2>5. QED
    BY <2>2, <2>3, <2>4
<1>7. SkipBlocked(n) \/ SkipSilently(n) \/ PassUnknown(n) \/ Settle(n) \/ SettleError(n)
  BY <1>1 DEF TypeOK, NodeStep, Begin, InputsMissing, Raise, Goto, RaisesUnwritten, RaisesTorn, SinkFails, Launch,
              Returns, ReturnsAndPersists, PersistFails, AfterPersist, PassThrough, Chart, Route
<1>8. QED
  BY <1>2, <1>3, <1>4, <1>5, <1>6, <1>7

LEMMA NodeReturns ==
    ASSUME IInv, SInv, NEW n \in Nodes, NodeStep(n), pc'[n] = "done"
    PROVE  Promise!Settle(n)
<1> DEFINE verdict == [m \in Nodes |-> Verdict(m)]
           taken == [m \in Nodes |-> IF pc[m] = "done" THEN chosen[m] ELSE None]
           v == Verdict(n)'
<1>1. TypeOK /\ TypeOK' /\ Effect(n) /\ phase = "nodes" /\ phase' = "nodes" /\ flow' = flow
  BY NodeStepEffect, NodeStepTypes DEF IInv
<1>2. scope' = scope
  BY DEF NodeStep, SkipBlocked, SkipSilently, Begin, InputsMissing, Raise,
         RaisesUnwritten, RaisesTorn, SinkFails, Launch, Returns, ReturnsAndPersists,
         PersistFails, AfterPersist, PassThrough, Chart, Route, PassUnknown, Settle, SettleError, runVars
<1>3. \A p \in Parents(flow.edges, n) : p \in Nodes /\ pc[p] = "done"
  BY <1>1, EdgesAreTyped DEF Parents, Effect, Turn, IInv, BatchesFollowEdges, ParentsFirst
<1>4. verdict[n] = "pending" /\ \A p \in Parents(flow.edges, n) : verdict[p] # "pending"
  BY <1>1, <1>3, VerdictOfResult DEF Effect
<1>5. verdict' = [verdict EXCEPT ![n] = v]
  BY OthersVerdict
<1>6. taken' = [taken EXCEPT ![n] = chosen'[n]]
  BY OthersVerdict
<1>7. taken[n] = None
  BY <1>1 DEF Effect
<1>8. n \in blocked <=> Promise!Withheld(n)
  BY <1>3, BlockedIsWithheld
<1>9. v \in Promise!Verdicts /\ Promise!MaySettle(n, v)
  <2>1. CASE n \in blocked
    BY <1>8, <2>1, OwnVerdict DEF Promise!MaySettle, Promise!Verdicts
  <2>2. CASE n \notin blocked /\ ~Promise!Executable(n)
    BY <1>8, <2>2, OwnVerdict DEF Promise!MaySettle, Promise!Verdicts
  <2>3. CASE n \notin blocked /\ Promise!Executable(n)
    BY <1>8, <2>3, OwnVerdict DEF Promise!MaySettle, Promise!Verdicts
  <2>4. QED
    BY <2>1, <2>2, <2>3
<1>10. verdict'[n] = v
  BY <1>5
<1>11. IF flow.kind[n] = "router" /\ verdict'[n] = "ok"
       THEN \E label \in Handles : taken' = [taken EXCEPT ![n] = label]
       ELSE taken' = taken
  <2>1. IF flow.kind[n] = "router" /\ v = "ok" THEN chosen'[n] \in Handles ELSE chosen'[n] = None
    BY OwnVerdict
  <2>2. [taken EXCEPT ![n] = None] = taken
    BY <1>7
  <2>3. QED
    BY <1>6, <1>10, <2>1, <2>2
<1>12. QED
  BY <1>1, <1>2, <1>4, <1>5, <1>9, <1>11, SameGraph DEF Promise!Settle

LEMMA NodeGoesOn ==
    ASSUME IInv, NEW n \in Nodes, NodeStep(n), pc'[n] # "done"
    PROVE  UNCHANGED Promise!vars
<1>1. TypeOK /\ Effect(n) /\ phase = "nodes" /\ phase' = "nodes" /\ flow' = flow
  BY NodeStepEffect, NodeStepTypes DEF IInv
<1>2. scope' = scope
  BY DEF NodeStep, SkipBlocked, SkipSilently, Begin, InputsMissing, Raise,
         RaisesUnwritten, RaisesTorn, SinkFails, Launch, Returns, ReturnsAndPersists,
         PersistFails, AfterPersist, PassThrough, Chart, Route, PassUnknown, Settle, SettleError, runVars
<1>3. Verdict(n)' = Verdict(n) /\ pc[n] # "done"
  BY <1>1 DEF Effect, Verdict
<1>4. \A m \in Nodes : Verdict(m)' = Verdict(m)
  BY <1>3, OthersVerdict
<1>5. \A m \in Nodes : (IF pc[m] = "done" THEN chosen[m] ELSE None)' = (IF pc[m] = "done" THEN chosen[m] ELSE None)
  BY <1>3, OthersVerdict
<1>6. QED
  BY <1>1, <1>2, <1>4, <1>5 DEF Promise!vars

\* With fresh locals no node has settled.
LEMMA FreshIsUntouched ==
    ASSUME FreshLocals PROVE Promise!Untouched'
<1>1. \A n \in Nodes : pc'[n] = "idle"
  BY DEF FreshLocals
<1>2. \A n \in Nodes : Verdict(n)' = "pending"
  BY <1>1 DEF Verdict
<1>3. QED
  BY <1>1, <1>2 DEF Promise!Untouched

\* Steps that touch no coroutine and neither begin nor end a run.
LEMMA OutsideThePromise ==
    ASSUME UNCHANGED <<flow, scope, nodeVars>>, phase' = "nodes" <=> phase = "nodes"
    PROVE  UNCHANGED Promise!vars
<1>1. \A n \in Nodes : Verdict(n)' = Verdict(n)
  BY DEF Verdict, Ran, nodeVars
<1>2. \A n \in Nodes : (IF pc[n] = "done" THEN chosen[n] ELSE None)' = (IF pc[n] = "done" THEN chosen[n] ELSE None)
  BY DEF nodeVars
<1>3. QED
  BY <1>1, <1>2 DEF Promise!vars

LEMMA StepsKeepThePromise ==
    ASSUME IInv, SInv, [Next]_vars PROVE [Promise!Next]_(Promise!vars)
<1> USE DEF runVars, storeVars
<1>1. CASE StartStep
  <2>1. FreshLocals
    BY <1>1 DEF StartStep, StartCyclic, Start, Resume, ResumeFails
  <2>2. phase = "idle"
    BY <1>1 DEF StartStep, CanRequest
  <2>3. Promise!Begin
    BY <2>1, <2>2, FreshIsUntouched DEF Promise!Begin
  <2>4. QED
    BY <2>3 DEF Promise!Next
<1>2. ASSUME NEW n \in Nodes, NodeStep(n) PROVE [Promise!Next]_(Promise!vars)
  <2>1. CASE pc'[n] = "done"
    BY <1>2, <2>1, NodeReturns DEF Promise!Next
  <2>2. CASE pc'[n] # "done"
    BY <1>2, <2>2, NodeGoesOn
  <2>3. QED
    BY <2>1, <2>2
<1>3. CASE Complete
  <2>1. /\ phase = "nodes" /\ phase' # "nodes" /\ UNCHANGED <<flow, scope, nodeVars>>
        /\ \A n \in Nodes : pc[n] = "done"
    BY <1>3 DEF Complete
  <2>2. \A n \in Nodes : Verdict(n) # "pending" /\ Verdict(n)' = Verdict(n)
    BY <2>1, VerdictOfResult DEF Verdict, Ran, nodeVars
  <2>3. [n \in Nodes |-> IF pc[n] = "done" THEN chosen[n] ELSE None]' = [n \in Nodes |-> IF pc[n] = "done" THEN chosen[n] ELSE None]
    BY <2>1 DEF nodeVars
  <2>4. Promise!End
    BY <2>1, <2>2, <2>3 DEF Promise!End
  <2>5. QED
    BY <2>4 DEF Promise!Next
<1>4. CASE Record
  BY <1>4, OutsideThePromise DEF Record
<1>5. CASE UNCHANGED vars
  BY <1>5, OutsideThePromise DEF vars, nodeVars
<1>6. CASE Crash
  <2>1. Promise!Untouched' /\ phase' # "nodes" /\ UNCHANGED <<flow, scope>>
    BY <1>6, FreshIsUntouched DEF Crash
  <2>2. Promise!Abort
    BY <2>1 DEF Promise!Abort
  <2>3. QED
    BY <2>2 DEF Promise!Next
<1>7. CASE \E n \in Nodes : ClearFrame(n) \/ FlushPersist(n)
  BY <1>7, OutsideThePromise DEF ClearFrame, FlushPersist
<1>8. QED
  BY <1>1, <1>2, <1>3, <1>4, <1>5, <1>6, <1>7 DEF Next, Quiet

\* execute_flow keeps the promise of FlowRun, under both drivers and whatever fails.
THEOREM ExecutorKeepsThePromise == Spec => ImplementsFlowRun
<1>1. Init => Promise!Init
  BY DEF Init, Verdict, Promise!Init, Promise!Untouched
<1>2. QED
  BY <1>1, InvariantHolds, StagesHold, StepsKeepThePromise, PTL DEF Spec, ImplementsFlowRun, Promise!Spec
=============================================================================
