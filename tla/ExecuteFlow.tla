----------------------------- MODULE ExecuteFlow -----------------------------
(***************************************************************************)
(* One worker of the flow engine: POST /run (backend/app/api/execute.py)   *)
(* and execute_flow (backend/app/engine/executor.py), run after run, over  *)
(* the frame cache and the persist tables that outlive each run.           *)
(*                                                                         *)
(* _execute_one is a coroutine.  Control can leave it at every broadcast   *)
(* and while the engine works in its thread, so a step of this module is   *)
(* what runs between two awaits; pc[n] says at which await node n stands:  *)
(*                                                                         *)
(*   "idle"       the driver has not reached the node in this run          *)
(*   "started"    node_start is being broadcast                            *)
(*   "running"    spec.run works in a thread                               *)
(*   "persisted"  node_persisted is being broadcast                        *)
(*   "reporting"  the event that reports success is being broadcast        *)
(*   "failing"    node_error is being broadcast                            *)
(*   "done"       the coroutine has returned                               *)
(***************************************************************************)
EXTENDS FlowGraph, Sequences

CONSTANTS
    Flows,      \* the flows a client may send, see Flow
    Drivers,    \* subset of {"sequential", "parallel"}
    Faults,     \* which of the exceptional happenings below may occur
    MaxRuns,    \* bound: how many runs are requested
    None        \* an absent node id or branch label

Engines == {"processor", "lazy", "pushdown"}

(***************************************************************************)
(* Node types by control flow.  "processor" is an engine that loads its    *)
(* inputs, "lazy" one that scans the cached files and may sink its result  *)
(* into its own (polars), "pushdown" one whose input_mode is "none" (SQL). *)
(* "stop" and "tap" are the stop node in its two modes, "table_out" stands *)
(* for table_out, profile_out and explore_out, "note" for annotation and   *)
(* the ai_* nodes, "other" for a type the executor does not know.          *)
(***************************************************************************)
Kinds == Engines \cup {"trigger", "router", "stop", "tap", "table_out",
                       "chart_out", "report_out", "note", "other"}

Flow == [edges : SUBSET Edge, kind : [Nodes -> Kinds], persist : SUBSET Nodes]

(***************************************************************************)
(* unwritten  a node raises before it writes its frame                     *)
(* torn       the process or the disk gives out while a frame is written   *)
(* stored     the frame is written, then persisting or publishing raises   *)
(* sink       polars cannot sink the result into the cache file            *)
(* clear      POST /clear-cache unlinks frames                             *)
(* flush      POST /flush-persist drops a persist table                    *)
(* crash      the server process dies and is started again                 *)
(***************************************************************************)
FaultKinds == {"unwritten", "torn", "stored", "sink", "clear", "flush", "crash"}

ASSUME ExecuteFlowAssumption ==
    /\ Flows \subseteq Flow
    /\ Drivers \subseteq {"sequential", "parallel"}
    /\ Faults \subseteq FaultKinds
    /\ MaxRuns \in Nat
    /\ None \notin Nodes \cup Handles

VARIABLES
    flow,       \* the flow of the current run
    phase,      \* "idle", "nodes" (the driver works), "over" (execute_flow returns)
    batch,      \* the batch in which the driver reaches each node
    scope,      \* run_scope: the nodes this run may execute
    pc,         \* per node, the await its coroutine stands at
    blocked,    \* blocked: nodes this run must not execute
    chosen,     \* the branch each router took
    result,     \* the status appended to results for each node
    sent,       \* per node, the events broadcast in this run
    finale,     \* the flow-level event broadcast in this run
    cache,      \* the Arrow file of each node: the run that wrote it, and whether it is whole
    persisted,  \* the run whose frame each node's persist table holds, 0 for no table
    rows        \* run_history: the status column of each run's row

runVars   == <<flow, batch, scope>>
nodeVars  == <<pc, blocked, chosen, result, sent>>
storeVars == <<cache, persisted>>
vars      == <<flow, phase, batch, scope, pc, blocked, chosen, result, sent,
               finale, cache, persisted, rows>>

Run == Len(rows)

Frame   == [by : 0 .. MaxRuns, whole : BOOLEAN]
NoFrame == [by |-> 0, whole |-> FALSE]

NodeEvents == {"node_start", "node_blocked", "node_complete", "node_error",
               "node_persisted", "node_routed", "node_stopped", "table_ready",
               "chart_ready", "report_ready"}
PCs        == {"idle", "started", "running", "persisted", "reporting", "failing", "done"}
Statuses   == {"ok", "error", "stopped"}

NoFlow == [edges |-> {}, kind |-> [n \in Nodes |-> "note"], persist |-> {}]

Init ==
    /\ flow = NoFlow
    /\ phase = "idle"
    /\ batch = [n \in Nodes |-> 0]
    /\ scope = {}
    /\ pc = [n \in Nodes |-> "idle"]
    /\ blocked = {}
    /\ chosen = [n \in Nodes |-> None]
    /\ result = [n \in Nodes |-> "none"]
    /\ sent = [n \in Nodes |-> <<>>]
    /\ finale = "none"
    /\ cache = [n \in Nodes |-> NoFrame]
    /\ persisted = [n \in Nodes |-> 0]
    /\ rows = <<>>

-----------------------------------------------------------------------------
(* The request: run_flow inserts its row, execute_flow plans the run.       *)

\* Every run starts with fresh locals; the cache and the tables stay as they are.
FreshLocals ==
    /\ pc' = [n \in Nodes |-> "idle"]
    /\ blocked' = {}
    /\ chosen' = [n \in Nodes |-> None]
    /\ result' = [n \in Nodes |-> "none"]

CanRequest == phase = "idle" /\ Run < MaxRuns

\* Mutated form: the run starts without a row of its own.
RequestUnlogged(f) ==
    /\ CanRequest
    /\ rows' = rows
    /\ flow' = f

\* run_flow commits the row, then awaits execute_flow.
Request(f) ==
    /\ CanRequest
    /\ rows' = Append(rows, "running")
    /\ flow' = f

\* topological_sort raised: one flow_error, and an empty list of results.
StartCyclic(f) ==
    /\ Request(f)
    /\ IsCyclic(f.edges)
    /\ FreshLocals
    /\ sent' = [n \in Nodes |-> <<>>]
    /\ finale' = "flow_error"
    /\ scope' = {}
    /\ batch' = [n \in Nodes |-> 0]
    /\ phase' = "over"
    /\ UNCHANGED storeVars

Plan(f, driver) ==
    /\ ~IsCyclic(f.edges)
    /\ batch' \in Batches(f.edges, driver)
    /\ phase' = "nodes"
    /\ finale' = "none"

\* run_scope of a run from the top, or from a node the user picked.
RunScope(f, start) ==
    IF start = None THEN Nodes ELSE {start} \cup Descendants(f.edges, start)

Start(f, driver, start) ==
    /\ Request(f)
    /\ Plan(f, driver)
    /\ FreshLocals
    /\ sent' = [n \in Nodes |-> <<>>]
    /\ scope' = RunScope(f, start)
    /\ UNCHANGED storeVars

\* "Resume from persisted": the frame comes from the table, only descendants run.
Resume(f, driver, n) ==
    /\ Request(f)
    /\ persisted[n] # 0
    /\ Plan(f, driver)
    /\ FreshLocals
    /\ sent' = [m \in Nodes |-> IF m = n THEN <<"node_complete">> ELSE <<>>]
    /\ scope' = Descendants(f.edges, n)
    /\ cache' = [cache EXCEPT ![n] = [by |-> Run + 1, whole |-> TRUE]]
    /\ UNCHANGED persisted

\* The table cannot be loaded, or writing its frame to the cache breaks off.
ResumeFails(f, n) ==
    /\ Request(f)
    /\ ~IsCyclic(f.edges)
    /\ \/ /\ persisted[n] = 0 \/ "stored" \in Faults
          /\ UNCHANGED cache
       \/ /\ persisted[n] # 0 /\ "torn" \in Faults
          /\ cache' = [cache EXCEPT ![n] = [by |-> Run + 1, whole |-> FALSE]]
    /\ FreshLocals
    /\ sent' = [m \in Nodes |-> IF m = n THEN <<"node_error">> ELSE <<>>]
    /\ finale' = "flow_complete"
    /\ scope' = {}
    /\ batch' = [m \in Nodes |-> 0]
    /\ phase' = "over"
    /\ UNCHANGED persisted

-----------------------------------------------------------------------------
(* The coroutine of one node, from await to await.                          *)

\* Mutated form: gather without the layers' barrier.
AnyTurn(n) == TRUE

\* The driver awaits a whole batch before it begins the next one.
Turn(n) == \A m \in Nodes : batch[m] < batch[n] => pc[m] = "done"

Goto(n, label) == pc' = [pc EXCEPT ![n] = label]
Say(n, event)  == sent' = [sent EXCEPT ![n] = Append(@, event)]

StoreFrame(n)  == cache' = [cache EXCEPT ![n] = [by |-> Run, whole |-> TRUE]]
TearFrame(n)   == cache' = [cache EXCEPT ![n] = [by |-> Run, whole |-> FALSE]]

Reached(n) == phase = "nodes" /\ pc[n] = "idle" /\ Turn(n)

\* Mutated form: one global halt flag instead of a set of blocked nodes.
SkipHalted(n) ==
    /\ Reached(n)
    /\ blocked # {}
    /\ Goto(n, "done")
    /\ Say(n, "node_blocked")
    /\ UNCHANGED <<runVars, storeVars, phase, blocked, chosen, result, finale, rows>>

SkipBlocked(n) ==
    /\ Reached(n)
    /\ n \in blocked
    /\ Goto(n, "done")
    /\ Say(n, "node_blocked")
    /\ UNCHANGED <<runVars, storeVars, phase, blocked, chosen, result, finale, rows>>

\* Notes never execute; nodes out of scope keep the frame they have.
SkipSilently(n) ==
    /\ Reached(n)
    /\ n \notin blocked
    /\ flow.kind[n] = "note" \/ n \notin scope
    /\ Goto(n, "done")
    /\ UNCHANGED <<runVars, storeVars, phase, blocked, chosen, result, sent, finale, rows>>

Begin(n) ==
    /\ Reached(n)
    /\ n \notin blocked
    /\ flow.kind[n] # "note" /\ n \in scope
    /\ Goto(n, "started")
    /\ Say(n, "node_start")
    /\ UNCHANGED <<runVars, storeVars, phase, blocked, chosen, result, finale, rows>>

\* has_frame on every parent, then a load that a torn file does not survive.
InputsReady(n) ==
    \A p \in Parents(flow.edges, n) :
        /\ cache[p].by # 0
        /\ flow.kind[n] = "pushdown" \/ cache[p].whole

\* The except clause broadcasts node_error.
Raise(n) ==
    /\ Goto(n, "failing")
    /\ Say(n, "node_error")
    /\ UNCHANGED <<runVars, phase, blocked, chosen, result, finale, persisted, rows>>

\* No cached data for an upstream node, or the file cannot be read.
InputsMissing(n) ==
    /\ pc[n] = "started"
    /\ ~InputsReady(n)
    /\ Raise(n)
    /\ UNCHANGED cache

\* Engine unavailable, no target connection, a required parameter, user code, a chart.
RaisesUnwritten(n) ==
    /\ "unwritten" \in Faults
    /\ \/ pc[n] = "started" /\ flow.kind[n] \in Engines \cup {"chart_out"}
       \/ pc[n] = "running"
    /\ Raise(n)
    /\ UNCHANGED cache

\* The frame file was opened for writing and not finished.
RaisesTorn(n) ==
    /\ "torn" \in Faults
    /\ \/ /\ pc[n] = "started" /\ InputsReady(n)
          /\ flow.kind[n] \in {"trigger", "router", "stop", "tap", "table_out", "report_out", "other"}
       \/ pc[n] = "running"
    /\ Raise(n)
    /\ TearFrame(n)

\* sink_ipc raised; the handler that should collect instead raises as well,
\* because log_ is a tuple and has no info.
SinkFails(n) ==
    /\ "sink" \in Faults
    /\ pc[n] = "running" /\ flow.kind[n] = "lazy"
    /\ Raise(n)
    /\ \/ TearFrame(n)
       \/ UNCHANGED cache

Launch(n) ==
    /\ pc[n] = "started" /\ flow.kind[n] \in Engines
    /\ InputsReady(n)
    /\ Goto(n, "running")
    /\ UNCHANGED <<runVars, storeVars, phase, blocked, chosen, result, sent, finale, rows>>

Returns(n) ==
    /\ pc[n] = "running" /\ n \notin flow.persist
    /\ StoreFrame(n)
    /\ Goto(n, "reporting")
    /\ Say(n, "node_complete")
    /\ UNCHANGED <<runVars, phase, blocked, chosen, result, finale, persisted, rows>>

ReturnsAndPersists(n) ==
    /\ pc[n] = "running" /\ n \in flow.persist
    /\ StoreFrame(n)
    /\ persisted' = [persisted EXCEPT ![n] = Run]
    /\ Goto(n, "persisted")
    /\ Say(n, "node_persisted")
    /\ UNCHANGED <<runVars, phase, blocked, chosen, result, finale, rows>>

\* persist_frame or publish_report raises after the frame was stored.
PersistFails(n) ==
    /\ "stored" \in Faults
    /\ \/ pc[n] = "running" /\ n \in flow.persist
       \/ pc[n] = "started" /\ flow.kind[n] = "report_out" /\ InputsReady(n)
    /\ StoreFrame(n)
    /\ Raise(n)

\* Mutated form: the closing event is an error although the result is ok.
AfterPersistRaises(n) ==
    /\ pc[n] = "persisted"
    /\ Goto(n, "reporting")
    /\ Say(n, "node_error")
    /\ UNCHANGED <<runVars, storeVars, phase, blocked, chosen, result, finale, rows>>

AfterPersist(n) ==
    /\ pc[n] = "persisted"
    /\ Goto(n, "reporting")
    /\ Say(n, "node_complete")
    /\ UNCHANGED <<runVars, storeVars, phase, blocked, chosen, result, finale, rows>>

Report(n) ==
    IF flow.kind[n] = "trigger" THEN "node_complete"
    ELSE IF flow.kind[n] = "table_out" THEN "table_ready"
    ELSE IF flow.kind[n] = "report_out" THEN "report_ready"
    ELSE "node_stopped"

\* Mutated form: the input is shown and not stored.
ShowOnly(n) ==
    /\ pc[n] = "started"
    /\ flow.kind[n] \in {"trigger", "stop", "tap", "table_out", "report_out"}
    /\ InputsReady(n)
    /\ Goto(n, "reporting")
    /\ Say(n, Report(n))
    /\ UNCHANGED <<runVars, storeVars, phase, blocked, chosen, result, finale, rows>>

\* Trigger, stop, tap, table and report store their input and report it.
PassThrough(n) ==
    /\ pc[n] = "started"
    /\ flow.kind[n] \in {"trigger", "stop", "tap", "table_out", "report_out"}
    /\ InputsReady(n)
    /\ StoreFrame(n)
    /\ Goto(n, "reporting")
    /\ Say(n, Report(n))
    /\ UNCHANGED <<runVars, phase, blocked, chosen, result, finale, persisted, rows>>

\* A chart is rendered from its input; its branch of the code stores no frame.
Chart(n) ==
    /\ pc[n] = "started" /\ flow.kind[n] = "chart_out"
    /\ InputsReady(n)
    /\ Goto(n, "reporting")
    /\ Say(n, "chart_ready")
    /\ UNCHANGED <<runVars, storeVars, phase, blocked, chosen, result, finale, rows>>

Targets(n, handles) ==
    {e.target : e \in {d \in flow.edges : d.source = n /\ d.handle \in handles}}

\* Mutated form: what the chosen branch also reaches is blocked as well.
CutWithoutKeep(n, label) == DescendantsFrom(flow.edges, Targets(n, Handles \ {label}))

\* What a router that took `label` blocks.
Cut(n, label) ==
    DescendantsFrom(flow.edges, Targets(n, Handles \ {label}))
        \ DescendantsFrom(flow.edges, Targets(n, {label}))

\* Mutated form: the branches not chosen are not blocked.
RouteOnly(n) ==
    /\ pc[n] = "started" /\ flow.kind[n] = "router"
    /\ InputsReady(n)
    /\ StoreFrame(n)
    /\ \E label \in Handles : chosen' = [chosen EXCEPT ![n] = label]
    /\ Goto(n, "reporting")
    /\ Say(n, "node_routed")
    /\ UNCHANGED <<runVars, phase, blocked, result, finale, persisted, rows>>

\* Which expression is the first true one is up to the data.
Route(n) ==
    /\ pc[n] = "started" /\ flow.kind[n] = "router"
    /\ InputsReady(n)
    /\ StoreFrame(n)
    /\ \E label \in Handles :
           /\ chosen' = [chosen EXCEPT ![n] = label]
           /\ blocked' = blocked \cup Cut(n, label)
    /\ Goto(n, "reporting")
    /\ Say(n, "node_routed")
    /\ UNCHANGED <<runVars, phase, result, finale, persisted, rows>>

\* An unknown type stores its input and returns without event or result.
PassUnknown(n) ==
    /\ pc[n] = "started" /\ flow.kind[n] = "other"
    /\ InputsReady(n)
    /\ StoreFrame(n)
    /\ Goto(n, "done")
    /\ UNCHANGED <<runVars, phase, blocked, chosen, result, sent, finale, persisted, rows>>

Blocks(n) == blocked' = blocked \cup Descendants(flow.edges, n)

\* The event is out: append the result; a hard stop blocks what follows it.
Settle(n) ==
    /\ pc[n] = "reporting"
    /\ Goto(n, "done")
    /\ IF flow.kind[n] = "stop"
       THEN result' = [result EXCEPT ![n] = "stopped"] /\ Blocks(n)
       ELSE result' = [result EXCEPT ![n] = "ok"] /\ UNCHANGED blocked
    /\ UNCHANGED <<runVars, storeVars, phase, chosen, sent, finale, rows>>

\* Mutated form: an error is recorded but blocks nothing.
SettleErrorOnly(n) ==
    /\ pc[n] = "failing"
    /\ Goto(n, "done")
    /\ result' = [result EXCEPT ![n] = "error"]
    /\ UNCHANGED <<runVars, storeVars, phase, blocked, chosen, sent, finale, rows>>

SettleError(n) ==
    /\ pc[n] = "failing"
    /\ Goto(n, "done")
    /\ result' = [result EXCEPT ![n] = "error"]
    /\ Blocks(n)
    /\ UNCHANGED <<runVars, storeVars, phase, chosen, sent, finale, rows>>

-----------------------------------------------------------------------------
(* The end of a run.                                                        *)

\* Mutated form: the run is over when every node in scope has a result.
CompleteOnResults ==
    /\ phase = "nodes"
    /\ \A n \in scope : result[n] # "none"
    /\ phase' = "over"
    /\ finale' = "flow_complete"
    /\ UNCHANGED <<runVars, nodeVars, storeVars, rows>>

\* Every batch was awaited: flow_complete, and execute_flow returns.
Complete ==
    /\ phase = "nodes"
    /\ \A n \in Nodes : pc[n] = "done"
    /\ phase' = "over"
    /\ finale' = "flow_complete"
    /\ UNCHANGED <<runVars, nodeVars, storeVars, rows>>

HasResult(status) == \E n \in Nodes : result[n] = status

RunStatus ==
    IF HasResult("error") THEN "error"
    ELSE IF HasResult("stopped") THEN "stopped" ELSE "ok"

\* run_flow updates its row from the results it got back.
Record ==
    /\ phase = "over"
    /\ phase' = "idle"
    /\ rows' = [rows EXCEPT ![Run] = RunStatus]
    /\ UNCHANGED <<runVars, nodeVars, storeVars, finale>>

(***************************************************************************)
(* The process dies.  Files being written are left torn, the row keeps     *)
(* saying "running", and the restarted server starts from empty locals.    *)
(***************************************************************************)
Writing(n) ==
    /\ phase = "nodes"
    /\ \/ pc[n] = "running"
       \/ pc[n] = "started" /\ flow.kind[n] \notin Engines \cup {"chart_out"}

Crash ==
    /\ "crash" \in Faults
    /\ phase # "idle"
    /\ phase' = "idle"
    /\ FreshLocals
    /\ sent' = [n \in Nodes |-> <<>>]
    /\ finale' = "none"
    /\ \E cut \in SUBSET {n \in Nodes : Writing(n)} :
           cache' = [n \in Nodes |-> IF n \in cut THEN [by |-> Run, whole |-> FALSE] ELSE cache[n]]
    /\ UNCHANGED <<runVars, persisted, rows>>

\* clear_flow_cache unlinks one file after the other, whoever is running.
ClearFrame(n) ==
    /\ "clear" \in Faults
    /\ cache[n].by # 0
    /\ cache' = [cache EXCEPT ![n] = NoFrame]
    /\ UNCHANGED <<runVars, nodeVars, phase, finale, persisted, rows>>

FlushPersist(n) ==
    /\ "flush" \in Faults
    /\ persisted[n] # 0
    /\ persisted' = [persisted EXCEPT ![n] = 0]
    /\ UNCHANGED <<runVars, nodeVars, phase, finale, cache, rows>>

-----------------------------------------------------------------------------
NodeStep(n) ==
    \/ SkipBlocked(n) \/ SkipSilently(n) \/ Begin(n)
    \/ InputsMissing(n) \/ RaisesUnwritten(n) \/ RaisesTorn(n) \/ SinkFails(n)
    \/ Launch(n) \/ Returns(n) \/ ReturnsAndPersists(n) \/ PersistFails(n) \/ AfterPersist(n)
    \/ PassThrough(n) \/ Chart(n) \/ Route(n) \/ PassUnknown(n)
    \/ Settle(n) \/ SettleError(n)

StartStep ==
    /\ CanRequest
    /\ \E f \in Flows :
           \/ StartCyclic(f)
           \/ \E driver \in Drivers :
                  \/ \E start \in Nodes \cup {None} : Start(f, driver, start)
                  \/ \E n \in Nodes : Resume(f, driver, n)
           \/ \E n \in Nodes : ResumeFails(f, n)

\* The bound: no further run is requested.
Quiet == phase = "idle" /\ Run = MaxRuns /\ UNCHANGED vars

Next ==
    \/ StartStep
    \/ \E n \in Nodes : NodeStep(n)
    \/ Complete
    \/ Record
    \/ Quiet
    \/ Crash
    \/ \E n \in Nodes : ClearFrame(n) \/ FlushPersist(n)

Spec == Init /\ [][Next]_vars

(***************************************************************************)
(* The event loop resumes every coroutine whose await is over; that an     *)
(* engine's thread returns at all is assumed, user code is not bounded.    *)
(***************************************************************************)
Fairness ==
    /\ \A n \in Nodes : WF_vars(NodeStep(n))
    /\ WF_vars(Complete)
    /\ WF_vars(Record)

FairSpec == Spec /\ Fairness

-----------------------------------------------------------------------------
(* Correctness *)

\* Every variable stays within its type.
TypeOK ==
    /\ flow \in Flow
    /\ phase \in {"idle", "nodes", "over"}
    /\ batch \in [Nodes -> Rank]
    /\ scope \subseteq Nodes
    /\ pc \in [Nodes -> PCs]
    /\ blocked \subseteq Nodes
    /\ chosen \in [Nodes -> Handles \cup {None}]
    /\ result \in [Nodes -> Statuses \cup {"none"}]
    /\ sent \in [Nodes -> Seq(NodeEvents)]
    /\ finale \in {"none", "flow_error", "flow_complete"}
    /\ cache \in [Nodes -> Frame]
    /\ persisted \in [Nodes -> 0 .. MaxRuns]
    /\ rows \in Seq(Statuses \cup {"running"})
    /\ Run <= MaxRuns
    /\ phase # "idle" => Run > 0

\* The node was executed in this run: node_start went out for it.
Ran(n) == sent[n] # <<>> /\ sent[n][1] = "node_start"

\* No node is reached before all of its parents have returned, under either
\* driver: "every node in a layer has all its dependencies already satisfied"
\* (executor.py, comment above the drivers).
ParentsFirst ==
    \A e \in flow.edges : pc[e.target] # "idle" => pc[e.source] = "done"

\* Nothing downstream of an error or of a hard stop is executed in that run,
\* although `blocked` is updated only after the node's event was awaited.
HaltedBranchSilent ==
    \A n \in Nodes : result[n] \in {"error", "stopped"} =>
        \A d \in Descendants(flow.edges, n) : ~Ran(d)

Stops(n, d) == result[n] \in {"error", "stopped"} /\ d \in Descendants(flow.edges, n)

CutsOff(n, d) ==
    /\ chosen[n] # None
    /\ d \notin DescendantsFrom(flow.edges, Targets(n, {chosen[n]}))
    /\ d \in Descendants(flow.edges, n)

\* What a router did not choose, and cannot reach otherwise, is not executed.
CutBranchSilent == \A n, d \in Nodes : CutsOff(n, d) => ~Ran(d)

\* A node is blocked only for a reason: an error or hard stop upstream, or a
\* router that cannot reach it through the branch it chose ("a hard stop blocks
\* only its own descendants, NOT sibling branches"; "only blocked if it is
\* unreachable via the chosen branch").
BlockedForAReason == \A d \in blocked : \E n \in Nodes : Stops(n, d) \/ CutsOff(n, d)

\* When execute_flow returns normally, every node in scope that is no note and
\* was not blocked has been executed: no branch is dropped with its sibling.
UnblockedNodesRan ==
    (phase = "over" /\ finale = "flow_complete" /\ scope # {}) =>
        \A n \in scope \ blocked : flow.kind[n] # "note" => Ran(n)

Last(s) == s[Len(s)]

\* A node whose coroutine returned after running sent exactly one closing event,
\* the last one, and that event agrees with the status in results.
OneVerdictPerNode ==
    \A n \in Nodes : (pc[n] = "done" /\ Ran(n) /\ flow.kind[n] # "other") =>
        /\ Len(sent[n]) = IF "node_persisted" \in {sent[n][i] : i \in 1 .. Len(sent[n])}
                          THEN 3 ELSE 2
        /\ Last(sent[n]) = "node_error" <=> result[n] = "error"
        /\ result[n] # "none"

(***************************************************************************)
(* The inductive invariant behind the safety properties: the driver's      *)
(* batches respect the edges, whoever halts or cuts a branch has blocked   *)
(* it by the time the driver can see that, and nobody blocked has run.     *)
(***************************************************************************)
Settled == phase # "nodes" => \A n \in Nodes : pc[n] \in {"idle", "done"}

BatchesFollowEdges ==
    phase = "nodes" => \A e \in flow.edges : batch[e.source] < batch[e.target]

UnreachedUnrun == \A n \in Nodes : pc[n] = "idle" => ~Ran(n)

OpenUntilSettled ==
    \A n \in Nodes : /\ pc[n] # "done" => result[n] = "none"
                     /\ pc[n] \in {"idle", "started"} => chosen[n] = None

HaltsBlock == \A n \in Nodes : result[n] \in {"error", "stopped"} =>
                  Descendants(flow.edges, n) \subseteq blocked

CutsBlock == \A n \in Nodes : chosen[n] # None => Cut(n, chosen[n]) \subseteq blocked

BlockedUnrun == \A n \in blocked : ~Ran(n)

IInv ==
    /\ TypeOK
    /\ Settled
    /\ BatchesFollowEdges
    /\ ParentsFirst
    /\ UnreachedUnrun
    /\ OpenUntilSettled
    /\ HaltsBlock
    /\ CutsBlock
    /\ BlockedUnrun
    /\ BlockedForAReason

\* Blocking only ever hits nodes the driver has not come to: not even in the
\* layer that is running ("Blocking decisions only ever affect later layers").
BlockingLooksAhead ==
    [][\A n \in blocked' \ blocked : pc[n] = "idle" /\ ~Turn(n)]_vars

StaleByDesign(p) == p \in blocked \/ p \notin scope \/ flow.kind[p] \in {"note", "chart_out"}

\* A node reads a frame of an earlier run only from a parent that this run
\* blocked, left out of its scope, or that never stores a frame.
FreshInputs ==
    [][\A n \in Nodes :
          pc[n] = "started" /\ pc'[n] \in {"running", "reporting"} =>
              \A p \in Parents(flow.edges, n) : cache[p].by = Run \/ StaleByDesign(p)]_vars

StoringKinds == Kinds \ {"note", "chart_out"}

\* A node that this run reports as ok or stopped has left this run's frame, whole,
\* for its children and for the inspect panel, unless the cache was cleared since.
SuccessLeavesFrame ==
    \A n \in Nodes : (result[n] \in {"ok", "stopped"} /\ flow.kind[n] \in StoringKinds) =>
        cache[n] \in {[by |-> Run, whole |-> TRUE], NoFrame}

\* The row of a run leaves "running", whatever its nodes do.
RowSettles == \A i \in 1 .. MaxRuns : (Run = i) ~> (i <= Run /\ rows[i] # "running")

-----------------------------------------------------------------------------
(* What the repository says of the program and the code does not do. *)

\* docs/CAPABILITIES.md:224: "a node that several branches feed into still runs".
MergeNodeRuns ==
    scope = Nodes =>
        \A n \in Nodes : (Cardinality(Parents(flow.edges, n)) > 1 /\ n \notin blocked)
                             => result[n] # "error"

\* executor.py:9: "chart_out - renders chart, flow continues".
FlowContinuesAfterChart ==
    \A n \in Nodes : (flow.kind[n] = "chart_out" /\ result[n] = "ok") =>
        \A m \in Children(flow.edges, n) : result[m] # "error"

\* executor.py:949: "Falls back to a streaming collect" when the sink fails.
SinkFailureCollects == \A n \in Nodes : flow.kind[n] = "lazy" => result[n] # "error"

\* docs/CAPABILITIES.md:402: "every run and retry recorded (status, ... errors)".
FailureIsRecorded ==
    (phase = "idle" /\ Run > 0 /\ rows[Run] = "ok") =>
        /\ finale # "flow_error"
        /\ \A n \in Nodes : sent[n] # <<>> => Last(sent[n]) # "node_error"
=============================================================================
