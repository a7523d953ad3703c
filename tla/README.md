# Sidewinder Flow Studio in TLA+

Sidewinder Flow Studio (SFS) is a visual editor and runner for data flows: the user wires
Python and SQL nodes into a graph on a canvas, and a FastAPI backend executes the graph, by
hand or on a schedule, and streams what happens to the browser. This directory models the
backend's logic and the programs around it, checks it with TLC on small instances, and proves
every safety property that it checks with TLAPS, for instances of any size.

All paths below are relative to `src/`.

## 1. Inventory

| Component | State it keeps | Operations | Hard parts |
|---|---|---|---|
| Flow graph functions (`backend/app/engine/executor.py` 40-150) | none | `topological_sort`, `_dependency_layers`, `descendants_from`, `descendants_of`, `parents_of` | cycles, parallel edges, edges to deleted nodes |
| Executor (`executor.py` 1059-1631) | per run: `blocked`, `results`, `run_scope`; per node: where its coroutine stands | `execute_flow`, `_execute_one` | coroutines of a layer interleave at every broadcast; errors, stops and routers block branches; partial runs; resume |
| Frame cache (`core/frame_cache.py`) | one Arrow file per node and project, kept across runs | store, load, has, head, meta, clear | written in place; read by runs, Explore and the inspect panel; cleared at any time |
| Persist and report store (`core/report_store.py`) | DuckDB tables kept across runs | persist, load, drop, publish, flush | lock retries, failure after the frame was stored |
| Run API, run history (`api/execute.py`, `api/runs.py`) | `run_history` rows | run, flush, clear, inspect | row opened before the run, settled after it; process may die in between |
| Scheduler (`scheduler/scheduler.py`) | jobs, one per flow | register, unregister, fire, retry | flow edited or deleted under a job; overlapping runs; restart |
| Projects (`services/project_service.py`, `api/projects.py`) | one JSON file per project | save, create, delete | unlocked read-modify-write; (un)registering jobs |
| WebSocket manager (`core/ws_manager.py`, `api/ws.py`) | sockets per flow | connect, broadcast, drop | sockets that die during a broadcast |
| Frontend run state (`frontend/src/store`, `hooks/useFlowWebSocket.ts`) | `running`, `execState` | run, handle event, reconnect | events lost between two connections, or never sent |
| Agent providers (`services/agent_provider_service.py`) | rows, one of them active | create, activate, delete | two requests at once |
| Explore (`explore/*.py`, `api/explore.py`) | engine cache, schema cache, drill settings | query, schema, drill | stale caches, time limits on pooled connections |
| Engine registry (`engine/registry.py`) | engines, plugins | register, load | a plugin that fails half way |
| Isolated runtime (`engine/runtime.py`) | a job directory, a subprocess | run | time limit, malformed answers |
| `fast_write` (`executor.py`) | a database table | replace, append | truncate then load, not atomic everywhere |
| Desktop (`backend/app/desktop.py`, `desktop/src-tauri/src/*.rs`) | a child process, `ready`, `STOPPING` | start, ready, crash, stop, update | threads racing for the ready flag; update that fails after the stop |

How they interact: the browser posts a flow to the run API, which opens a `run_history`
row and calls `execute_flow` in a background task; the scheduler's thread does the same with
the flow it reads from the project store.  `execute_flow` calls the graph functions, drives
one coroutine per node, reads and writes the frame cache and the persist store, calls the
engines in worker threads, and broadcasts events through the WebSocket manager, from which
the frontend rebuilds the state it shows.  Explore reads the frame cache and the persist
store at any time, and the user may clear both at any time.

`PROJECT.json` lists every component, the ones that are not modelled with the reason, and
under `hazards` the behaviours that are hard to test, each at its line.

## 2. Plan

Done, in this order: the executor over the frame cache with its abstract promise; the loops
of the graph functions; the scheduler over the project store; then the components around
them (shared cache, Explore, agents, report store, bulk loading, engines and plugins,
isolated runtime, frontend, desktop), each in a module of its own; theorems about the executor,
its refinement and the graph functions; then, component by component, about the safety of all
the others, so that each invariant a run checks is also stated by a theorem.

Left: the refuted statements of section 4 in the form in which they do hold, as theorems of their
own, as `LoadsAreAlwaysWhole` is for a repeated load (an update that fails, two providers on
PostgreSQL).

The instances stay at three or four nodes, two runs in a row and two or three requests at
once: the smallest sizes at which branches fork and merge, a rerun meets what its
predecessor left, and one actor acts between two steps of another.

## 3. Modules

| Module | Models | Properties about |
|---|---|---|
| `FlowGraph` | the DAG utilities, declaratively: the orders `topological_sort` may return, the layers, reachability as the meet of all closed sets, so that proofs need no induction | |
| `TopologicalSort`, `DependencyLayering`, `ReachWalk` | the loops of `executor.py` 40-150: queue and in-degrees (order and queue are one sequence, `line`, of which the first `popped` entries are the order), the same loop with depths, the walk with a stack | that they return what `FlowGraph` defines |
| `ExecuteFlow` | `run_flow`, `execute_flow`, `_execute_one` | blocking, order, verdicts, frames read and left, the run's row |
| `FlowRun`, `ExecuteFlowRefinement` | what a run promises: nodes settle once, after their parents, and are skipped exactly when something upstream withholds their data; the mapping from the executor to it | refinement |
| `ProjectStore` | `save_project`, `delete_project`, (un)registering of jobs, by requests that overlap | jobs against the file |
| `Scheduler` | extends `ProjectStore`: firings, calendar, attempts, backoff, rows, alerts, restart | rows and alerts against what happened |
| `SharedCache` | one cached frame: `frame_cache.store`, `clear`, the metadata cache and the frame listing of `explore/sources.py` | cached measures against the file they claim to measure |
| `ReportStore` | `publish`, `flush`, connections with retries; the pages of `reports-app/app.py` with their own connections and cache | table against row; waiting ends |
| `FastWrite` | `fast_write` per kind of target: PostgreSQL (`COPY`), ClickHouse (HTTP chunks), Iceberg, drivers with a bulk path, StarRocks and Doris, the fallback to `to_sql` | loads that overlap, break off, commit without an answer, are repeated |
| `ExploreLive` | the engine cache and the schema cache of `explore/live.py` and `api/explore.py`, against edits of the connection and changes of the database | engines and schemas against what was asked for |
| `LivePool` | `_execute`: pooled connections, statement timeouts of five kinds of dialect, client-side limits, abandoned statements, databases that respond or do not | whose limit hits whom; which charts end |
| `Drill` | `explore/drill.py`: the settings file, and the rows a point drills to, as many as the panel takes | settings survive; the rows of the point, and all of them or a full panel |
| `AgentProviders` | `agent_provider_service.py`: the statements of overlapping requests, on a database with one writer or with row locks | how many providers are active |
| `BuildFlow` | `build_flow` of `api/agent.py` | what each AI note is told; no note is dropped |
| `EngineRegistry` | `engine/registry.py`: registering, overriding, failing plugins; `resolve_params` and the engine choice of a processor node | whose engine wins; what a node runs with |
| `IsolatedRun` | `engine/runtime.py`: `run_isolated` and a runner that prints, writes, forks, crashes, hangs, on Windows and elsewhere | what is returned is real; when the call ends |
| `FrontendRun` | `useFlowWebSocket.ts` and the run part of `store/index.ts`, with the sockets of `ws_manager.py` | what the tab shows against what runs |
| `DesktopShell` | `desktop.py` and `src-tauri/src/main.rs`, `update.rs` | one generated key, crashes told, stops not, no backend left behind |
| `MC*` | the instances TLC checks; `MCStores`, `MCConfigured`, `MCTimeLimits` and `MCClients` put several components next to each other, see 4 | |
| `*Proofs` | theorems, see 5 | |

`ExecuteFlow` takes the order, the layers and the reachable nodes from the declarative
definitions of `FlowGraph`; the three loop modules justify that, each for any graph. Lists
whose order the client chooses (nodes, edges) are enumerated in every order. Next to some
actions stands a *mutated form*, the action as a plausible mistake would have it; no
specification uses them, they serve to see that a property notices the mistake.

### How `ExecuteFlow` corresponds to the code

A run is one call of `execute_flow` by `run_flow`. The locals of the call are `flow`,
`scope` (`run_scope`), `batch` (the position of a node in `order`, or its layer), `blocked`,
`result` (the `results` list, per node), `chosen` (the branch a router took, which the code
keeps in its event only). What survives a run is `cache` (per node: the run that wrote the
file, and whether the file is whole), `persisted` and `rows`.

`pc[n]` is the await at which the coroutine of node `n` stands, and each action is what
runs between two awaits:

| Action | Code |
|---|---|
| `StartCyclic`, `Start`, `Resume`, `ResumeFails` | 1078-1137, after `run_flow` inserted its row |
| `SkipBlocked`, `SkipSilently`, `Begin` | the driver reaches the node: 1143-1177 |
| `InputsMissing`, `RaisesUnwritten`, `RaisesTorn`, `SinkFails`, `PersistFails` | the ways into the `except` clause, 1590-1598 |
| `Launch`, `Returns`, `ReturnsAndPersists`, `AfterPersist` | a processor: `asyncio.to_thread`, store, persist |
| `PassThrough`, `Chart`, `Route`, `PassUnknown` | the other node types |
| `Settle`, `SettleError` | after the event was awaited: append the result, extend `blocked` |
| `Complete`, `Record` | `flow_complete`; the row is updated |
| `Crash`, `ClearFrame`, `FlushPersist` | the process dies; another request clears the cache or drops a table |

A router extends `blocked` before its broadcast, a stop and an error after it: the model
keeps that order. Node types are grouped by control flow, not by name (see `Kinds`). Which
expression of a router is true, and whether a node raises, is chosen freely. Faults are
enabled by the constant `Faults`; without them only the data's choices remain.

### How the other modules correspond to the code

- **Steps.** FastAPI runs plain endpoints in threads of a pool and `async` ones on the event
  loop. A step of a threaded endpoint (`ProjectStore`, `ReportStore`, `FastWrite`,
  `SharedCache`, `ExploreLive`, `LivePool`) ends at each access to state that others share; a
  step of an `async` one (`AgentProviders`, `BuildFlow`) at each `await`. In `FrontendRun`
  a step is one callback of the browser, in `DesktopShell` what a thread does between two
  locks or two operations on the other process.
- **`ProjectStore`, `Scheduler`.** `file` is the project's JSON file, which `write_text`
  truncates before it writes; `jobs` is APScheduler's table, in memory. `pc[c]` is where a
  request stands: it has read, has opened the file, works off the flows (`todo`). `stage[f]` is
  where the thread of flow `f`'s firing stands, `run[f]` what it holds in locals; `rows` and
  `alerts` are what it leaves. APScheduler's `max_instances = 1` is the guard of `Fires`.
- **`SharedCache`.** The file has an identity (what wrote it), a size and a time; the cached
  measures have the key they were kept under. Files are those of a POSIX system: an open file
  stays readable after it was unlinked.
- **`ReportStore`.** DuckDB lets one process write or several read, so a connection fails while
  another process holds the file; each side tries a bounded number of times. The report's
  table and its row are two statements that commit on their own.
- **`FastWrite`.** The model follows what the database commits: per call (`COPY` in a transaction,
  an Iceberg snapshot, `executemany` on SQL Server, MySQL and Oracle, the INSERTs of `to_sql` in
  the transaction it opens), or per chunk (`Chunked`): each request to ClickHouse, each INSERT
  into which `executemany` is split on StarRocks and Doris, and each INSERT of 1000 rows that
  `to_sql(method="multi", chunksize=1000)` sends to Trino, where it commits by itself. A
  statement that commits by itself is one step. A commit may be done and its answer lost
  (`Committed`): the call then raises, and the rows are there. `FallbackDrop` and `FallbackMake`
  are the second look that `to_sql` takes at the table.
- **`ExploreLive`, `LivePool`.** A connection is its version. `engines` and `schemas` are the two
  dictionaries; each look-up, store and dispose is a step. In `LivePool` a dialect is how it limits a
  statement: for the transaction only (`local`), reset by the pool (`reset`), for the session
  (`session`), in the statement itself (`hint`), or not at all, with the client waiting
  (`waited`). `responsive` says whether the database comes back from the round trips that the
  code makes without a limit of its own: connecting and the ping before, SET, RESET, rollback.
- **`Drill`.** The settings file is replaced by renaming a temporary one; rows are the values
  of the columns of a source, nulls included. The panel takes `DetailRows` of those that the
  query selects, whichever come first, and is told when there are more (`Panel`, `truncated`).
- **`AgentProviders`.** `SingleWriter` tells SQLite, where a second writing transaction waits, from
  PostgreSQL, where it sees only what is committed.
- **`EngineRegistry`.** A plugin's hook is a sequence of calls and may raise or exit after any
  of them; `Nodes` tells whether nodes are run afterwards.
- **`IsolatedRun`.** The job directory, the runner's lines on stdout, its output file, its end, and
  children that keep the pipe open. Time runs out at any moment the code waits. On Windows
  `subprocess.run` then reads the killed runner's output to its end, without a limit (`Drained`).
  A line that is not text fails the decoding of all of them. `rmtree` ignores errors, so the
  directory of a process that is left behind may stay. What the runner may do is what
  `sfs-plugin-sklearn/runner.py`, the one in the repository, does or lets a node's code do.
- **`FrontendRun`.** A socket belongs to one flow and delivers in order until it is lost; a timer
  reconnects after a close. The flow in view changes in the store first: `Selects` is
  `setActiveFlow`, `openProject` and `closeProject`, which clear the node states, `Moves` is
  `createProject`, `deleteProject`, `addFlow` and `deleteFlow`, which do not. The hook's `Effect`
  follows, with other callbacks in between; without a flow in view `FlowCanvas` unmounts. `missed`
  is a history of the flows whose events the tab may have missed since it last cleared the
  states. Runs are started by this tab, by another, or by the scheduler.
- **`DesktopShell`.** The shell's main thread, its reader of the backend's output, its timer and
  the update task share the child, `ready` and `STOPPING`. The reader's loop ends with the
  backend's output, which a process of a node may hold open after the backend's end (`held`), or
  at the first line that is not UTF-8 (`garbled`); `BackendDied` then closes the stdin of a
  backend that may be alive and waits with the mutex, which keeps a stop waiting, too. The
  backend looks for its key file, creates it and writes it in three steps (`EnsureKey`,
  `CreateKey`, `WriteKey`), in which those of an earlier session may come in between; then it
  serves, works, and watches stdin.

## 4. Runs

Four runs put components side by side that share no state in the code. Their variable `part`
says which component a behaviour is about; the others stay in their initial states. Such a run
explores the union of the components' state graphs, not their product, and its properties
are those of the components; fairness is that of the part that moves.

| Run | Instance | Shows |
|---|---|---|
| `all_flows` | every wiring of three nodes along a fixed order with six types, and a cyclic one; both drivers; run from the top or from any node; nodes that raise; one run | blocking halts what it must and nothing else, parents return first, no node in scope is dropped |
| `reruns` | a checkpointed node, a node of three types, a node of four that reads both; two runs in a row; every fault | stale, torn, cleared and persisted frames; one verdict per node |
| `runs_end` | forks and joins of four nodes, two routers in a row, both drivers, with fairness | every run's row leaves "running"; `ExecuteFlow` implements `FlowRun` |
| `graph_functions` | every graph on three nodes with a doubled edge and unlisted nodes, graphs on four with a back edge; walks from one start and from two | the loops return what `FlowGraph` defines, and end |
| `scheduler` | two flows, three bodies to save that change, switch off and strip schedules, two clients with two saves, two firings of which one may be retried, restarts, a `run_history` that refuses writes | jobs follow the file; rows and alerts tell what happened; firings end |
| `stores` | two writers and two readers of a frame; two writers and two pages of a report; three calls with two chunks on each kind of target | measures of the right file; pages that show no table older than its row; what loads leave, whole where they are one transaction |
| `configured` | two requests against two edits of a connection; two saves of a drill mapping, nine rows of two columns and a panel of five; three clients and three provider rows; three plugins of two calls, two of them with nodes | each request works with what it was configured with |
| `time_limits` | three lines of a runner, on Windows and elsewhere; three statements on one pooled connection in five dialects, on a database that responds and on one that does not; graphs of up to five edges over three notes | the waiting ends, and what is returned is real |
| `clients` | two flows (one of them cyclic), two runs, two sockets, one of them lost; two sessions of the shell with two faults (crashes, kills, lines that cannot be decoded) | what the tab and the shell show; what is left behind |
| `merge`, `audit`, `restart` | small instances | three statements of the repository that the code does not meet, see below |

**Bounds.** `MaxRuns` is one or two: two are needed for a run to meet its predecessor's frames.
A fork and a merge need four nodes, and up to renaming an acyclic graph on three nodes has
its edges along a, b, c, so `all_flows` leaves out no wiring of that size. Two requests are
enough for one to act between any two steps of the other; a third provider client is there because
a deletion, a creation and an activation may meet. Two saves and two firings let a retry
meet an edited plan and a second firing the rows of the first; two attempts tell a first from a
last one. Three calls of `fast_write` let a repetition follow two that overlapped; two chunks are enough for a
part of a frame. Two sockets are the one left and the one in view, or the one lost and its successor;
the third that a late timer opens, for `ReconnectsToView`, is in the instance that refutes it, and
the theorem about the tab is for any number. `DetailRows` is less than the rows of some points and
filters and more than those of others. Two sessions of the shell are needed for
a key to be read back. The other constants (`MaxReads`, `MaxWrites`, `MaxEdits`, `MaxAlters`,
`MaxLines`, `MaxTimeouts`, `MaxFaults`, `MaxLosses`, ...) each bound one counter of their
module and are named there. Deadlock is checked in every run; where a bound is reached a
module stutters explicitly.

**Fairness.** The event loop and the operating system resume what is ready, so every component's own
next step is weakly fair. What is assumed of others is said where it is used: that node
code returns (`runs_end`, `scheduler`, `clients`), because the backend sets it no limit; that a
statement of the report store ends (`stores`). In `time_limits` the runner and the provider are
trusted in nothing. Of a database it is assumed that no statement need ever be answered; a
chart that the program itself gives up (dialect `waited`, and ClickHouse once it refused the
hint) ends whatever the database does. The others run in the request's thread, with no limit
on the round trips around the statement: that they end is stated, and checked, for databases
that are `responsive` only, whose own statement timeout then counts. A run of a plugin ends but
for one case, which `RunEnds` names: on Windows, while a process that the runner left holds its
pipe. Nothing is assumed fair that a user does.

### Where the code and the repository's words differ

Three statements are refuted by runs:

- `merge`: `docs/CAPABILITIES.md:224` promises that a node fed by several branches of a
  router "still runs". In a first run the branch not taken has no frame, the merge node raises
  "No cached data for upstream node" and blocks what follows; in later runs it computes on the
  frame of an earlier run. That staleness is why `FreshInputs` exempts blocked parents.
- `audit`: a cyclic flow, or a resume whose table cannot be loaded, is recorded as "ok".
- `restart`: after a restart no flow has a job until its project is saved again.

The others are stated as properties of their modules, with the instance in which TLC refutes them;
`PROJECT.json` quotes the words under `findings`.

| Property | Refuted with |
|---|---|
| `ExecuteFlow!FlowContinuesAfterChart` | `reruns` with `Flows <- ChartFlows`: a chart stores no frame, a node below it fails |
| `ExecuteFlow!SinkFailureCollects` | `reruns`: the handler of a failing `sink_ipc` raises |
| `TopologicalSort!CycleMeansCycle` | `graph_functions`: an edge to an unlisted node is taken for a cycle |
| `ProjectStore!JobsFollowFile`, `Scheduler!OnlyScheduledFlowsRun` | `scheduler`: overlapping saves; a flow whose trigger node was removed keeps running |
| `SharedCache!OneFramePerFile`, `UnreadableFramesArePassedOver` | `stores` |
| `ReportStore!NeverBlocked`, `NoneMeansNone` | `stores` |
| `FastWrite!ReplaceSafeToRepeat`, `DefinitionKept`, `NotRefused` | `stores`; `NotRefused` for a missing Iceberg table, and with `Elsewhere = TRUE`, a table outside of `public` |
| `ExploreLive!OpenReReads`, `EnginesOnlyForEdits` | `configured`; the second with `FreshArgs = TRUE`, a Trino connection |
| `Drill!NothingUnsaid` | `configured` |
| `AgentProviders!OneActive`, `FirstIsActive` | `configured`; the first with `SingleWriter = FALSE` |
| `BuildFlow!NoAnswerNoNotes` | `time_limits` |
| `EngineRegistry!FailedIsSkipped`, `NeverDown`, `FileOutputTaken`, `NoCollision` | `configured` |
| `IsolatedRun!RuntimeErrors`, `CrashSurfaces`, `PrintsSurface`, `RunAlwaysEnds`, `JobRemoved` | `time_limits` |
| `FrontendRun!FailedStartSaid` | `clients` |
| `FrontendRun!ReconnectsToView` | `clients` with `MaxSockets = 3` |
| `DesktopShell!FailureNeverBlocks`, `ErrorWithLog`, `OnlyCrashesReported`, `KeyIsValid` | `clients` |
| `DesktopShell!NeverOutlivesAtAll`, `StoppedOnExit` | `FairSpec` of the module with the constants of `clients`, where the work of a node need not end |

## 5. Proofs

The theorems hold for every value of the constants that meets the named assumptions of the
modules (`FlowGraphAssumption`, `ExecuteFlowAssumption`, `ProjectStoreAssumption`, ...): any
finite set of nodes, any flows, both drivers, any number of requests, sockets, retries,
restarts and faults. The four modules that put components side by side gather the assumptions
of theirs (`StoresAssumption`, `ConfiguredAssumption`, `TimeLimitsAssumption`,
`ClientsAssumption`), and TLC evaluates them on its instances. In each case the inductive
invariant was first checked by TLC on the instances of section 4.

| Theorem | Module | States |
|---|---|---|
| `TypeCorrect` | `ExecuteFlowProofs` | `[]TypeOK` |
| `ParentsComeFirst` | | `[]ParentsFirst` |
| `HaltedBranchesStaySilent`, `CutBranchesStaySilent` | | `[]HaltedBranchSilent`, `[]CutBranchSilent` |
| `BlockedOnlyForAReason`, `UnblockedNodesAllRan` | | `[]BlockedForAReason`, `[]UnblockedNodesRan` |
| `EveryNodeHasOneVerdict`, `SuccessAlwaysLeavesFrame` | | `[]OneVerdictPerNode`, `[]SuccessLeavesFrame` |
| `BlockingAlwaysLooksAhead`, `InputsAreFresh` | | the action properties `BlockingLooksAhead`, `FreshInputs` |
| `ExecutorKeepsThePromise` | | `ImplementsFlowRun`: the executor implements `FlowRun` |
| `ParentsArePoppedFirst`, `RaisesExactlyOnCycles`, `ReturnsATopologicalOrder` | `DependencyLayeringProofs` | `[]ParentsPoppedFirst` (for dangling edges too), `[]RaisesOnCyclesOnly`, `[]ReturnsTopologicalOrder` |
| `DepthsAreBounded`, `NoPathWithinALayer`, `ReturnsDependencyLayers` | | `[]DepthOK`, `[]PathsLeadToLaterLayers`, `[]LayersAreDependencyLayers` |
| `WalkSeesDescendants` | `ReachWalkProofs` | `[]SeesDescendants` |
| `JobsFollowWhatIsSaved`, `RowsAlwaysTellFirings`, `AlertsAlwaysTellFailures` | `SchedulerProofs` | `[]SavedAndScheduled`, `[]RowsTellFirings`, `[]AlertsTellFailures` |
| `MeasuresAreOfTheFile`, `PagesAlwaysTellReports`, `LoadsAreAlwaysWhole` | `StoresProofs` | `[]MetaIsOfItsKey`, `[]PagesTellReports`, `[]LoadsAreWhole` |
| `EnginesAreKeptInOrder`, `OpeningAloneReReads` | `ConfiguredProofs` | `[]EnginesOfTheirRequests`, `[]OpenReReadsAlone` |
| `TheDrillGoesToThePoint` | | `[]DrillsToThePoint` |
| `EnginesAreOfTheirPlugins`, `NodesAreRunAsFilledIn` | | `[]EnginesOfTheirPlugins`, `[]NodesRunAsFilledIn` |
| `OneActiveOnSQLite` | | `OneActiveUntilDeleted`, an invariant and an action property, where `SingleWriter` holds |
| `ReturnedFramesAreReal`, `LimitsAreTheirOwn`, `NotesAreToldAndAnswered` | `TimeLimitsProofs` | `[]FramesAreReal`, `[]OnlyOwnLimit`, `[]NotesToldAllThatIsKnown` |
| `TheTabFollowsItsFlow`, `OneKeyForAllSessions` | `ClientsProofs` | `[]TabFollowsItsFlow`, `[]SameKey` |
| `StopsAreNotReported`, `NoneIsLeftBehind` | | `[]StopsUnreported` and the action property `DeadOnExit`, the safety halves of `CrashesAreTold` and `NeverOutlives` |

**The executor.** That a halted branch stays silent is not inductive: it needs that the
halting node has blocked its descendants in the same step in which its result appears
(`HaltsBlock`, `CutsBlock`), that no blocked node has run (`BlockedUnrun`), and, for a node to
be blocked before it runs, that everything downstream of a node that has not returned is
still idle. The last fact (`DownstreamIsIdle`) is where `ParentsFirst` is lifted from edges to
paths: the idle nodes downstream form a closed set, and reachability is the least closed
set. `ParentsFirst` in turn needs that batches follow the edges (`BatchesFollowEdges`), for
either driver. `OpenUntilSettled` says that a verdict or a router's choice is never
overwritten, so that a reason for blocking persists. These make up `IInv`. A second
invariant, `SInv`, on top of it, follows one node through its stages: what each stage says of
the node's frame, event and result (`Stages`), and that a run is over only when no node is
under way (`OverWhenDone`); the verdicts and frames follow from it.

**The refinement.** `FlowRun` decides whether a node is skipped from what has settled
upstream alone; the executor decides it from `blocked`, which several coroutines fill. The two
agree once all parents of a node have returned: then `blocked` holds exactly the nodes from
which something settled upstream withholds its data. From `BlockedForAReason` follows that it
holds no more, from `HaltsBlock` and `CutsBlock` no less. Every other step settles nothing and
is a stutter of `FlowRun`.

**The graph functions.** The sort's invariant counts: an in-degree is the number of edges not
yet taken off, so a node enters the line exactly when its last edge goes. `ReadyFrom` remembers
at which pop that was; these moments grow along the line (`FirstReadyFirst`), which is the
queue's discipline. That cyclic graphs are recognised needs no path argument: a set of nodes
that each have a parent in the set is never entered (`CyclesStayOut`), and what is left over at
the end is such a set. The layering loop is the sorting loop when the depths are forgotten
(`LayeringSorts`), so it inherits this invariant and adds that a node's depth no longer changes
once it is queued.

**The scheduler.** While requests come one after the other, the one under way owns the file
(`Owned`): when it registers jobs the file is its payload, and the flows it has been
through follow the file. For the rows, `RunIsLast` says that a firing's attempts so far are the
last rows of its flow, all but the last failed, and that all other rows are of older firings;
`RowsInOrder` keeps the same of the firings before it, so that an attempt's number is a count of
rows. Firings of different flows have different numbers (`FiringsDiffer`), so that one flow's
alert is not taken for another's.

**Stores** (`StoresInv`). *Cached frames*: a size and time is given out once, by a write that is
over (`KeysAreOld`), so a file that still has those a reader looked up holds what the reader
found, whichever file it opened in between (`FoundIsOfItsKey`). *Reports*: the stored table, if
there is one, is the newest and at least as new as every row that was written, and so is what a
page's cache keeps under a row's stamp (`NewestTable`, `Known`); whatever a page loads later is
therefore at least as new as the row it chose.
As long as no two writers overlapped and none broke off between its two statements, the row and
the table agree, or the one writer that is between the two will make them (`OneWriter`).
*Loads*: one invariant per kind of target. In PostgreSQL the locks exclude each other (`Locks`), so
that what a transaction will commit, applied to the table as it is, is what its call was to do
(`InTransaction`); in Iceberg a call commits on the snapshot it began with
or is refused; elsewhere the table that a replacing call fills holds the chunks it has sent and
beside them only such as were under way when it began (`StepwiseInv`), which needs that a call that
began alone stays alone, and that nothing else comes to be under way meanwhile (`AloneIsAlone`).
Where frames are one transaction, every set of rows that is ever committed is one of whole
frames (`WholeFrames`).

**What requests are configured with** (`ConfiguredInv`, `AgentsInv`). *Explore*: engines are numbered
as they are made, so a new one was never disposed of, and what a request holds is of the version
it read; opening drops the schema, and alone nobody puts an older one back. *Drill*: the settings
file is whole because only a complete temporary file is renamed onto it; for the rows, the
conditions a point, a filter and a mapping give are evaluated in SQL's three values, and a lemma
(`SelectedAreOfThePoint`) compares what they select with the rows of the point, for lists, ranges
and nulls. *Providers*: on SQLite the request that waits for its commit has deactivated every row
there is and is the only one (`OneWriter`), so that what it activates is alone.
*Plugins*: while plugins load, `Won(e)` describes the owner of each name by the calls so
far, whichever hook failed in between; `Listed` says which plugins have had their turn.

**Limits** (`LimitsInv`). *Isolated runs*: once the runner has ended, what it printed and wrote no
longer changes, and the call reads both only then (`Stages`). *The pool*: no two threads have
one connection, an abandoned one keeps its own until its statement ends (`Connected`), and where
limits are cleared, a session has one exactly while the chart query it was set for holds it, up
to its release (`LimitsHeld`). *Notes*: the loop that sorts is a topological sort (`SortInv`), so a note
comes after all of its parents and what it is told can no longer change (`LoopInv`); a set of
nodes that each have a parent in it is never entered (`NoneBelowACycle`), and what is left over at
the end is such a set.

**Clients** (`ClientsInv`). *The tab*: only the socket that the hook knows is heard, and for every
node of its flow that is shown as running, and of whose flow no event was missed since the states
were cleared, a run is under way whose end the socket will still tell (`EndsCome`). *The desktop*: a
backend whose shell is there leaves, or is killed, only after it was told to stop, or after its
output could not be decoded, and a shell that has given its child away has seen its end
(`StopsFirst`); what is reported is a crash, or output that could not be decoded
(`CrashedIfTold`). A key that was generated is what the file holds, and at most one backend has created the file and not yet written it, to which
it is still empty (`KeyInv`): `O_EXCL` lets nobody else come that far.

Only model-checked: the liveness properties and those with fairness (`RowSettles`, `WalkEnds`,
`FiringsEnd`, `AllEnd`, `LimitedOnesEnd`, `RunningEnds`, and the liveness halves of `CrashesAreTold` and
`NeverOutlives`), which are out of the prover's reach; and what the statements of section 4 say that
the code does not meet. No induction over data is used: orders and reachability are given by
closed sets, and what a loop has done so far by what its variables hold. For PostgreSQL nothing is proved of
the providers, since there two do stay active.

## 6. Assumptions

- *Of the operating system and databases*: POSIX files in `SharedCache`; statements that commit by
  themselves, or with the transaction the code opens, in `FastWrite` and `ReportStore`; one writer at
  a time for SQLite, row locks and read-committed snapshots for PostgreSQL in `AgentProviders`.
- *Of names*: that the model values for nothing (`None`), for an empty key file (`Empty`) and for a file
  cut off while it was written (`Torn`) are none of the data, and that the notes of a flow are
  finitely many; each named in the assumption of its module.
- *Of user code*: that a node returns, where a liveness property says so.
- *Of data*: a created project has a manual trigger (`ProjectStore`), as `create_project` and the
  examples give it; flows of the frontend model have one node, or none (`Empty`); the flows that
  `ExecuteFlow` runs have edges between listed nodes only.
- `LivePool!OnlyOwnLimit` is about dialects whose limit is undone by the pool or the server. Where a limit
  is set for the session and never reset (dialect `session`) the next statement on that connection
  inherits it; the property excludes that case.
- *Of the end of a call* (`FastWrite`): a call ends when the database is done with its statement, if that
  is one transaction. Where the client is gone before, a call that is made meanwhile counts as one
  that overlaps it. Only requests and INSERTs that commit by themselves may still land later (`late`).
- *Of output that cannot be decoded* (`DesktopShell`): that the backend's later prints fail once the shell
  has closed its end of the pipe is not modelled; what a node's code makes of that is its own.

## 7. Not modelled

- What user code, SQL, charts and prompts compute; layout of messages; the text of errors.
- Two runs at once as seen by `execute_flow`: `SharedCache` has the file they share, but not
  the verdicts they come to.
- Nodes of different projects or flows sharing a persist table by name.
- `run_flow_sync` (`executor.py` 1634-1664), which nothing calls.
- Explore's compiler and node generation, the curve-fitting and sklearn plugins: text in,
  text out, and numerical code over real numbers.
- The canvas and its panels, metadata, custom processors, capabilities and examples:
  rendering, forms and single-statement CRUD without concurrency of their own.
- Encryption of keys, building of URLs, mail and Slack: conversions and I/O.
