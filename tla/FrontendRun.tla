----------------------------- MODULE FrontendRun ------------------------------
(* What one tab shows of runs: the WebSocket manager, the hook that keeps a socket to the flow in
   view (useFlowWebSocket.ts), and the running flag and node states of the store.

   A flow has one node.  Runs are started by the tab or by anyone else; a flow may be empty or
   have a cycle.  A message on its way when its socket closes is lost.  The flow in view changes
   in the store first; the effect of the hook follows, and other events may come in between. *)
EXTENDS Naturals, Sequences

CONSTANTS
    Flows, None, Empty, Cyclic,     \* the flows without nodes, and with a cycle
    MaxRuns, MaxSockets, MaxLosses  \* bounds

ASSUME FrontendAssumption ==
    /\ None \notin Flows \cup Nat
    /\ Empty \subseteq Flows /\ Cyclic \subseteq Flows /\ Empty \cap Cyclic = {}
    /\ MaxRuns \in Nat /\ MaxSockets \in Nat \ {0} /\ MaxLosses \in Nat

VARIABLES
    view,       \* activeFlowId
    running, execState, runError,
    socket,     \* every WebSocket the tab made, with the messages under way
    hook,       \* the flow of the last effect of the hook; None: FlowCanvas is not mounted
    ref,        \* wsRef.current
    run,        \* every run, and how far it is
    losses,
    missed      \* history: flows of which events may have been missed since execState was cleared
vars == <<view, running, execState, runError, socket, hook, ref, run, losses, missed>>
store == <<running, execState, runError>>

Sockets == 1..MaxSockets
Runs == 1..MaxRuns
NoSocket == [flow |-> None, state |-> "none", timer |-> FALSE, inbox |-> <<>>]
NewSocket(f) == [flow |-> f, state |-> "connecting", timer |-> FALSE, inbox |-> <<>>]
NoRun == [flow |-> None, at |-> "none"]
Over == [flow |-> None, at |-> "over"]
Clear == [f \in Flows |-> "none"]

Init ==
    /\ view = None /\ hook = None /\ ref = None
    /\ running = FALSE /\ execState = Clear /\ runError = FALSE
    /\ socket = [s \in Sockets |-> NoSocket]
    /\ run = [r \in Runs |-> NoRun]
    /\ losses = 0 /\ missed = {}

\* The flow whose events reach the tab.
Heard == IF ref # None /\ socket[ref].state = "open" THEN socket[ref].flow ELSE None

(* connect: the server may take its time to accept. *)
Unused == {s \in Sockets : socket[s].state = "none"}
Connect(sockets, f) ==
    \E s \in Unused : /\ \A u \in Unused : s <= u
                      /\ socket' = [sockets EXCEPT ![s] = NewSocket(f)]
                      /\ ref' = s

Closed(s) == [flow |-> s.flow, state |-> "closed", timer |-> TRUE, inbox |-> <<>>]
Spent == [flow |-> None, state |-> "closed", timer |-> FALSE, inbox |-> <<>>]

-----------------------------------------------------------------------------
(* The socket of the flow in view. *)
Opens(s) ==
    /\ socket[s].state = "connecting"
    /\ socket' = [socket EXCEPT ![s].state = "open"]
    /\ UNCHANGED <<view, store, hook, ref, run, losses, missed>>

Loses(s) ==
    /\ socket[s].state \in {"connecting", "open"} /\ losses < MaxLosses
    /\ losses' = losses + 1 /\ missed' = missed \cup ({Heard} \ {None})
    /\ socket' = [socket EXCEPT ![s] = Closed(@)]
    /\ UNCHANGED <<view, store, hook, ref, run>>

(* ws.onclose, 2 s later: connect is the one of the render that made this socket. *)
Reconnects(s) ==
    /\ socket[s].timer
    /\ IF ref # None /\ socket[ref].state = "closed"
       THEN Connect([socket EXCEPT ![s] = Spent], socket[s].flow)
       ELSE socket' = [socket EXCEPT ![s] = Spent] /\ UNCHANGED ref
    /\ UNCHANGED <<view, store, hook, run, losses, missed>>

(* setActiveFlow, openProject, closeProject. *)
Selects(f) ==
    /\ Unused # {} /\ view' = f /\ execState' = Clear /\ missed' = {}
    /\ UNCHANGED <<running, runError, socket, hook, ref, run, losses>>

(* createProject, deleteProject, addFlow, deleteFlow: another flow, which in two of them is a new
   one, comes into view, or none does.  The node states stay. *)
Moves(f) ==
    /\ f # view /\ Unused # {} /\ view' = f
    /\ UNCHANGED <<store, socket, hook, ref, run, losses, missed>>

\* FlowCanvas goes, and its ref stays empty: what its timers do later is nothing.
Unmounted == [s \in Sockets |-> IF socket[s].state = "none" THEN NoSocket ELSE Spent]
Cleaned == IF ref = None THEN socket
           ELSE [socket EXCEPT ![ref] = IF @.state = "closed" THEN @ ELSE Closed(@)]

(* The effect of the hook: the old socket is closed, the flow in view gets one. *)
Effect ==
    /\ hook # view /\ hook' = view
    /\ missed' = missed \cup ({Heard} \ {None})
    /\ IF view = None THEN socket' = Unmounted /\ ref' = None ELSE Connect(Cleaned, view)
    /\ UNCHANGED <<view, store, run, losses>>

-----------------------------------------------------------------------------
(* Runs, numbered as they begin. *)
Comes(r) == run[r].at = "none" /\ \A q \in 1..(r - 1) : run[q].at # "none"

Posts(r) ==     \* runFlow
    /\ view # None /\ Comes(r) /\ ~running
    /\ running' = TRUE /\ runError' = FALSE /\ execState' = Clear /\ missed' = {}
    /\ run' = [run EXCEPT ![r] = [flow |-> view, at |-> "posted"]]
    /\ UNCHANGED <<view, socket, hook, ref, losses>>

Fails(r) ==     \* runFlow: catch
    /\ run[r].at = "posted"
    /\ running' = FALSE /\ runError' = TRUE
    /\ run' = [run EXCEPT ![r] = Over]
    /\ UNCHANGED <<view, execState, socket, hook, ref, losses, missed>>

tab == <<view, store, socket, hook, ref, losses, missed>>

Starts(r) == run[r].at = "posted" /\ run' = [run EXCEPT ![r].at = "order"] /\ UNCHANGED tab

Elsewhere(r) == \* the scheduler, or another tab
    /\ Comes(r)
    /\ \E f \in Flows : run' = [run EXCEPT ![r] = [flow |-> f, at |-> "order"]]
    /\ UNCHANGED tab

(* The stop button. *)
ClearExecState ==
    /\ running
    /\ running' = FALSE /\ execState' = Clear /\ missed' = {}
    /\ UNCHANGED <<view, runError, socket, hook, ref, run, losses>>

\* broadcast
Told(f, type) == [s \in Sockets |-> IF socket[s].flow = f /\ socket[s].state = "open"
                                    THEN [socket[s] EXCEPT !.inbox = Append(@, [flow |-> f, type |-> type])]
                                    ELSE socket[s]]

(* execute_flow: what its events are. *)
Step(r) ==
    LET f == run[r].flow
        Goes(to) == run' = [run EXCEPT ![r] = to]
        At(pc) == [flow |-> f, at |-> pc]
    IN  /\ \/ /\ run[r].at = "order"
              /\ \/ f \in Empty /\ Goes(Over) /\ UNCHANGED socket
                 \/ f \in Cyclic /\ socket' = Told(f, "flow_error") /\ Goes(Over)
                 \/ f \notin Empty \cup Cyclic /\ socket' = Told(f, "node_start") /\ Goes(At("node"))
           \/ /\ run[r].at = "node" /\ Goes(At("complete"))
              /\ \E type \in {"node_complete", "node_error"} : socket' = Told(f, type)
           \/ run[r].at = "complete" /\ socket' = Told(f, "flow_complete") /\ Goes(Over)
        /\ UNCHANGED <<view, store, hook, ref, losses, missed>>

Receive(s) == socket[s].state = "open" /\ socket[s].inbox # <<>>
              /\ socket' = [socket EXCEPT ![s].inbox = Tail(@)]

(* The state of a node, by the events about it; other events change nothing. *)
Shown(e) ==
    IF e.type = "node_start" THEN [execState EXCEPT ![e.flow] = "running"]
    ELSE IF e.type \in {"node_complete", "node_error"} THEN [execState EXCEPT ![e.flow] = e.type]
    ELSE execState

\* Mutated form: the end of the flow is taken from its last node.
HandlesNodes(s) ==
    /\ Receive(s)
    /\ execState' = Shown(Head(socket[s].inbox))
    /\ UNCHANGED <<view, running, runError, hook, ref, run, losses, missed>>

\* Mutated form: a node that failed keeps its last state.
HandlesSuccess(s) ==
    /\ Receive(s)
    /\ LET e == Head(socket[s].inbox)
       IN  /\ running' = (running /\ e.type # "flow_complete")
           /\ execState' = IF e.type = "node_error" THEN execState ELSE Shown(e)
    /\ UNCHANGED <<view, runError, hook, ref, run, losses, missed>>

(* handleWsEvent: an unknown event changes nothing. *)
Handles(s) ==
    /\ Receive(s)
    /\ LET e == Head(socket[s].inbox)
       IN  /\ running' = (running /\ e.type # "flow_complete")
           /\ execState' = Shown(e)
    /\ UNCHANGED <<view, runError, hook, ref, run, losses, missed>>

Rest == UNCHANGED vars

Works ==
    \/ \E s \in Sockets : Opens(s) \/ Handles(s) \/ Reconnects(s)
    \/ Effect
    \/ \E r \in Runs : Fails(r) \/ Starts(r) \/ Step(r)

Next ==
    \/ Works
    \/ \E s \in Sockets : Loses(s)
    \/ \E f \in Flows \cup {None} : Selects(f) \/ Moves(f)
    \/ \E r \in Runs : Posts(r) \/ Elsewhere(r)
    \/ ClearExecState
    \/ Rest

Spec == Init /\ [][Next]_vars

(* Every run goes on, every message arrives on a socket that stays open, the answer to every
   request comes; nobody presses stop. *)
FairSpec ==
    /\ Spec
    /\ WF_vars(Effect) /\ \A s \in Sockets : WF_vars(Opens(s) \/ Handles(s) \/ Reconnects(s))
    /\ \A r \in Runs : WF_vars(Fails(r) \/ Starts(r) \/ Step(r))

-----------------------------------------------------------------------------
TypeOK ==
    /\ {view, hook} \subseteq Flows \cup {None} /\ {running, runError} \subseteq BOOLEAN
    /\ execState \in [Flows -> {"none", "running", "node_complete", "node_error"}]
    /\ ref \in Sockets \cup {None} /\ missed \subseteq Flows
    /\ hook = None <=> ref = None
    /\ \A s \in Sockets : /\ socket[s].state \in {"none", "connecting", "open", "closed"}
                          /\ socket[s].inbox # <<>> => socket[s].state = "open"
                          /\ socket[s].timer => socket[s].state = "closed" /\ ref # None
                          /\ s = ref => socket[s].state # "none"
    /\ \A r \in Runs : run[r].at \in {"none", "posted", "order", "node", "complete", "over"}

(* The tab has one socket that is not closed, at most, and it is the one the hook knows: no event
   is handled twice.  As long as none was lost, that is the one of the flow that the hook was last
   given.  useFlowWebSocket.ts: onclose, the cleanup. *)
OneSocket ==
    /\ \A s \in Sockets : socket[s].state \in {"connecting", "open"} => s = ref
    /\ losses = 0 /\ ref # None => socket[ref].state # "closed" /\ socket[ref].flow = hook

(* Only nodes of the flow that the tab hears have a state, and once all runs are over and their
   messages read, none is shown as running; but for flows whose events the tab stopped hearing
   after the states were last cleared, because a socket was lost, or the flow in view was another
   one without a clear.  index.ts: handleWsEvent, setActiveFlow, addFlow, deleteFlow. *)
NoSpinner ==
    /\ \A f \in Flows : execState[f] # "none" => f \in missed \cup {Heard}
    /\ (\A r \in Runs : run[r].at \in {"none", "over"}) /\ (\A s \in Sockets : socket[s].inbox = <<>>)
         => \A f \in Flows : execState[f] = "running" => f \in missed

(* Both: what the tab shows, and whom it hears. *)
TabFollowsItsFlow == OneSocket /\ NoSpinner

(* A run of the flow in view that is under way while its socket is open ends the running flag, as
   long as the flow is neither empty nor cyclic and the socket stays.  index.ts: flow_complete. *)
RunningEnds ==
    ((\E r \in Runs : run[r].at = "node" /\ run[r].flow = view) /\ Heard = view) ~> (~running \/ Heard # view)

(* useFlowWebSocket.ts:25: "Reconnect after 2s if closed unexpectedly". *)
ReconnectsToView ==
    view = hook /\ ref # None => (socket[ref].state \in {"connecting", "open"} => socket[ref].flow = view)

(* index.ts:456: "a failed start looked like "nothing happened". Surface the backend's reason
   instead." *)
FailedStartSaid ==
    ((\E r \in Runs : run[r].at = "posted" /\ run[r].flow = view) /\ Heard = view) ~> (~running \/ Heard # view)
=============================================================================
