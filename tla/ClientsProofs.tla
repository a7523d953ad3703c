----------------------------- MODULE ClientsProofs -----------------------------
(***************************************************************************)
(* Theorems about the two programs around the backend: a tab of the        *)
(* frontend, for every set of flows and any number of runs, sockets and    *)
(* losses, and the desktop shell, for any number of sessions and faults.   *)
(* They rest on FrontendAssumption and ClientsAssumption only.             *)
(***************************************************************************)
EXTENDS MCClients, TLAPS

(* FrontendRun: the tab. *)

Ends == {"node_complete", "node_error"}
Types == Ends \cup {"node_start", "flow_complete", "flow_error"}
Message == [flow : Flows, type : Types]
Wire == [flow : Flows \cup {None}, state : {"none", "connecting", "open", "closed"},
         timer : BOOLEAN, inbox : Seq(Message)]
Progress == [flow : Flows \cup {None}, at : {"none", "posted", "order", "node", "complete", "over"}]

\* What is under way on a socket is for its flow, and nothing is where the socket is not open.
Wired ==
    /\ hook = None <=> ref = None
    /\ \A s \in Sockets : /\ socket[s].state # "open" => socket[s].inbox = <<>>
                          /\ socket[s].timer => socket[s].state = "closed" /\ ref # None
                          /\ \A i \in DOMAIN socket[s].inbox : socket[s].inbox[i].flow = socket[s].flow

RunsAreOfFlows ==
    /\ run \in [Runs -> Progress]
    /\ \A r \in Runs : run[r].at \notin {"none", "over"} => run[r].flow \in Flows

Shapes ==
    /\ {view, hook} \subseteq Flows \cup {None}
    /\ execState \in [Flows -> {"none", "running"} \cup Ends]
    /\ ref \in Sockets \cup {None} /\ socket \in [Sockets -> Wire]
    /\ losses \in Nat
    /\ Wired /\ RunsAreOfFlows

\* The messages that are on their way to the tab, and whether any can come.
Inbox == IF ref = None THEN <<>> ELSE socket[ref].inbox
Hears == ref # None /\ socket[ref].state = "open"

\* The tab shows nodes of flows that it hears, or that it stopped hearing.
Known == \A f \in Flows : execState[f] # "none" => f \in missed \/ (Hears /\ f = socket[ref].flow)

UnderWay == \E r \in Runs : run[r].at = "node" /\ run[r].flow = socket[ref].flow

\* The end of a node is awaited, if it started and nothing that ends it is on its way.
AwaitedFrom(k) == \A j \in DOMAIN Inbox : j > k => Inbox[j].type \notin Ends

\* Whatever is shown as running, or will be, has a run that is under way.
EndsCome ==
    Hears =>
      /\ \A f \in Flows : f = socket[ref].flow /\ execState[f] = "running" /\ f \notin missed /\ AwaitedFrom(0)
                            => UnderWay
      /\ \A i \in DOMAIN Inbox : Inbox[i].type = "node_start" /\ AwaitedFrom(i) => UnderWay

IInv == Shapes /\ OneSocket /\ Known /\ EndsCome

\* The sockets a tab makes.
LEMMA NewSocketTypes ==
    ASSUME NEW f \in Flows \cup {None}
    PROVE  /\ NewSocket(f) \in Wire /\ NewSocket(f).state = "connecting" /\ NewSocket(f).flow = f
           /\ NewSocket(f).inbox = <<>> /\ ~NewSocket(f).timer
<1>1. <<>> \in Seq(Message)
  OBVIOUS
<1>2. QED
  BY <1>1 DEF Wire, NewSocket

LEMMA NoSocketTypes ==
    /\ NoSocket \in Wire /\ NoSocket.state = "none" /\ NoSocket.inbox = <<>> /\ ~NoSocket.timer
    /\ Spent \in Wire /\ Spent.state = "closed" /\ Spent.inbox = <<>> /\ ~Spent.timer
<1>1. <<>> \in Seq(Message)
  OBVIOUS
<1>2. QED
  BY <1>1 DEF Wire, NoSocket, Spent

\* Closing a socket.
LEMMA Closing ==
    ASSUME NEW w \in Wire
    PROVE  /\ Closed(w) \in Wire /\ Closed(w).state = "closed" /\ Closed(w).inbox = <<>>
           /\ Closed(w).flow = w.flow
<1>1. <<>> \in Seq(Message)
  OBVIOUS
<1>2. QED
  BY <1>1 DEF Wire, Closed

LEMMA RefIsNumber == None \notin Sockets /\ None \notin Flows
BY FrontendAssumption DEF Sockets

LEMMA InitIInv == Init => IInv
<1> SUFFICES ASSUME Init PROVE IInv
  OBVIOUS
<1>1. \A s \in Sockets : socket[s] = NoSocket
  BY DEF Init
<1>2. socket \in [Sockets -> Wire] /\ ref = None /\ hook = None
  BY NoSocketTypes DEF Init
<1>3. Wired
  BY <1>1, <1>2, NoSocketTypes DEF Wired
<1>4. RunsAreOfFlows
  BY DEF Init, RunsAreOfFlows, NoRun, Progress
<1>5. Shapes
  BY <1>2, <1>3, <1>4 DEF Init, Shapes, Clear
<1>6. OneSocket
  BY <1>1, <1>2, NoSocketTypes DEF OneSocket
<1>7. Known /\ EndsCome
  BY <1>2 DEF Init, Known, EndsCome, Hears, Clear
<1>8. QED
  BY <1>5, <1>6, <1>7 DEF IInv

\* A tab that hears nothing, and has missed every flow of which it shows something.
LEMMA Deaf ==
    ASSUME Shapes', OneSocket', ~Hears', \A f \in Flows : execState'[f] # "none" => f \in missed'
    PROVE  IInv'
BY DEF IInv, Known, EndsCome

-----------------------------------------------------------------------------
(* A new socket is the only one that is not closed, if the one before it was. *)

LEMMA Connecting ==
    ASSUME NEW f \in Flows \cup {None}, NEW sockets \in [Sockets -> Wire],
           \A s \in Sockets : sockets[s].state \notin {"connecting", "open"} /\ sockets[s].inbox = <<>>,
           \A s \in Sockets : sockets[s].timer => sockets[s].state = "closed",
           Connect(sockets, f)
    PROVE  /\ ref' \in Sockets /\ ref' # None /\ socket' \in [Sockets -> Wire]
           /\ socket'[ref'].state = "connecting" /\ socket'[ref'].flow = f
           /\ \A s \in Sockets : /\ s # ref' => socket'[s].state \notin {"connecting", "open"}
                                 /\ socket'[s].inbox = <<>>
                                 /\ socket'[s].timer => socket'[s].state = "closed"
<1>1. PICK s \in Unused : socket' = [sockets EXCEPT ![s] = NewSocket(f)] /\ ref' = s
  BY DEF Connect
<1>2. s \in Sockets
  BY <1>1 DEF Unused
<1>3. socket'[s] = NewSocket(f) /\ \A q \in Sockets : q # s => socket'[q] = sockets[q]
  BY <1>1, <1>2
<1>4. socket' \in [Sockets -> Wire]
  BY <1>1, <1>2, NewSocketTypes
<1>5. QED
  BY <1>1, <1>2, <1>3, <1>4, NewSocketTypes, RefIsNumber

\* The tab that has just made one.
LEMMA Connected ==
    ASSUME Shapes, ref' \in Sockets, ref' # None, hook' # None, {view', hook'} \subseteq Flows \cup {None},
           socket' \in [Sockets -> Wire], socket'[ref'].state = "connecting",
           \A s \in Sockets : /\ s # ref' => socket'[s].state \notin {"connecting", "open"}
                              /\ socket'[s].inbox = <<>>
                              /\ socket'[s].timer => socket'[s].state = "closed",
           losses' = 0 => socket'[ref'].flow = hook',
           UNCHANGED <<execState, run, losses>>,
           \A f \in Flows : execState'[f] # "none" => f \in missed'
    PROVE  IInv'
<1>1. Wired'
  BY DEF Wired
<1>2. RunsAreOfFlows'
  BY DEF Shapes, RunsAreOfFlows
<1>3. Shapes'
  BY <1>1, <1>2 DEF Shapes
<1>4. OneSocket'
  BY DEF OneSocket
<1>5. ~Hears'
  BY DEF Hears
<1>6. QED
  BY <1>3, <1>4, <1>5, Deaf
-----------------------------------------------------------------------------
(* Steps of the tab and of runs that send nothing: runs that are under way stay so. *)

LEMMA QuietSteps ==
    ASSUME IInv, UNCHANGED <<hook, socket, ref, losses>>, view' \in Flows \cup {None},
           execState' = Clear \/ UNCHANGED <<execState, missed>>,
           RunsAreOfFlows', \A r \in Runs : run[r].at = "node" => run'[r] = run[r]
    PROVE  IInv'
<1>1. Shapes /\ OneSocket /\ Known /\ EndsCome
  BY DEF IInv
<1>2. Clear \in [Flows -> {"none", "running"} \cup Ends] /\ \A f \in Flows : Clear[f] = "none"
  BY DEF Clear
<1>3. Wired'
  BY <1>1 DEF Shapes, Wired
<1>4. Shapes'
  BY <1>1, <1>2, <1>3 DEF Shapes
<1>5. OneSocket'
  BY <1>1 DEF OneSocket
<1>6. Known'
  BY <1>1, <1>2 DEF Known, Hears
<1>7. UnderWay => UnderWay'
  BY DEF UnderWay
<1>8. (Hears' <=> Hears) /\ Inbox' = Inbox
  BY DEF Hears, Inbox
<1>9. \A f \in Flows : execState'[f] = "running" /\ f \notin missed' => execState[f] = "running" /\ f \notin missed
  BY <1>2
<1>10. EndsCome'
  BY <1>1, <1>7, <1>8, <1>9 DEF EndsCome, AwaitedFrom
<1>11. QED
  BY <1>4, <1>5, <1>6, <1>10 DEF IInv

\* A run that is not at its node goes on.
LEMMA GoesOn ==
    ASSUME RunsAreOfFlows, NEW r \in Runs, run[r].at # "node", NEW w \in Progress,
           w.at \notin {"none", "over"} => w.flow \in Flows, run' = [run EXCEPT ![r] = w]
    PROVE  RunsAreOfFlows' /\ \A q \in Runs : run[q].at = "node" => run'[q] = run[q]
<1>1. run' \in [Runs -> Progress] /\ run'[r] = w /\ \A q \in Runs : q # r => run'[q] = run[q]
  BY DEF RunsAreOfFlows
<1>2. QED
  BY <1>1 DEF RunsAreOfFlows

LEMMA RequestsKeepIInv ==
    ASSUME IInv, NEW r \in Runs,
           Posts(r) \/ Fails(r) \/ Starts(r) \/ Elsewhere(r)
    PROVE  IInv'
<1>1. Shapes /\ RunsAreOfFlows
  BY DEF IInv, Shapes
<1>2. CASE Posts(r)
  <2>1. run[r].at = "none" /\ run' = [run EXCEPT ![r] = [flow |-> view, at |-> "posted"]] /\ view \in Flows
    BY <1>1, <1>2 DEF Posts, Comes, Shapes
  <2>2. [flow |-> view, at |-> "posted"] \in Progress
    BY <2>1 DEF Progress
  <2>3. RunsAreOfFlows' /\ \A q \in Runs : run[q].at = "node" => run'[q] = run[q]
    BY <1>1, <2>1, <2>2, GoesOn
  <2>4. UNCHANGED <<view, hook, socket, ref, losses>> /\ execState' = Clear
    BY <1>2 DEF Posts
  <2>5. QED
    BY <1>1, <2>3, <2>4, QuietSteps DEF Shapes
<1>3. CASE Fails(r) \/ Starts(r)
  <2>1. run[r] \in Progress /\ run[r].at = "posted" /\ run[r].flow \in Flows
    BY <1>1, <1>3 DEF Fails, Starts, RunsAreOfFlows
  <2>2. PICK w \in {Over, [run[r] EXCEPT !.at = "order"]} : run' = [run EXCEPT ![r] = w]
    BY <1>3 DEF Fails, Starts
  <2>3. w \in Progress /\ (w.at \notin {"none", "over"} => w.flow \in Flows)
    BY <2>1, <2>2 DEF Progress, Over
  <2>4. RunsAreOfFlows' /\ \A q \in Runs : run[q].at = "node" => run'[q] = run[q]
    BY <1>1, <2>1, <2>2, <2>3, GoesOn
  <2>5. UNCHANGED <<view, hook, socket, ref, losses, execState, missed>>
    BY <1>3 DEF Fails, Starts, tab, store
  <2>6. QED
    BY <1>1, <2>4, <2>5, QuietSteps DEF Shapes
<1>4. CASE Elsewhere(r)
  <2>1. PICK f \in Flows : run[r].at = "none" /\ run' = [run EXCEPT ![r] = [flow |-> f, at |-> "order"]]
    BY <1>4 DEF Elsewhere, Comes
  <2>2. [flow |-> f, at |-> "order"] \in Progress
    BY DEF Progress
  <2>3. RunsAreOfFlows' /\ \A q \in Runs : run[q].at = "node" => run'[q] = run[q]
    BY <1>1, <2>1, <2>2, GoesOn
  <2>4. UNCHANGED <<view, hook, socket, ref, losses, execState, missed>>
    BY <1>4 DEF Elsewhere, tab, store
  <2>5. QED
    BY <1>1, <2>3, <2>4, QuietSteps DEF Shapes
<1>5. QED
  BY <1>2, <1>3, <1>4

LEMMA ViewsKeepIInv ==
    ASSUME IInv, NEW f \in Flows \cup {None}, Selects(f) \/ Moves(f) \/ ClearExecState \/ UNCHANGED vars
    PROVE  IInv'
<1>1. view \in Flows \cup {None} /\ RunsAreOfFlows
  BY DEF IInv, Shapes
<1>2. /\ UNCHANGED <<hook, socket, ref, run, losses>> /\ view' \in Flows \cup {None}
      /\ execState' = Clear \/ UNCHANGED <<execState, missed>>
  BY <1>1 DEF Selects, Moves, ClearExecState, vars, store
<1>3. RunsAreOfFlows'
  BY <1>1, <1>2 DEF RunsAreOfFlows
<1>4. QED
  BY <1>2, <1>3, QuietSteps
-----------------------------------------------------------------------------
(* Sockets that open, are lost, and are made anew. *)

LEMMA OpensKeepsIInv ==
    ASSUME IInv, NEW s \in Sockets, Opens(s)
    PROVE  IInv'
<1>1. Shapes /\ Wired /\ OneSocket /\ Known
  BY DEF IInv, Shapes
<1>2. /\ socket[s].state = "connecting" /\ s = ref /\ ref # None
      /\ socket' = [socket EXCEPT ![s].state = "open"]
      /\ UNCHANGED <<view, execState, hook, ref, run, losses, missed>>
  BY <1>1, RefIsNumber DEF Opens, OneSocket, store
<1>3. /\ socket'[s].state = "open" /\ socket'[s].flow = socket[s].flow /\ socket'[s].inbox = socket[s].inbox
      /\ socket'[s].timer <=> socket[s].timer
      /\ \A q \in Sockets : q # s => socket'[q] = socket[q]
      /\ socket' \in [Sockets -> Wire]
  BY <1>1, <1>2 DEF Shapes, Wire
<1>4. ~socket[s].timer /\ socket[s].inbox = <<>>
  BY <1>1, <1>2 DEF Wired
<1>5. Wired'
  BY <1>1, <1>2, <1>3, <1>4 DEF Wired
<1>6. RunsAreOfFlows'
  BY <1>1, <1>2 DEF Shapes, RunsAreOfFlows
<1>7. Shapes'
  BY <1>1, <1>2, <1>3, <1>5, <1>6 DEF Shapes
<1>8. OneSocket'
  BY <1>1, <1>2, <1>3 DEF OneSocket
<1>9. \A f \in Flows : execState'[f] # "none" => f \in missed'
  BY <1>1, <1>2 DEF Known, Hears
<1>10. Inbox' = <<>>
  BY <1>2, <1>3, <1>4 DEF Inbox
<1>11. Known' /\ EndsCome'
  BY <1>9, <1>10 DEF Known, EndsCome
<1>12. QED
  BY <1>7, <1>8, <1>11 DEF IInv

LEMMA LosesKeepsIInv ==
    ASSUME IInv, NEW s \in Sockets, Loses(s)
    PROVE  IInv'
<1>1. Shapes /\ Wired /\ OneSocket /\ Known
  BY DEF IInv, Shapes
<1>2. /\ socket' = [socket EXCEPT ![s] = Closed(socket[s])] /\ losses' = losses + 1
      /\ missed' = missed \cup ({Heard} \ {None})
      /\ UNCHANGED <<view, execState, hook, ref, run>>
  BY DEF Loses, store
<1>3. s = ref /\ ref # None
  BY <1>1, RefIsNumber DEF Loses, OneSocket
<1>4. Closed(socket[s]) \in Wire /\ Closed(socket[s]).state = "closed" /\ Closed(socket[s]).inbox = <<>>
  BY <1>1, Closing DEF Shapes
<1>5. /\ socket'[s] = Closed(socket[s])
      /\ \A q \in Sockets : q # s => socket'[q] = socket[q]
      /\ socket' \in [Sockets -> Wire]
  BY <1>1, <1>2, <1>4 DEF Shapes
<1>6. Wired'
  BY <1>1, <1>2, <1>3, <1>4, <1>5 DEF Wired
<1>7. RunsAreOfFlows'
  BY <1>1, <1>2 DEF Shapes, RunsAreOfFlows
<1>8. Shapes'
  BY <1>1, <1>2, <1>5, <1>6, <1>7 DEF Shapes
<1>9. losses' # 0
  BY <1>1, <1>2 DEF Shapes
<1>10. OneSocket'
  BY <1>1, <1>2, <1>3, <1>4, <1>5, <1>9 DEF OneSocket
<1>11. ~Hears'
  BY <1>2, <1>3, <1>4, <1>5 DEF Hears
<1>12. \A f \in Flows : execState'[f] # "none" => f \in missed'
  BY <1>1, <1>2, RefIsNumber DEF Known, Hears, Heard
<1>13. QED
  BY <1>8, <1>10, <1>11, <1>12, Deaf

LEMMA EffectKeepsIInv ==
    ASSUME IInv, Effect
    PROVE  IInv'
<1>1. Shapes /\ Wired /\ OneSocket /\ Known
  BY DEF IInv, Shapes
<1>2. /\ hook' = view /\ missed' = missed \cup ({Heard} \ {None}) /\ view \in Flows \cup {None}
      /\ UNCHANGED <<view, execState, run, losses>>
  BY <1>1 DEF Effect, store, Shapes
<1>3. \A f \in Flows : execState'[f] # "none" => f \in missed'
  BY <1>1, <1>2, RefIsNumber DEF Known, Hears, Heard
<1>4. CASE view = None
  <2>1. socket' = Unmounted /\ ref' = None
    BY <1>4 DEF Effect
  <2>2. \A s \in Sockets : socket'[s] \in {NoSocket, Spent}
    BY <2>1 DEF Unmounted
  <2>3. socket' \in [Sockets -> Wire]
    BY <2>1, NoSocketTypes DEF Unmounted
  <2>4. Wired'
    BY <1>2, <1>4, <2>1, <2>2, NoSocketTypes DEF Wired
  <2>5. RunsAreOfFlows'
    BY <1>1, <1>2 DEF Shapes, RunsAreOfFlows
  <2>6. Shapes'
    BY <1>1, <1>2, <2>1, <2>3, <2>4, <2>5 DEF Shapes
  <2>7. OneSocket' /\ ~Hears'
    BY <2>1, <2>2, NoSocketTypes DEF OneSocket, Hears
  <2>8. QED
    BY <1>3, <2>6, <2>7, Deaf
<1>5. CASE view # None
  <2>1. Connect(Cleaned, view)
    BY <1>5 DEF Effect
  <2>2. /\ Cleaned \in [Sockets -> Wire]
        /\ \A s \in Sockets : Cleaned[s].state \notin {"connecting", "open"} /\ Cleaned[s].inbox = <<>>
        /\ \A s \in Sockets : Cleaned[s].timer => Cleaned[s].state = "closed"
    <3>1. CASE ref = None
      BY <1>1, <3>1, RefIsNumber DEF Cleaned, Shapes, Wired, OneSocket
    <3>2. CASE ref # None
      <4>1. ref \in Sockets /\ socket[ref] \in Wire
        BY <1>1, <3>2 DEF Shapes
      <4>2. /\ Closed(socket[ref]) \in Wire /\ Closed(socket[ref]).state = "closed"
            /\ Closed(socket[ref]).inbox = <<>>
        BY <4>1, Closing
      <4>3. PICK w \in Wire : /\ Cleaned = [socket EXCEPT ![ref] = w]
                              /\ w.state = "closed" /\ w.inbox = <<>>
        BY <1>1, <3>2, <4>1, <4>2 DEF Cleaned, Wired
      <4>4. Cleaned \in [Sockets -> Wire] /\ Cleaned[ref] = w /\ \A s \in Sockets : s # ref => Cleaned[s] = socket[s]
        BY <1>1, <4>1, <4>3 DEF Shapes
      <4>5. QED
        BY <1>1, <4>3, <4>4 DEF Wired, OneSocket
    <3>3. QED
      BY <3>1, <3>2
  <2>3. /\ ref' \in Sockets /\ ref' # None /\ socket' \in [Sockets -> Wire]
        /\ socket'[ref'].state = "connecting" /\ socket'[ref'].flow = view
        /\ \A s \in Sockets : /\ s # ref' => socket'[s].state \notin {"connecting", "open"}
                              /\ socket'[s].inbox = <<>>
                              /\ socket'[s].timer => socket'[s].state = "closed"
    BY <1>2, <2>1, <2>2, Connecting
  <2>4. QED
    BY <1>1, <1>2, <1>3, <1>5, <2>3, Connected
<1>6. QED
  BY <1>4, <1>5

LEMMA ReconnectsKeepsIInv ==
    ASSUME IInv, NEW s \in Sockets, Reconnects(s)
    PROVE  IInv'
<1>1. Shapes /\ Wired /\ OneSocket /\ Known /\ EndsCome
  BY DEF IInv, Shapes
<1> DEFINE sockets == [socket EXCEPT ![s] = Spent]
<1>2. socket[s].timer /\ socket[s].state = "closed" /\ ref # None /\ ref \in Sockets /\ hook # None
      /\ UNCHANGED <<view, execState, hook, run, losses, missed>>
  BY <1>1 DEF Reconnects, store, Wired, Shapes
<1>3. /\ sockets \in [Sockets -> Wire] /\ sockets[s] = Spent
      /\ \A q \in Sockets : q # s => sockets[q] = socket[q]
  BY <1>1, NoSocketTypes DEF Shapes
<1> HIDE DEF sockets
<1>4. CASE socket[ref].state = "closed"
  <2>1. Connect(sockets, socket[s].flow)
    BY <1>2, <1>4 DEF Reconnects, sockets
  <2>2. /\ \A q \in Sockets : sockets[q].state \notin {"connecting", "open"} /\ sockets[q].inbox = <<>>
        /\ \A q \in Sockets : sockets[q].timer => sockets[q].state = "closed"
    BY <1>1, <1>2, <1>3, <1>4, NoSocketTypes DEF Wired, OneSocket
  <2>3. losses # 0
    BY <1>1, <1>2, <1>4 DEF OneSocket
  <2>4. PICK f \in Flows \cup {None} : f = socket[s].flow
    BY <1>1 DEF Shapes, Wire
  <2>5. /\ ref' \in Sockets /\ ref' # None /\ socket' \in [Sockets -> Wire]
        /\ socket'[ref'].state = "connecting"
        /\ \A q \in Sockets : /\ q # ref' => socket'[q].state \notin {"connecting", "open"}
                              /\ socket'[q].inbox = <<>>
                              /\ socket'[q].timer => socket'[q].state = "closed"
    BY <1>3, <2>1, <2>2, <2>4, Connecting
  <2>6. \A g \in Flows : execState'[g] # "none" => g \in missed'
    BY <1>1, <1>2, <1>4 DEF Known, Hears
  <2>7. {view', hook'} \subseteq Flows \cup {None} /\ hook' # None
    BY <1>1, <1>2 DEF Shapes
  <2>8. QED
    BY <1>1, <1>2, <2>3, <2>5, <2>6, <2>7, Connected
<1>5. CASE socket[ref].state # "closed"
  <2>1. socket' = sockets /\ ref' = ref /\ s # ref
    BY <1>2, <1>5 DEF Reconnects, sockets
  <2>2. Wired'
    BY <1>1, <1>2, <1>3, <2>1, NoSocketTypes DEF Wired
  <2>3. RunsAreOfFlows'
    BY <1>1, <1>2 DEF Shapes, RunsAreOfFlows
  <2>4. Shapes'
    BY <1>1, <1>2, <1>3, <2>1, <2>2, <2>3 DEF Shapes
  <2>5. socket'[ref'] = socket[ref] /\ ref' = ref
    BY <1>2, <1>3, <2>1
  <2>6. OneSocket'
    BY <1>1, <1>2, <1>3, <2>1, <2>5, NoSocketTypes DEF OneSocket
  <2>7. (Hears' <=> Hears) /\ Inbox' = Inbox /\ (UnderWay => UnderWay')
    BY <1>2, <2>5 DEF Hears, Inbox, UnderWay
  <2>8. Known'
    BY <1>1, <1>2, <2>5, <2>7 DEF Known
  <2>9. EndsCome'
    BY <1>1, <1>2, <2>5, <2>7 DEF EndsCome, AwaitedFrom
  <2>10. QED
    BY <2>4, <2>6, <2>8, <2>9 DEF IInv
<1>6. QED
  BY <1>4, <1>5
-----------------------------------------------------------------------------
(* A message is handled: what was first on its way is now shown. *)

\* What is left in the inbox moves up by one.
LEMMA Moved ==
    ASSUME NEW I \in Seq(Message), I # <<>>
    PROVE  /\ Tail(I) \in Seq(Message) /\ 1 \in DOMAIN I /\ Head(I) = I[1] /\ I[1] \in Message
           /\ \A k \in DOMAIN Tail(I) : k + 1 \in DOMAIN I /\ Tail(I)[k] = I[k + 1] /\ k \in Nat
           /\ \A k \in DOMAIN I : k > 1 => k - 1 \in DOMAIN Tail(I) /\ Tail(I)[k - 1] = I[k]
<1>1. Len(I) \in Nat \ {0} /\ DOMAIN I = 1..Len(I) /\ \A k \in 1..Len(I) : I[k] \in Message
  OBVIOUS
<1>2. /\ Tail(I) \in Seq(Message) /\ Len(Tail(I)) = Len(I) - 1 /\ DOMAIN Tail(I) = 1..(Len(I) - 1)
      /\ \A k \in 1..(Len(I) - 1) : Tail(I)[k] = I[k + 1]
  BY <1>1
<1>3. QED
  BY <1>1, <1>2

LEMMA HandlesKeepsIInv ==
    ASSUME IInv, NEW s \in Sockets, Handles(s)
    PROVE  IInv'
<1>1. Shapes /\ Wired /\ OneSocket /\ Known /\ EndsCome
  BY DEF IInv, Shapes
<1> DEFINE I == socket[s].inbox
           e == Head(I)
<1>2. /\ socket[s].state = "open" /\ I # <<>> /\ socket' = [socket EXCEPT ![s].inbox = Tail(@)]
      /\ execState' = Shown(e) /\ UNCHANGED <<view, hook, ref, run, losses, missed>>
  BY DEF Handles, Receive
<1>3. s = ref /\ ref # None /\ I = Inbox /\ I \in Seq(Message) /\ Hears
  BY <1>1, <1>2, RefIsNumber DEF OneSocket, Inbox, Shapes, Wire, Hears
<1>4. /\ Tail(I) \in Seq(Message) /\ 1 \in DOMAIN I /\ e = I[1] /\ e \in Message
      /\ \A k \in DOMAIN Tail(I) : k + 1 \in DOMAIN I /\ Tail(I)[k] = I[k + 1] /\ k \in Nat
      /\ \A k \in DOMAIN I : k > 1 => k - 1 \in DOMAIN Tail(I) /\ Tail(I)[k - 1] = I[k]
  BY <1>2, <1>3, Moved
<1>5. /\ socket'[s].state = socket[s].state /\ socket'[s].flow = socket[s].flow /\ socket'[s].inbox = Tail(I)
      /\ socket'[s].timer = socket[s].timer
      /\ \A q \in Sockets : q # s => socket'[q] = socket[q]
      /\ socket' \in [Sockets -> Wire]
  <2> DEFINE w == [socket[s] EXCEPT !.inbox = Tail(I)]
  <2>1. socket[s] \in Wire
    BY <1>1 DEF Shapes
  <2>2. /\ w \in Wire /\ w.state = socket[s].state /\ w.flow = socket[s].flow /\ w.inbox = Tail(I)
        /\ w.timer = socket[s].timer
    BY <1>4, <2>1 DEF Wire
  <2>3. socket' = [socket EXCEPT ![s] = w]
    BY <1>1, <1>2 DEF Shapes
  <2> HIDE DEF w
  <2>4. QED
    BY <1>1, <2>2, <2>3 DEF Shapes
<1>6. Inbox' = Tail(I) /\ Hears' /\ socket'[ref'].flow = socket[ref].flow
  BY <1>2, <1>3, <1>5 DEF Inbox, Hears
<1>7. \A i \in DOMAIN I : I[i].flow = socket[s].flow
  BY <1>1 DEF Wired
<1> HIDE DEF I, e
<1>8. e.flow = socket[s].flow /\ e.flow \in Flows
  BY <1>4, <1>7 DEF Message
<1>9. /\ execState' \in [Flows -> {"none", "running"} \cup Ends]
      /\ \A f \in Flows : f # e.flow => execState'[f] = execState[f]
      /\ e.type = "node_start" => execState'[e.flow] = "running"
      /\ e.type \in Ends => execState'[e.flow] = e.type
      /\ e.type \notin Ends \cup {"node_start"} => execState' = execState
  BY <1>1, <1>2, <1>8 DEF Shapes, Shown, Ends
<1>10. Wired'
  <2>1. \A k \in DOMAIN Tail(I) : Tail(I)[k].flow = socket'[s].flow
    BY <1>4, <1>5, <1>7
  <2>2. QED
    BY <1>1, <1>2, <1>5, <2>1 DEF Wired
<1>11. RunsAreOfFlows'
  BY <1>1, <1>2 DEF Shapes, RunsAreOfFlows
<1>12. Shapes'
  BY <1>1, <1>2, <1>5, <1>9, <1>10, <1>11 DEF Shapes
<1>13. OneSocket'
  BY <1>1, <1>2, <1>5 DEF OneSocket
<1>14. Known'
  BY <1>1, <1>2, <1>3, <1>6, <1>8, <1>9 DEF Known
<1>15. EndsCome'
  <2>1. UnderWay => UnderWay'
    BY <1>2, <1>6 DEF UnderWay
  <2>2. /\ \A i \in DOMAIN I : I[i].type = "node_start" /\ AwaitedFrom(i) => UnderWay
        /\ \A f \in Flows : f = socket[ref].flow /\ execState[f] = "running" /\ f \notin missed /\ AwaitedFrom(0)
                              => UnderWay
    BY <1>1, <1>3 DEF EndsCome
  <2>3. ASSUME NEW i \in DOMAIN Tail(I), AwaitedFrom(i)' PROVE AwaitedFrom(i + 1)
    <3>1. ASSUME NEW j \in DOMAIN I, j > i + 1 PROVE I[j].type \notin Ends
      <4>1. i \in Nat /\ j \in Nat
        BY <1>3, <1>4
      <4>2. j - 1 \in DOMAIN Tail(I) /\ Tail(I)[j - 1] = I[j] /\ j - 1 > i
        BY <1>4, <3>1, <4>1
      <4>3. QED
        BY <1>6, <2>3, <4>2 DEF AwaitedFrom
    <3>2. QED
      BY <1>3, <3>1 DEF AwaitedFrom
  <2>4. ASSUME AwaitedFrom(0)' PROVE AwaitedFrom(1)
    <3>1. ASSUME NEW j \in DOMAIN I, j > 1 PROVE I[j].type \notin Ends
      <4>1. j \in Nat
        BY <1>3
      <4>2. j - 1 \in DOMAIN Tail(I) /\ Tail(I)[j - 1] = I[j] /\ j - 1 > 0
        BY <1>4, <3>1, <4>1
      <4>3. QED
        BY <1>6, <2>4, <4>2 DEF AwaitedFrom
    <3>2. QED
      BY <1>3, <3>1 DEF AwaitedFrom
  <2>5. ASSUME NEW f \in Flows, f = socket[ref].flow, execState'[f] = "running", f \notin missed, AwaitedFrom(0)'
        PROVE  UnderWay
    <3>1. CASE e.type = "node_start"
      BY <1>4, <2>2, <2>4, <2>5, <3>1
    <3>2. CASE e.type \in Ends
      BY <1>3, <1>8, <1>9, <2>5, <3>2 DEF Ends
    <3>3. CASE e.type \notin Ends \cup {"node_start"}
      <4>1. execState[f] = "running"
        BY <1>9, <2>5, <3>3
      <4>2. AwaitedFrom(0)
        <5>1. \A j \in DOMAIN I : j > 0 => j = 1 \/ j > 1
          BY <1>3
        <5>2. QED
          BY <1>3, <1>4, <2>4, <2>5, <3>3, <5>1 DEF AwaitedFrom
      <4>3. QED
        BY <2>2, <2>5, <4>1, <4>2
    <3>4. QED
      BY <3>1, <3>2, <3>3
  <2>6. ASSUME NEW i \in DOMAIN Tail(I), Tail(I)[i].type = "node_start", AwaitedFrom(i)' PROVE UnderWay
    <3>1. i + 1 \in DOMAIN I /\ I[i + 1].type = "node_start" /\ AwaitedFrom(i + 1)
      BY <1>4, <2>3, <2>6
    <3>2. QED
      BY <2>2, <3>1
  <2>7. QED
    BY <1>2, <1>6, <2>1, <2>5, <2>6 DEF EndsCome
<1>16. QED
  BY <1>12, <1>13, <1>14, <1>15 DEF IInv
-----------------------------------------------------------------------------
(* A run sends an event. *)

\* broadcast reaches the sockets of the flow that are open.
LEMMA ToldTypes ==
    ASSUME Shapes, NEW f \in Flows, NEW type \in Types, NEW s \in Sockets
    PROVE  /\ Told(f, type)[s] \in Wire
           /\ Told(f, type)[s].state = socket[s].state /\ Told(f, type)[s].flow = socket[s].flow
           /\ Told(f, type)[s].timer = socket[s].timer
           /\ socket[s].flow = f /\ socket[s].state = "open"
                => Told(f, type)[s].inbox = Append(socket[s].inbox, [flow |-> f, type |-> type])
           /\ ~(socket[s].flow = f /\ socket[s].state = "open") => Told(f, type)[s].inbox = socket[s].inbox
<1> DEFINE m == [flow |-> f, type |-> type]
           w == [socket[s] EXCEPT !.inbox = Append(socket[s].inbox, m)]
<1>1. socket[s] \in Wire /\ socket[s].inbox \in Seq(Message) /\ m \in Message
  BY DEF Shapes, Wire, Message, Types
<1>2. Append(socket[s].inbox, m) \in Seq(Message)
  BY <1>1
<1>3. /\ w \in Wire /\ w.state = socket[s].state /\ w.flow = socket[s].flow /\ w.timer = socket[s].timer
      /\ w.inbox = Append(socket[s].inbox, m)
  BY <1>1, <1>2 DEF Wire
<1>4. Told(f, type)[s] = IF socket[s].flow = f /\ socket[s].state = "open" THEN w ELSE socket[s]
  BY DEF Told
<1> HIDE DEF w
<1>5. QED
  BY <1>1, <1>3, <1>4

LEMMA SendingKeepsIInv ==
    ASSUME IInv, NEW r \in Runs, NEW f \in Flows, f = run[r].flow, NEW type \in Types, NEW w \in Progress,
           w.at \notin {"none", "over"} => w.flow \in Flows,
           socket' = Told(f, type), run' = [run EXCEPT ![r] = w],
           UNCHANGED <<view, execState, hook, ref, losses, missed>>,
           type = "node_start" => w.at = "node" /\ w.flow = f,
           run[r].at = "node" => type \in Ends
    PROVE  IInv'
<1>1. Shapes /\ Wired /\ RunsAreOfFlows /\ OneSocket /\ Known /\ EndsCome
  BY DEF IInv, Shapes
<1> DEFINE m == [flow |-> f, type |-> type]
<1>2. m.flow = f /\ m.type = type
  OBVIOUS
<1>3. \A s \in Sockets :
         /\ socket'[s] \in Wire
         /\ socket'[s].state = socket[s].state /\ socket'[s].flow = socket[s].flow
         /\ socket'[s].timer = socket[s].timer
         /\ socket[s].flow = f /\ socket[s].state = "open" => socket'[s].inbox = Append(socket[s].inbox, m)
         /\ ~(socket[s].flow = f /\ socket[s].state = "open") => socket'[s].inbox = socket[s].inbox
  BY <1>1, ToldTypes
<1>4. socket' \in [Sockets -> Wire]
  BY <1>3 DEF Told
<1>5. /\ run' \in [Runs -> Progress] /\ run'[r] = w
      /\ \A q \in Runs : q # r => run'[q] = run[q]
  BY <1>1 DEF RunsAreOfFlows
<1> HIDE DEF m
<1>6. Wired'
  <2>1. \A s \in Sockets : /\ socket'[s].state # "open" => socket'[s].inbox = <<>>
                           /\ socket'[s].timer => socket'[s].state = "closed" /\ ref' # None
    BY <1>1, <1>3 DEF Wired
  <2>2. ASSUME NEW s \in Sockets, NEW i \in DOMAIN socket'[s].inbox
        PROVE  socket'[s].inbox[i].flow = socket'[s].flow
    <3>1. CASE socket[s].flow = f /\ socket[s].state = "open"
      <4>1. socket[s].inbox \in Seq(Message)
        BY <1>1 DEF Shapes, Wire
      <4>2. socket'[s].inbox[i] = m \/ (i \in DOMAIN socket[s].inbox /\ socket'[s].inbox[i] = socket[s].inbox[i])
        <5> DEFINE I == socket[s].inbox
        <5>1. socket'[s].inbox = Append(I, m) /\ I \in Seq(Message)
          BY <1>3, <3>1, <4>1
        <5> HIDE DEF I
        <5>2. \A k \in DOMAIN Append(I, m) : Append(I, m)[k] = m \/ (k \in DOMAIN I /\ Append(I, m)[k] = I[k])
          BY <5>1
        <5>3. QED
          BY <2>2, <5>1, <5>2 DEF I
      <4>3. QED
        BY <1>1, <1>2, <1>3, <3>1, <4>2 DEF Wired
    <3>2. CASE ~(socket[s].flow = f /\ socket[s].state = "open")
      BY <1>1, <1>3, <2>2, <3>2 DEF Wired
    <3>3. QED
      BY <3>1, <3>2
  <2>3. QED
    BY <1>1, <2>1, <2>2 DEF Wired
<1>7. RunsAreOfFlows'
  BY <1>1, <1>5 DEF RunsAreOfFlows
<1>8. Shapes'
  BY <1>1, <1>4, <1>6, <1>7 DEF Shapes
<1>9. OneSocket'
  BY <1>1, <1>3 DEF OneSocket, Shapes
<1>10. Hears => ref \in Sockets /\ ref # None
  BY <1>1 DEF Hears, Shapes
<1>11. ref = None \/ ref \in Sockets
  BY <1>1 DEF Shapes
<1>12. Hears' <=> Hears
  BY <1>3, <1>11 DEF Hears
<1>13. Known'
  BY <1>1, <1>3, <1>10, <1>12 DEF Known
<1>14. ASSUME Hears PROVE EndsCome'
  <2>1. ref \in Sockets /\ ref' = ref /\ socket'[ref].flow = socket[ref].flow
    BY <1>3, <1>10, <1>14
  <2>2. /\ \A i \in DOMAIN Inbox : Inbox[i].type = "node_start" /\ AwaitedFrom(i) => UnderWay
        /\ \A g \in Flows : g = socket[ref].flow /\ execState[g] = "running" /\ g \notin missed /\ AwaitedFrom(0)
                              => UnderWay
    BY <1>1, <1>14 DEF EndsCome
  <2>3. ASSUME run[r].at # "node" \/ f # socket[ref].flow PROVE UnderWay => UnderWay'
    <3>1. \A q \in Runs : run[q].at = "node" /\ run[q].flow = socket[ref].flow => q # r
      BY <2>3
    <3>2. QED
      BY <1>5, <2>1, <3>1 DEF UnderWay
  <2>4. CASE f = socket[ref].flow
    <3>1. Inbox' = Append(Inbox, m) /\ Inbox \in Seq(Message)
      BY <1>1, <1>3, <1>10, <1>14, <2>1, <2>4 DEF Inbox, Shapes, Wire, Hears
    <3>2. /\ DOMAIN Inbox' = DOMAIN Inbox \cup {Len(Inbox) + 1} /\ Len(Inbox) \in Nat
          /\ DOMAIN Inbox = 1..Len(Inbox)
          /\ \A k \in DOMAIN Inbox : Inbox'[k] = Inbox[k]
          /\ Inbox'[Len(Inbox) + 1] = m
      BY <3>1
    <3>3. CASE type \in Ends
      <4>1. \A k \in 0..Len(Inbox) : ~AwaitedFrom(k)'
        BY <1>2, <3>2, <3>3 DEF AwaitedFrom
      <4>2. \A k \in DOMAIN Inbox' : Inbox'[k].type = "node_start" => k \in 0..Len(Inbox)
        BY <1>2, <3>2, <3>3 DEF Ends
      <4>3. 0 \in 0..Len(Inbox)
        BY <3>2
      <4>4. QED
        BY <4>1, <4>2, <4>3 DEF EndsCome
    <3>4. CASE type = "node_start"
      <4>1. UnderWay'
        BY <1>5, <2>1, <2>4, <3>4 DEF UnderWay
      <4>2. QED
        BY <4>1 DEF EndsCome
    <3>5. CASE type \notin Ends \cup {"node_start"}
      <4>1. UnderWay => UnderWay'
        BY <2>3, <3>5
      <4>2. \A k : AwaitedFrom(k)' => AwaitedFrom(k)
        BY <3>2 DEF AwaitedFrom
      <4>3. \A k \in DOMAIN Inbox' : Inbox'[k].type = "node_start" => k \in DOMAIN Inbox /\ Inbox[k].type = "node_start"
        BY <1>2, <3>2, <3>5
      <4>4. QED
        BY <2>1, <2>2, <4>1, <4>2, <4>3 DEF EndsCome
    <3>6. QED
      BY <3>3, <3>4, <3>5
  <2>5. CASE f # socket[ref].flow
    <3>1. Inbox' = Inbox
      BY <1>3, <1>10, <1>14, <2>1, <2>5 DEF Inbox
    <3>2. QED
      BY <2>1, <2>2, <2>3, <2>5, <3>1 DEF EndsCome, AwaitedFrom
  <2>6. QED
    BY <2>4, <2>5
<1>15. ~Hears => EndsCome'
  BY <1>12 DEF EndsCome
<1>16. QED
  BY <1>8, <1>9, <1>13, <1>14, <1>15 DEF IInv

LEMMA StepKeepsIInv ==
    ASSUME IInv, NEW r \in Runs, Step(r)
    PROVE  IInv'
<1>1. Shapes /\ RunsAreOfFlows
  BY DEF IInv, Shapes
<1> DEFINE f == run[r].flow
<1>2. f \in Flows /\ run[r].at \in {"order", "node", "complete"}
  BY <1>1 DEF Step, RunsAreOfFlows
<1>3. UNCHANGED <<view, execState, hook, ref, losses, missed>>
  BY DEF Step, store
<1>4. /\ Over \in Progress /\ Over.at = "over"
      /\ \A pc \in {"node", "complete"} : /\ [flow |-> f, at |-> pc] \in Progress
                                          /\ [flow |-> f, at |-> pc].at = pc /\ [flow |-> f, at |-> pc].flow = f
  BY <1>2 DEF Progress, Over
<1>5. CASE run[r].at = "order" /\ run' = [run EXCEPT ![r] = Over] /\ UNCHANGED socket
  <2>1. RunsAreOfFlows' /\ \A q \in Runs : run[q].at = "node" => run'[q] = run[q]
    BY <1>1, <1>4, <1>5, GoesOn
  <2>2. QED
    BY <1>1, <1>3, <1>5, <2>1, QuietSteps DEF Shapes
<1>6. CASE run[r].at \in {"order", "complete"} /\ run' = [run EXCEPT ![r] = Over]
             /\ \E type \in {"flow_error", "flow_complete"} : socket' = Told(f, type)
  BY <1>2, <1>3, <1>4, <1>6, SendingKeepsIInv DEF Types, Ends
<1>7. CASE run[r].at = "order" /\ run' = [run EXCEPT ![r] = [flow |-> f, at |-> "node"]]
             /\ socket' = Told(f, "node_start")
  BY <1>2, <1>3, <1>4, <1>7, SendingKeepsIInv DEF Types, Ends
<1>8. CASE run[r].at = "node" /\ run' = [run EXCEPT ![r] = [flow |-> f, at |-> "complete"]]
             /\ \E type \in Ends : socket' = Told(f, type)
  BY <1>2, <1>3, <1>4, <1>8, SendingKeepsIInv DEF Types, Ends
<1>9. QED
  BY <1>5, <1>6, <1>7, <1>8 DEF Step, Ends

LEMMA NextKeepsIInv ==
    ASSUME IInv, [Next]_vars
    PROVE  IInv'
<1>1. CASE Works
  BY <1>1, OpensKeepsIInv, HandlesKeepsIInv, ReconnectsKeepsIInv, EffectKeepsIInv, RequestsKeepIInv,
     StepKeepsIInv DEF Works
<1>2. CASE \E s \in Sockets : Loses(s)
  BY <1>2, LosesKeepsIInv
<1>3. CASE \E f \in Flows \cup {None} : Selects(f) \/ Moves(f)
  BY <1>3, ViewsKeepIInv
<1>4. CASE \E r \in Runs : Posts(r) \/ Elsewhere(r)
  BY <1>4, RequestsKeepIInv
<1>5. CASE ClearExecState \/ UNCHANGED vars
  BY <1>5, ViewsKeepIInv
<1>6. QED
  BY <1>1, <1>2, <1>3, <1>4, <1>5 DEF Next, Rest

\* What the invariant says of the tab.
LEMMA IInvShows == IInv => TabFollowsItsFlow
<1> SUFFICES ASSUME IInv PROVE NoSpinner
  BY DEF IInv, TabFollowsItsFlow
<1>1. Shapes /\ Known /\ EndsCome
  BY DEF IInv
<1>2. \A f \in Flows : execState[f] # "none" => f \in missed \cup {Heard}
  BY <1>1 DEF Known, Hears, Heard
<1>3. ASSUME \A r \in Runs : run[r].at \in {"none", "over"}, \A s \in Sockets : socket[s].inbox = <<>>,
             NEW f \in Flows, execState[f] = "running", f \notin missed
      PROVE  FALSE
  <2>1. ~UnderWay
    BY <1>3 DEF UnderWay
  <2>2. Hears /\ f = socket[ref].flow
    BY <1>1, <1>3 DEF Known
  <2>3. Inbox = <<>>
    BY <1>1, <1>3, <2>2 DEF Inbox, Shapes, Hears
  <2>4. AwaitedFrom(0)
    BY <2>3 DEF AwaitedFrom
  <2>5. QED
    BY <1>1, <1>3, <2>1, <2>2, <2>4 DEF EndsCome
<1>4. QED
  BY <1>2, <1>3 DEF NoSpinner

-----------------------------------------------------------------------------
(* DesktopShell: the shell, the backends it starts, and the key they share. *)

BackendAt == {"none", "start", "generate", "created", "boot", "serving", "leaving", "dead"}
ShellAt ==
    [pc : {"off", "up", "closing"}, child : BOOLEAN, stopping : BOOLEAN, stops : {"nobody", "main", "update"},
     line : BOOLEAN, ready : BOOLEAN, garbled : BOOLEAN, held : BOOLEAN,
     reader : {"reading", "navigate", "died", "waits", "done"}, timer : {"on", "off", "show"},
     page : {"loading", "app", "error and log", "not in time"}, dialog : BOOLEAN,
     update : {"check", "stop", "install", "failed", "restart"}]

DesktopShapes ==
    /\ n \in 0..MaxSessions /\ shell \in ShellAt
    /\ backend \in [Desktop!Sessions -> BackendAt] /\ eof \in [Desktop!Sessions -> BOOLEAN]
    /\ how \in [Desktop!Sessions -> {"none", "left", "crash", "killed"}]
    /\ shell.pc # "off" => n > 0
    /\ \A s \in Desktop!Sessions : /\ how[s] # "none" <=> backend[s] = "dead"
                                   /\ backend[s] # "none" <=> s <= n
                                   /\ eof[s] => s <= n

\* What is reported as a crash was one, or the end of what the shell could decode.
Reported(x) == x.reader \in {"died", "waits"} \/ x.dialog
CrashedIfTold == Reported(shell) => n > 0 /\ (how[n] = "crash" \/ shell.garbled)

\* A backend whose shell is there leaves, or is killed, only after it was told to stop, by
\* stop_backend or by the wait for a backend that was taken for dead; a shell that has given its
\* child away, and is not stopping it any more, has seen its end.
StopsFirst ==
    /\ shell.stops # "nobody" => shell.stopping /\ ~shell.child
    /\ shell.pc # "off" =>
         /\ eof[n] => shell.stopping \/ shell.garbled
         /\ backend[n] = "leaving" => eof[n]
         /\ how[n] \in {"left", "killed"} => shell.stopping \/ shell.garbled
         /\ ~shell.child /\ shell.stops = "nobody" => backend[n] = "dead"

\* Every key that was generated is what the file holds; the one backend that has created the file,
\* and has not written to it, finds it as it left it.
KeyInv ==
    /\ file \in {None, EmptyKey} \cup Desktop!Sessions
    /\ key \in [Desktop!Sessions -> {None, EmptyKey} \cup Desktop!Sessions]
    /\ Desktop!SameKey
    /\ \A s \in Desktop!Sessions : backend[s] = "created" => file = EmptyKey
    /\ \A s, t \in Desktop!Sessions : backend[s] = "created" /\ backend[t] = "created" => s = t

DesktopInv == DesktopShapes /\ CrashedIfTold /\ StopsFirst /\ KeyInv

\* A shell that is not there reports nothing and stops nothing.
LEMMA NoShellTypes ==
    /\ Desktop!NoShell \in ShellAt /\ Desktop!NoShell.pc = "off" /\ Desktop!NoShell.stops = "nobody"
    /\ ~Reported(Desktop!NoShell)
    /\ Desktop!NewShell \in ShellAt /\ Desktop!NewShell.pc = "up" /\ Desktop!NewShell.stops = "nobody"
    /\ Desktop!NewShell.child /\ ~Reported(Desktop!NewShell)
  BY DEF Desktop!NoShell, Desktop!NewShell, ShellAt, Reported

LEMMA NobodyThere ==
    ASSUME shell' = Desktop!NoShell
    PROVE  CrashedIfTold' /\ StopsFirst' /\ shell'.pc = "off" /\ shell' \in ShellAt
<1>1. shell'.pc = "off" /\ shell'.stops = "nobody" /\ ~Reported(shell') /\ shell' \in ShellAt
  BY NoShellTypes
<1>2. QED
  BY <1>1 DEF CrashedIfTold, StopsFirst

LEMMA InitDesktopInv == ASSUME Desktop!Init PROVE DesktopInv
<1>1. /\ file = None /\ n = 0
      /\ backend = [s \in Desktop!Sessions |-> "none"] /\ eof = [s \in Desktop!Sessions |-> FALSE]
      /\ key = [s \in Desktop!Sessions |-> None] /\ how = [s \in Desktop!Sessions |-> "none"]
      /\ shell = Desktop!NoShell
  BY DEF Desktop!Init
<1>2. /\ shell \in ShellAt /\ shell.pc = "off" /\ ~Reported(shell) /\ shell.stops = "nobody"
  BY <1>1, NoShellTypes
<1>3. MaxSessions \in Nat /\ \A s \in Desktop!Sessions : s \in Nat /\ s > 0
  BY ClientsAssumption DEF ClientsAssumption, Desktop!DesktopAssumption, Desktop!Sessions
<1>4. DesktopShapes
  BY <1>1, <1>2, <1>3 DEF DesktopShapes, BackendAt
<1>5. CrashedIfTold /\ StopsFirst
  BY <1>2 DEF CrashedIfTold, StopsFirst
<1>6. KeyInv
  BY <1>1 DEF KeyInv, Desktop!SameKey
<1>7. QED
  BY <1>4, <1>5, <1>6 DEF DesktopInv

\* A backend that is not about to write the key stays out of its way.
LEMMA KeyStays ==
    ASSUME KeyInv, UNCHANGED <<file, key>>,
           \A s \in Desktop!Sessions : backend'[s] = "created" => backend[s] = "created"
    PROVE  KeyInv'
  BY DEF KeyInv, Desktop!SameKey

\* A thread of the shell, or the user, does something that leaves the backends alone.
LEMMA ShellGoesOn ==
    ASSUME DesktopInv, shell.pc # "off", NEW x \in ShellAt, shell' = x,
           UNCHANGED <<file, n, backend, eof, key, how>>,
           Reported(x) => Reported(shell) \/ how[n] = "crash" \/ x.garbled, shell.garbled => x.garbled,
           x.child = shell.child, x.stopping = shell.stopping,
           x.stops = shell.stops \/ (x.stops = "nobody" /\ backend[n] = "dead")
    PROVE  DesktopInv'
<1>1. DesktopShapes /\ CrashedIfTold /\ StopsFirst /\ KeyInv
  BY DEF DesktopInv
<1>2. DesktopShapes'
  BY <1>1 DEF DesktopShapes
<1>3. CrashedIfTold'
  BY <1>1 DEF DesktopShapes, CrashedIfTold
<1>4. StopsFirst'
  BY <1>1 DEF StopsFirst
<1>5. KeyInv'
  BY <1>1, KeyStays
<1>6. QED
  BY <1>2, <1>3, <1>4, <1>5 DEF DesktopInv

\* What is known of the session of a shell that is there.
LEMMA Current ==
    ASSUME DesktopInv, shell.pc # "off"
    PROVE  n \in Desktop!Sessions /\ n \in Nat /\ backend[n] # "none" /\ shell \in ShellAt
  BY ClientsAssumption
     DEF DesktopInv, DesktopShapes, Desktop!Sessions, ClientsAssumption, Desktop!DesktopAssumption

LEMMA ThreadsKeepDesktopInv ==
    ASSUME DesktopInv, shell.pc # "off", Desktop!Threads \/ Desktop!Closing, ~Desktop!BackendDied
    PROVE  DesktopInv'
<1>1. shell \in ShellAt /\ n \in Desktop!Sessions
  BY Current
<1>2. UNCHANGED <<file, n, backend, eof, key, how>>
  BY DEF Desktop!Threads, Desktop!ReadReady, Desktop!Navigate, Desktop!EndOfOutput,
         Desktop!TimerLooks, Desktop!TimesOut, Desktop!Closing, Desktop!Quiet, Desktop!backends
<1>3. Desktop!Shown("error and log") \in {"app", "error and log"} /\ Desktop!Shown("not in time") \in {"app", "not in time"}
  BY DEF Desktop!Shown
<1>4. SUFFICES /\ shell' \in ShellAt /\ shell'.child = shell.child /\ shell'.stopping = shell.stopping
               /\ shell'.stops = shell.stops /\ shell'.garbled = shell.garbled
               /\ Reported(shell') => Reported(shell) \/ how[n] = "crash" \/ shell'.garbled
  BY <1>2, <1>4, ShellGoesOn
<1>5. CASE Desktop!ReadReady
  <2>1. shell' = [shell EXCEPT !.line = FALSE, !.ready = TRUE, !.reader = "navigate"]
    BY <1>5 DEF Desktop!ReadReady, Desktop!Sets
  <2>2. QED
    BY <1>1, <2>1 DEF ShellAt, Reported
<1>6. CASE Desktop!Navigate
  <2>1. shell' = [shell EXCEPT !.page = "app", !.reader = "reading"]
    BY <1>6 DEF Desktop!Navigate, Desktop!Sets
  <2>2. QED
    BY <1>1, <2>1 DEF ShellAt, Reported
<1>7. CASE Desktop!EndOfOutput
  <2>1. shell.garbled \/ backend[n] = "dead"
    BY <1>7 DEF Desktop!EndOfOutput, Desktop!NoMoreLines
  <2>2. CASE shell' = [shell EXCEPT !.page = Desktop!Shown("error and log"), !.reader = "done"]
    <3> DEFINE p == Desktop!Shown("error and log")
    <3>1. shell' = [shell EXCEPT !.page = p, !.reader = "done"] /\ p \in {"app", "error and log"}
      BY <1>3, <2>2
    <3> HIDE DEF p
    <3>2. QED
      BY <1>1, <3>1 DEF ShellAt, Reported
  <2>3. CASE shell' = [shell EXCEPT !.reader = "done"]
    BY <1>1, <2>3 DEF ShellAt, Reported
  <2>4. CASE ~shell.stopping /\ shell' = [shell EXCEPT !.reader = "died"]
    <3>1. how[n] = "crash" \/ shell.garbled
      BY <1>1, <2>1, <2>4 DEF DesktopInv, DesktopShapes, StopsFirst
    <3>2. QED
      BY <1>1, <2>4, <3>1 DEF ShellAt
  <2>5. QED
    BY <1>7, <2>2, <2>3, <2>4 DEF Desktop!EndOfOutput, Desktop!Sets
<1>8. CASE Desktop!TimerLooks
  <2>1. shell' = [shell EXCEPT !.timer = "show"]
    BY <1>8 DEF Desktop!TimerLooks, Desktop!Sets
  <2>2. QED
    BY <1>1, <2>1 DEF ShellAt, Reported
<1>9. CASE Desktop!TimesOut
  <2> DEFINE p == Desktop!Shown("not in time")
  <2>1. shell' = [shell EXCEPT !.page = p, !.timer = "off"] /\ p \in {"app", "not in time"}
    BY <1>3, <1>9 DEF Desktop!TimesOut, Desktop!Sets
  <2> HIDE DEF p
  <2>2. QED
    BY <1>1, <2>1 DEF ShellAt, Reported
<1>10. CASE Desktop!Closing
  <2>1. shell' = [shell EXCEPT !.pc = "closing"]
    BY <1>10 DEF Desktop!Closing, Desktop!Sets
  <2>2. QED
    BY <1>1, <2>1 DEF ShellAt, Reported
<1>11. QED
  BY <1>5, <1>6, <1>7, <1>8, <1>9, <1>10 DEF Desktop!Threads

\* backend_died: a backend that it ends was not decoded any more.
LEMMA BackendDiedKeepsDesktopInv ==
    ASSUME DesktopInv, shell.pc # "off", Desktop!BackendDied
    PROVE  DesktopInv'
<1>1. shell \in ShellAt /\ n \in Desktop!Sessions /\ n \in Nat /\ Reported(shell)
  BY Current DEF Desktop!BackendDied, Reported
<1>2. CASE /\ shell' = [shell EXCEPT !.reader = "waits"] /\ eof' = [eof EXCEPT ![n] = TRUE]
           /\ backend[n] # "dead" /\ UNCHANGED <<file, n, backend, key, how>>
  <2>1. /\ shell' \in ShellAt /\ shell'.pc = shell.pc /\ shell'.garbled = shell.garbled /\ shell'.child = shell.child
        /\ shell'.stopping = shell.stopping /\ shell'.stops = shell.stops
    BY <1>1, <1>2 DEF ShellAt
  <2>2. eof' \in [Desktop!Sessions -> BOOLEAN] /\ \A s \in Desktop!Sessions \ {n} : eof'[s] = eof[s]
    BY <1>1, <1>2 DEF DesktopInv, DesktopShapes
  <2>3. DesktopShapes'
    BY <1>1, <1>2, <2>1, <2>2 DEF DesktopInv, DesktopShapes
  <2>4. CrashedIfTold' /\ shell.garbled
    BY <1>1, <1>2, <2>1 DEF DesktopInv, DesktopShapes, CrashedIfTold
  <2>5. eof'[n]
    BY <1>1, <1>2 DEF DesktopInv, DesktopShapes
  <2>6. StopsFirst'
    BY <1>2, <2>1, <2>4, <2>5 DEF DesktopInv, StopsFirst
  <2>7. KeyInv'
    BY <1>2, KeyStays DEF DesktopInv
  <2>8. QED
    BY <2>3, <2>4, <2>6, <2>7 DEF DesktopInv
<1>3. CASE shell' = [shell EXCEPT !.dialog = TRUE, !.reader = "done"] /\ UNCHANGED <<file, n, backend, eof, key, how>>
  <2>1. /\ shell' \in ShellAt /\ shell'.garbled = shell.garbled /\ shell'.child = shell.child
        /\ shell'.stopping = shell.stopping /\ shell'.stops = shell.stops
    BY <1>1, <1>3 DEF ShellAt
  <2>2. QED
    BY <1>1, <1>3, <2>1, ShellGoesOn
<1>4. QED
  BY <1>2, <1>3 DEF Desktop!BackendDied, Desktop!Sets, Desktop!Quiet, Desktop!backends

\* stop_backend, by the main thread or for an update.
LEMMA TakeKeepsDesktopInv ==
    ASSUME DesktopInv, shell.pc # "off", NEW who \in {"main", "update"}, Desktop!Take(who)
    PROVE  DesktopInv'
<1>1. shell \in ShellAt /\ n \in Desktop!Sessions /\ n \in Nat
  BY Current
<1>2. /\ shell' = [shell EXCEPT !.stopping = TRUE, !.child = FALSE, !.stops = who]
      /\ eof' = [eof EXCEPT ![n] = TRUE] /\ UNCHANGED <<file, n, backend, key, how>>
  BY DEF Desktop!Take, Desktop!Sets
<1>3. /\ shell' \in ShellAt /\ shell'.stopping /\ ~shell'.child /\ shell'.stops = who /\ shell'.pc = shell.pc
      /\ shell'.garbled = shell.garbled /\ (Reported(shell') <=> Reported(shell))
  BY <1>1, <1>2 DEF ShellAt, Reported
<1>4. eof' \in [Desktop!Sessions -> BOOLEAN] /\ eof'[n] /\ \A s \in Desktop!Sessions \ {n} : eof'[s] = eof[s]
  BY <1>1, <1>2 DEF DesktopInv, DesktopShapes
<1>5. DesktopShapes'
  BY <1>1, <1>2, <1>3, <1>4 DEF DesktopInv, DesktopShapes
<1>6. CrashedIfTold' /\ StopsFirst'
  BY <1>2, <1>3, <1>4 DEF DesktopInv, CrashedIfTold, StopsFirst
<1>7. KeyInv'
  BY <1>2, KeyStays DEF DesktopInv
<1>8. QED
  BY <1>5, <1>6, <1>7 DEF DesktopInv

\* RunEvent::Exit with nothing left to stop.
LEMMA GoneKeepsDesktopInv ==
    ASSUME DesktopInv, shell' = Desktop!NoShell, UNCHANGED <<file, n, backend, eof, key, how>>
    PROVE  DesktopInv'
<1>1. CrashedIfTold' /\ StopsFirst' /\ shell'.pc = "off" /\ shell' \in ShellAt
  BY NobodyThere
<1>2. DesktopShapes' /\ KeyInv'
  BY <1>1, KeyStays DEF DesktopInv, DesktopShapes
<1>3. QED
  BY <1>1, <1>2 DEF DesktopInv

\* A caller that returns: the main thread ends the shell, the update goes on.
LEMMA ReturnedTypes ==
    ASSUME DesktopInv, shell.pc # "off"
    PROVE  LET x == Desktop!Returned("update")
           IN  /\ x \in ShellAt /\ x.stopping = shell.stopping /\ x.child = shell.child /\ x.stops = "nobody"
               /\ x.garbled = shell.garbled /\ (Reported(x) <=> Reported(shell)) /\ x.pc = shell.pc
<1>1. shell \in ShellAt
  BY Current
<1> DEFINE y == [shell EXCEPT !.update = "install", !.stops = "nobody"]
<1>2. Desktop!Returned("update") = y
  BY DEF Desktop!Returned
<1> DEFINE z == [shell EXCEPT !.update = "install"]
<1>a. z \in ShellAt /\ z.garbled = shell.garbled /\ z.reader = shell.reader /\ z.dialog = shell.dialog
  BY <1>1 DEF ShellAt
<1>b. z.stopping = shell.stopping /\ z.child = shell.child /\ z.pc = shell.pc
  BY <1>1 DEF ShellAt
<1>c. y = [z EXCEPT !.stops = "nobody"]
  OBVIOUS
<1> HIDE DEF y, z
<1>d. y \in ShellAt /\ y.garbled = z.garbled /\ y.reader = z.reader /\ y.dialog = z.dialog
  BY <1>a, <1>c DEF ShellAt
<1>e. y.stopping = z.stopping /\ y.child = z.child /\ y.pc = z.pc /\ y.stops = "nobody"
  BY <1>a, <1>c DEF ShellAt
<1>4. QED
  BY <1>2, <1>a, <1>b, <1>d, <1>e DEF Reported

LEMMA WaitedKeepsDesktopInv ==
    ASSUME DesktopInv, shell.pc # "off", NEW who \in {"main", "update"}, Desktop!Waited(who)
    PROVE  DesktopInv'
<1>1. shell' = Desktop!Returned(who) /\ backend[n] = "dead" /\ UNCHANGED <<file, n, backend, eof, key, how>>
  BY DEF Desktop!Waited, Desktop!Sets, Desktop!Quiet, Desktop!backends
<1>2. CASE who = "main"
  BY <1>1, <1>2, GoneKeepsDesktopInv DEF Desktop!Returned
<1>3. CASE who = "update"
  <2> DEFINE x == Desktop!Returned("update")
  <2>1. /\ shell' = x /\ x \in ShellAt /\ x.stopping = shell.stopping /\ x.child = shell.child /\ x.stops = "nobody"
        /\ x.garbled = shell.garbled /\ (Reported(x) <=> Reported(shell))
    BY <1>1, <1>3, ReturnedTypes
  <2> HIDE DEF x
  <2>2. QED
    BY <1>1, <2>1, ShellGoesOn
<1>4. QED
  BY <1>2, <1>3

\* The end of a backend.
LEMMA EndsKeeps ==
    ASSUME DesktopInv, NEW s \in Desktop!Sessions, NEW why \in {"left", "crash", "killed"},
           Desktop!Ends(s, why), backend[s] \notin {"none", "dead"}
    PROVE  /\ backend' \in [Desktop!Sessions -> BackendAt]
           /\ how' \in [Desktop!Sessions -> {"none", "left", "crash", "killed"}]
           /\ backend'[s] = "dead" /\ how'[s] = why /\ how[s] = "none"
           /\ \A t \in Desktop!Sessions \ {s} : backend'[t] = backend[t] /\ how'[t] = how[t]
           /\ \A t \in Desktop!Sessions : /\ how'[t] # "none" <=> backend'[t] = "dead"
                                          /\ backend'[t] # "none" <=> t <= n
           /\ UNCHANGED <<file, n, eof, key>> /\ KeyInv'
<1>1. /\ backend' = [backend EXCEPT ![s] = "dead"] /\ how' = [how EXCEPT ![s] = why]
      /\ UNCHANGED <<file, n, eof, key>>
  BY DEF Desktop!Ends, Desktop!Moves
<1>2. DesktopShapes /\ KeyInv
  BY DEF DesktopInv
<1>3. /\ backend' \in [Desktop!Sessions -> BackendAt]
      /\ how' \in [Desktop!Sessions -> {"none", "left", "crash", "killed"}]
      /\ backend'[s] = "dead" /\ how'[s] = why /\ how[s] = "none"
      /\ \A t \in Desktop!Sessions \ {s} : backend'[t] = backend[t] /\ how'[t] = how[t]
  BY <1>1, <1>2 DEF DesktopShapes, BackendAt
<1>4. \A t \in Desktop!Sessions : /\ how'[t] # "none" <=> backend'[t] = "dead"
                                  /\ backend'[t] # "none" <=> t <= n
  BY <1>2, <1>3 DEF DesktopShapes
<1>5. KeyInv'
  <2>1. \A t \in Desktop!Sessions : backend'[t] = "created" => backend[t] = "created"
    BY <1>3
  <2>2. QED
    BY <1>1, <1>2, <2>1, KeyStays
<1>6. QED
  BY <1>1, <1>3, <1>4, <1>5

LEMMA KillKeepsDesktopInv ==
    ASSUME DesktopInv, shell.pc # "off", NEW who \in {"main", "update"}, Desktop!Kill(who)
    PROVE  DesktopInv'
<1>1. /\ shell' = Desktop!Returned(who) /\ shell.stops = who /\ backend[n] # "dead" /\ Desktop!Ends(n, "killed")
  BY DEF Desktop!Kill, Desktop!Sets
<1>2. n \in Desktop!Sessions /\ n \in Nat /\ backend[n] # "none"
  BY Current
<1>3. /\ backend' \in [Desktop!Sessions -> BackendAt]
      /\ how' \in [Desktop!Sessions -> {"none", "left", "crash", "killed"}]
      /\ backend'[n] = "dead" /\ how'[n] = "killed" /\ how[n] = "none"
      /\ \A t \in Desktop!Sessions : /\ how'[t] # "none" <=> backend'[t] = "dead"
                                     /\ backend'[t] # "none" <=> t <= n
      /\ UNCHANGED <<file, n, eof, key>> /\ KeyInv'
  BY <1>1, <1>2, EndsKeeps
<1>4. CASE who = "main"
  <2>1. CrashedIfTold' /\ StopsFirst' /\ shell'.pc = "off" /\ shell' \in ShellAt
    BY <1>1, <1>4, NobodyThere DEF Desktop!Returned
  <2>2. DesktopShapes'
    BY <1>3, <2>1 DEF DesktopInv, DesktopShapes
  <2>3. QED
    BY <1>3, <2>1, <2>2 DEF DesktopInv
<1>5. CASE who = "update"
  <2> DEFINE x == Desktop!Returned("update")
  <2>1. /\ shell' = x /\ x \in ShellAt /\ x.stopping = shell.stopping /\ x.child = shell.child /\ x.stops = "nobody"
        /\ x.garbled = shell.garbled /\ (Reported(x) <=> Reported(shell)) /\ x.pc = shell.pc
    BY <1>1, <1>5, ReturnedTypes
  <2> HIDE DEF x
  <2>2. DesktopShapes'
    BY <1>2, <1>3, <2>1 DEF DesktopInv, DesktopShapes
  <2>3. CrashedIfTold'
    BY <1>3, <2>1 DEF DesktopInv, CrashedIfTold
  <2>4. shell.stopping
    BY <1>1 DEF DesktopInv, StopsFirst
  <2>5. StopsFirst'
    BY <1>3, <2>1, <2>4 DEF StopsFirst
  <2>6. QED
    BY <1>3, <2>2, <2>3, <2>5 DEF DesktopInv
<1>6. QED
  BY <1>4, <1>5

LEMMA ShellKilledKeepsDesktopInv ==
    ASSUME DesktopInv, Desktop!ShellKilled
    PROVE  DesktopInv'
<1>1. /\ shell.pc # "off" /\ shell' = Desktop!NoShell /\ eof' = [eof EXCEPT ![n] = TRUE]
      /\ UNCHANGED <<file, n, backend, key, how>>
  BY DEF Desktop!ShellKilled, Desktop!Exits
<1>2. n \in Desktop!Sessions /\ n \in Nat
  BY <1>1, Current
<1>3. CrashedIfTold' /\ StopsFirst' /\ shell'.pc = "off" /\ shell' \in ShellAt
  BY <1>1, NobodyThere
<1>4. eof' \in [Desktop!Sessions -> BOOLEAN] /\ \A s \in Desktop!Sessions \ {n} : eof'[s] = eof[s]
  BY <1>1, <1>2 DEF DesktopInv, DesktopShapes
<1>5. DesktopShapes'
  BY <1>1, <1>2, <1>3, <1>4 DEF DesktopInv, DesktopShapes
<1>6. KeyInv'
  BY <1>1, KeyStays DEF DesktopInv
<1>7. QED
  BY <1>3, <1>5, <1>6 DEF DesktopInv

LEMMA UpdateKeepsDesktopInv ==
    ASSUME DesktopInv, shell.pc # "off", Desktop!Update
    PROVE  DesktopInv'
<1>1. shell \in ShellAt
  BY Current
<1>2. ASSUME NEW to \in {"stop", "install", "failed"},
             shell' = [shell EXCEPT !.update = to], Desktop!Quiet
      PROVE  DesktopInv'
  <2>1. /\ shell' \in ShellAt /\ shell'.garbled = shell.garbled /\ (Reported(shell') <=> Reported(shell))
        /\ shell'.stopping = shell.stopping /\ shell'.child = shell.child /\ shell'.stops = shell.stops
    BY <1>1, <1>2 DEF ShellAt, Reported
  <2>2. UNCHANGED <<file, n, backend, eof, key, how>>
    BY <1>2 DEF Desktop!Quiet, Desktop!backends
  <2>3. QED
    BY <2>1, <2>2, ShellGoesOn
<1>3. CASE shell' = [shell EXCEPT !.update = "restart", !.pc = "closing"] /\ Desktop!Quiet
  <2> DEFINE x == [shell EXCEPT !.update = "restart"]
             y == [x EXCEPT !.pc = "closing"]
  <2>a. x \in ShellAt /\ x.garbled = shell.garbled /\ x.reader = shell.reader /\ x.dialog = shell.dialog
    BY <1>1 DEF ShellAt
  <2>b. x.stopping = shell.stopping /\ x.child = shell.child /\ x.stops = shell.stops
    BY <1>1 DEF ShellAt
  <2>c. shell' = y
    BY <1>3
  <2> HIDE DEF x
  <2>d. y \in ShellAt /\ y.garbled = x.garbled /\ y.reader = x.reader /\ y.dialog = x.dialog
    BY <2>a DEF ShellAt
  <2>e. y.stopping = x.stopping /\ y.child = x.child /\ y.stops = x.stops
    BY <2>a DEF ShellAt
  <2> HIDE DEF y
  <2>1. /\ shell' \in ShellAt /\ shell'.garbled = shell.garbled /\ (Reported(shell') <=> Reported(shell))
        /\ shell'.stopping = shell.stopping /\ shell'.child = shell.child /\ shell'.stops = shell.stops
    BY <2>a, <2>b, <2>c, <2>d, <2>e DEF Reported
  <2>2. UNCHANGED <<file, n, backend, eof, key, how>>
    BY <1>3 DEF Desktop!Quiet, Desktop!backends
  <2>3. QED
    BY <2>1, <2>2, ShellGoesOn
<1>4. \A from : \A to \in {"stop", "install", "failed"} :
         Desktop!Updates(from, to) => DesktopInv'
  BY <1>2 DEF Desktop!Updates, Desktop!Sets
<1>5. CASE shell.update = "stop" /\ shell.stops # "update" /\ ~shell.child
             /\ shell' = [shell EXCEPT !.update = "install"] /\ Desktop!Quiet
  BY <1>2, <1>5
<1>6. QED
  BY <1>3, <1>4, <1>5, TakeKeepsDesktopInv, WaitedKeepsDesktopInv, KillKeepsDesktopInv DEF Desktop!Update, Desktop!Sets

LEMMA MainStopsKeepsDesktopInv ==
    ASSUME DesktopInv, Desktop!MainStops
    PROVE  DesktopInv'
<1>1. shell.pc # "off"
  BY DEF Desktop!MainStops
<1>2. CASE Desktop!Exits /\ Desktop!Quiet
  BY <1>2, GoneKeepsDesktopInv DEF Desktop!Exits, Desktop!Quiet, Desktop!backends
<1>3. QED
  BY <1>1, <1>2, TakeKeepsDesktopInv, WaitedKeepsDesktopInv, KillKeepsDesktopInv DEF Desktop!MainStops

LEMMA LaunchKeepsDesktopInv ==
    ASSUME DesktopInv, Desktop!Launch
    PROVE  DesktopInv'
<1>1. /\ n < MaxSessions /\ n' = n + 1 /\ backend' = [backend EXCEPT ![n + 1] = "start"]
      /\ shell' = Desktop!NewShell /\ UNCHANGED <<file, eof, key, how>>
  BY DEF Desktop!Launch, Desktop!Sets
<1>2. /\ shell' \in ShellAt /\ ~Reported(shell') /\ shell'.stops = "nobody" /\ shell'.child
  BY <1>1, NoShellTypes
<1>3. /\ MaxSessions \in Nat /\ n \in Nat /\ n' \in Desktop!Sessions /\ n' \in 0..MaxSessions
      /\ \A s \in Desktop!Sessions : s \in Nat /\ s > 0
  BY <1>1, ClientsAssumption
     DEF ClientsAssumption, Desktop!DesktopAssumption, Desktop!Sessions, DesktopInv, DesktopShapes
<1>4. /\ backend' \in [Desktop!Sessions -> BackendAt] /\ backend'[n'] = "start"
      /\ \A s \in Desktop!Sessions \ {n'} : backend'[s] = backend[s]
  BY <1>1, <1>3 DEF DesktopInv, DesktopShapes, BackendAt
<1>5. backend[n'] = "none" /\ ~eof[n'] /\ how[n'] = "none"
  BY <1>1, <1>3 DEF DesktopInv, DesktopShapes
<1>6. DesktopShapes'
  <2>1. \A s \in Desktop!Sessions : /\ how'[s] # "none" <=> backend'[s] = "dead"
                                    /\ backend'[s] # "none" <=> s <= n'
                                    /\ eof'[s] => s <= n'
    <3>1. ASSUME NEW s \in Desktop!Sessions
          PROVE  /\ how'[s] # "none" <=> backend'[s] = "dead"
                 /\ backend'[s] # "none" <=> s <= n'
                 /\ eof'[s] => s <= n'
      <4>1. CASE s = n'
        BY <1>1, <1>3, <1>4, <1>5, <4>1
      <4>2. CASE s # n'
        BY <1>1, <1>3, <1>4, <4>2 DEF DesktopInv, DesktopShapes
      <4>3. QED
        BY <4>1, <4>2
    <3>2. QED
      BY <3>1
  <2>2. QED
    BY <1>1, <1>2, <1>3, <1>4, <2>1 DEF DesktopInv, DesktopShapes
<1>7. CrashedIfTold'
  BY <1>1, <1>2 DEF CrashedIfTold
<1>8. StopsFirst'
  BY <1>1, <1>2, <1>4, <1>5 DEF StopsFirst
<1>9. KeyInv'
  <2>1. \A s \in Desktop!Sessions : backend'[s] = "created" => backend[s] = "created"
    BY <1>4
  <2>2. QED
    BY <1>1, <2>1, KeyStays DEF DesktopInv
<1>10. QED
  BY <1>6, <1>7, <1>8, <1>9 DEF DesktopInv

\* A backend that goes on.
LEMMA BackendGoesOn ==
    ASSUME DesktopInv, NEW s \in Desktop!Sessions, NEW b \in BackendAt \ {"none", "dead"},
           backend' = [backend EXCEPT ![s] = b], backend[s] \notin {"none", "dead"},
           b = "leaving" => eof[s], UNCHANGED <<n, eof, how>>, shell' \in ShellAt,
           shell'.pc = shell.pc, shell'.garbled = shell.garbled, Reported(shell') <=> Reported(shell),
           shell'.stopping = shell.stopping, shell'.child = shell.child, shell'.stops = shell.stops
    PROVE  /\ DesktopShapes' /\ CrashedIfTold' /\ StopsFirst'
           /\ backend'[s] = b /\ \A t \in Desktop!Sessions \ {s} : backend'[t] = backend[t]
<1>1. DesktopShapes /\ CrashedIfTold /\ StopsFirst
  BY DEF DesktopInv
<1>2. /\ backend' \in [Desktop!Sessions -> BackendAt] /\ backend'[s] = b
      /\ \A t \in Desktop!Sessions \ {s} : backend'[t] = backend[t]
  BY <1>1 DEF DesktopShapes
<1>3. \A t \in Desktop!Sessions : /\ how'[t] # "none" <=> backend'[t] = "dead"
                                  /\ backend'[t] # "none" <=> t <= n'
                                  /\ eof'[t] => t <= n'
  BY <1>1, <1>2 DEF DesktopShapes
<1>4. DesktopShapes'
  BY <1>1, <1>2, <1>3 DEF DesktopShapes
<1>5. CrashedIfTold'
  BY <1>1 DEF CrashedIfTold
<1>6. StopsFirst'
  <2>1. shell.stops # "nobody" => shell.stopping /\ ~shell.child
    BY <1>1 DEF StopsFirst
  <2>2. ASSUME shell.pc # "off"
        PROVE  /\ eof[n] => shell.stopping \/ shell.garbled
               /\ backend'[n] = "leaving" => eof[n]
               /\ how[n] \in {"left", "killed"} => shell.stopping \/ shell.garbled
               /\ ~shell.child /\ shell.stops = "nobody" => backend'[n] = "dead"
    <3>1. n \in Desktop!Sessions
      BY <2>2, Current
    <3>2. CASE n = s
      BY <1>1, <1>2, <2>2, <3>2 DEF StopsFirst
    <3>3. CASE n # s
      BY <1>1, <1>2, <2>2, <3>1, <3>3 DEF StopsFirst
    <3>4. QED
      BY <3>2, <3>3
  <2>3. QED
    BY <2>1, <2>2 DEF StopsFirst
<1>7. QED
  BY <1>2, <1>4, <1>5, <1>6

LEMMA EnsureKeyKeepsDesktopInv ==
    ASSUME DesktopInv, NEW s \in Desktop!Sessions, Desktop!EnsureKey(s)
    PROVE  DesktopInv'
<1>1. /\ backend[s] = "start" /\ UNCHANGED <<file, n, eof, how, shell>>
      /\ \/ key' = key /\ backend' = [backend EXCEPT ![s] = "generate"]
         \/ key' = [key EXCEPT ![s] = file] /\ backend' = [backend EXCEPT ![s] = "boot"]
  BY DEF Desktop!EnsureKey, Desktop!Moves
<1>2. shell' \in ShellAt /\ KeyInv
  BY <1>1 DEF DesktopInv, DesktopShapes
<1>3. PICK b \in {"generate", "boot"} : backend' = [backend EXCEPT ![s] = b]
  BY <1>1
<1>4. /\ DesktopShapes' /\ CrashedIfTold' /\ StopsFirst'
      /\ backend'[s] = b /\ \A t \in Desktop!Sessions \ {s} : backend'[t] = backend[t]
  BY <1>1, <1>2, <1>3, BackendGoesOn DEF BackendAt
<1>5. /\ key' \in [Desktop!Sessions -> {None, EmptyKey} \cup Desktop!Sessions]
      /\ \A t \in Desktop!Sessions : key'[t] \in {key[t], file}
  BY <1>1, <1>2 DEF KeyInv
<1>6. KeyInv'
  BY <1>1, <1>2, <1>4, <1>5 DEF KeyInv, Desktop!SameKey
<1>7. QED
  BY <1>4, <1>6 DEF DesktopInv

LEMMA CreateKeyKeepsDesktopInv ==
    ASSUME DesktopInv, NEW s \in Desktop!Sessions, Desktop!CreateKey(s), file = None
    PROVE  DesktopInv'
<1>1. /\ backend[s] = "generate" /\ UNCHANGED <<n, eof, key, how, shell>>
      /\ file' = EmptyKey /\ backend' = [backend EXCEPT ![s] = "created"]
  BY DEF Desktop!CreateKey, Desktop!Moves
<1>2. shell' \in ShellAt /\ KeyInv /\ None # EmptyKey
  BY <1>1, ClientsAssumption DEF DesktopInv, DesktopShapes, ClientsAssumption, Desktop!DesktopAssumption
<1>3. /\ DesktopShapes' /\ CrashedIfTold' /\ StopsFirst'
      /\ backend'[s] = "created" /\ \A t \in Desktop!Sessions \ {s} : backend'[t] = backend[t]
  BY <1>1, <1>2, BackendGoesOn DEF BackendAt
<1>4. \A t \in Desktop!Sessions : key[t] \in {None, EmptyKey} /\ backend[t] # "created"
  BY <1>2 DEF KeyInv, Desktop!SameKey
<1>5. KeyInv'
  BY <1>1, <1>2, <1>3, <1>4 DEF KeyInv, Desktop!SameKey
<1>6. QED
  BY <1>3, <1>5 DEF DesktopInv

LEMMA WriteKeyKeepsDesktopInv ==
    ASSUME DesktopInv, NEW s \in Desktop!Sessions, Desktop!WriteKey(s)
    PROVE  DesktopInv'
<1>1. /\ backend[s] = "created" /\ UNCHANGED <<n, eof, how, shell>>
      /\ file' = s /\ key' = [key EXCEPT ![s] = s] /\ backend' = [backend EXCEPT ![s] = "boot"]
  BY DEF Desktop!WriteKey, Desktop!Moves
<1>2. shell' \in ShellAt /\ KeyInv
  BY <1>1 DEF DesktopInv, DesktopShapes
<1>3. /\ DesktopShapes' /\ CrashedIfTold' /\ StopsFirst'
      /\ backend'[s] = "boot" /\ \A t \in Desktop!Sessions \ {s} : backend'[t] = backend[t]
  BY <1>1, <1>2, BackendGoesOn DEF BackendAt
<1>4. \A t \in Desktop!Sessions : key[t] \in {None, EmptyKey} /\ backend'[t] # "created"
  BY <1>1, <1>2, <1>3 DEF KeyInv, Desktop!SameKey
<1>5. KeyInv'
  BY <1>1, <1>2, <1>4 DEF KeyInv, Desktop!SameKey
<1>6. QED
  BY <1>3, <1>5 DEF DesktopInv

LEMMA ServesKeepsDesktopInv ==
    ASSUME DesktopInv, NEW s \in Desktop!Sessions, Desktop!Serve(s) \/ Desktop!NoticeEOF(s)
    PROVE  DesktopInv'
<1>1. PICK b \in {"serving", "leaving"} :
        /\ backend' = [backend EXCEPT ![s] = b] /\ backend[s] \in {"boot", "serving"} /\ (b = "leaving" => eof[s])
        /\ UNCHANGED <<file, n, eof, key, how>>
  BY DEF Desktop!Serve, Desktop!NoticeEOF, Desktop!Moves
<1>2. /\ shell' \in ShellAt /\ shell'.pc = shell.pc /\ shell'.garbled = shell.garbled
      /\ (Reported(shell') <=> Reported(shell))
      /\ shell'.stopping = shell.stopping /\ shell'.child = shell.child /\ shell'.stops = shell.stops
  <2>1. shell \in ShellAt
    BY DEF DesktopInv, DesktopShapes
  <2>2. shell' = shell \/ shell' = [shell EXCEPT !.line = TRUE]
    BY DEF Desktop!Serve, Desktop!NoticeEOF
  <2>3. CASE shell' = [shell EXCEPT !.line = TRUE]
    BY <2>1, <2>3 DEF ShellAt, Reported
  <2>4. QED
    BY <2>1, <2>2, <2>3
<1>3. /\ DesktopShapes' /\ CrashedIfTold' /\ StopsFirst'
      /\ backend'[s] = b /\ \A t \in Desktop!Sessions \ {s} : backend'[t] = backend[t]
  BY <1>1, <1>2, BackendGoesOn DEF BackendAt
<1>4. KeyInv'
  <2>1. \A t \in Desktop!Sessions : backend'[t] = "created" => backend[t] = "created"
    BY <1>3
  <2>2. QED
    BY <1>1, <2>1, KeyStays DEF DesktopInv
<1>5. QED
  BY <1>3, <1>4 DEF DesktopInv

\* A shell that learns of output that it cannot decode, or that somebody holds.
LEMMA OutputKeepsDesktopInv ==
    ASSUME DesktopInv, UNCHANGED <<file, n, backend, eof, key, how>>,
           NEW b \in BOOLEAN, shell' = [shell EXCEPT !.garbled = TRUE] \/ shell' = [shell EXCEPT !.held = b]
    PROVE  DesktopInv'
<1>1. DesktopShapes /\ CrashedIfTold /\ StopsFirst /\ KeyInv /\ shell \in ShellAt
  BY DEF DesktopInv, DesktopShapes
<1>2. /\ shell' \in ShellAt /\ shell'.pc = shell.pc /\ (shell.garbled => shell'.garbled)
      /\ (Reported(shell') <=> Reported(shell))
      /\ shell'.stopping = shell.stopping /\ shell'.child = shell.child /\ shell'.stops = shell.stops
  BY <1>1 DEF ShellAt, Reported
<1>3. DesktopShapes'
  BY <1>1, <1>2 DEF DesktopShapes
<1>4. CrashedIfTold' /\ StopsFirst'
  BY <1>1, <1>2 DEF CrashedIfTold, StopsFirst
<1>5. KeyInv'
  BY <1>1, KeyStays
<1>6. QED
  BY <1>3, <1>4, <1>5 DEF DesktopInv

LEMMA EndingKeepsDesktopInv ==
    ASSUME DesktopInv, NEW s \in Desktop!Sessions,
           Desktop!Leave(s) \/ Desktop!Crash(s) \/ (Desktop!CreateKey(s) /\ file # None)
    PROVE  DesktopInv'
<1>1. PICK why \in {"left", "crash"} :
        /\ Desktop!Ends(s, why) /\ backend[s] \notin {"none", "dead"}
        /\ why = "left" => backend[s] = "leaving"
  BY DEF Desktop!Leave, Desktop!Crash, Desktop!CreateKey, Desktop!Gone
<1>2. /\ backend' \in [Desktop!Sessions -> BackendAt]
      /\ how' \in [Desktop!Sessions -> {"none", "left", "crash", "killed"}]
      /\ backend'[s] = "dead" /\ how'[s] = why /\ how[s] = "none"
      /\ \A t \in Desktop!Sessions \ {s} : backend'[t] = backend[t] /\ how'[t] = how[t]
      /\ \A t \in Desktop!Sessions : /\ how'[t] # "none" <=> backend'[t] = "dead"
                                     /\ backend'[t] # "none" <=> t <= n
      /\ UNCHANGED <<file, n, eof, key>> /\ KeyInv'
  BY <1>1, EndsKeeps
<1>3. DesktopShapes /\ CrashedIfTold /\ StopsFirst /\ shell \in ShellAt
  BY DEF DesktopInv, DesktopShapes
<1>4. /\ shell' \in ShellAt /\ shell'.pc = shell.pc /\ shell'.garbled = shell.garbled
      /\ (Reported(shell') <=> Reported(shell))
      /\ shell'.stopping = shell.stopping /\ shell'.child = shell.child /\ shell'.stops = shell.stops
  <2>1. shell' = shell \/ shell' = [shell EXCEPT !.held = TRUE]
    BY DEF Desktop!Leave, Desktop!Crash, Desktop!CreateKey
  <2>2. CASE shell' = [shell EXCEPT !.held = TRUE]
    BY <1>3, <2>2 DEF ShellAt, Reported
  <2>3. QED
    BY <1>3, <2>1, <2>2
<1>5. DesktopShapes'
  BY <1>2, <1>3, <1>4 DEF DesktopShapes
<1>6. CrashedIfTold'
  <2>1. SUFFICES ASSUME Reported(shell) PROVE n > 0 /\ (how'[n] = "crash" \/ shell.garbled)
    BY <1>2, <1>4 DEF CrashedIfTold
  <2>2. n > 0 /\ (how[n] = "crash" \/ shell.garbled) /\ n \in Desktop!Sessions
    BY <1>3, <2>1, ClientsAssumption
       DEF CrashedIfTold, DesktopShapes, Desktop!Sessions, ClientsAssumption, Desktop!DesktopAssumption
  <2>3. how[n] = "crash" => n # s
    BY <1>2, <2>2
  <2>4. QED
    BY <1>2, <2>2, <2>3
<1>7. StopsFirst'
  <2>1. shell.stops # "nobody" => shell.stopping /\ ~shell.child
    BY <1>3 DEF StopsFirst
  <2>2. ASSUME shell.pc # "off"
        PROVE  /\ eof[n] => shell.stopping \/ shell.garbled
               /\ backend'[n] = "leaving" => eof[n]
               /\ how'[n] \in {"left", "killed"} => shell.stopping \/ shell.garbled
               /\ ~shell.child /\ shell.stops = "nobody" => backend'[n] = "dead"
    <3>1. n \in Desktop!Sessions
      BY <2>2, Current
    <3>2. CASE n = s
      BY <1>1, <1>2, <1>3, <2>2, <3>2 DEF StopsFirst
    <3>3. CASE n # s
      BY <1>2, <1>3, <2>2, <3>1, <3>3 DEF StopsFirst
    <3>4. QED
      BY <3>2, <3>3
  <2>3. QED
    BY <1>2, <1>4, <2>1, <2>2 DEF StopsFirst
<1>8. QED
  BY <1>2, <1>5, <1>6, <1>7 DEF DesktopInv

LEMMA StepDesktopInv ==
    ASSUME DesktopInv, [Desktop!Next]_shellVars
    PROVE  DesktopInv'
<1>1. ASSUME UNCHANGED <<file, n, backend, eof, key, how, shell>> PROVE DesktopInv'
  BY <1>1, KeyStays DEF DesktopInv, DesktopShapes, CrashedIfTold, StopsFirst
<1>2. CASE UNCHANGED shellVars
  BY <1>1, <1>2 DEF shellVars
<1>3. CASE Desktop!Ended
  BY <1>1, <1>3 DEF Desktop!Ended, Desktop!vars
<1>4. ASSUME NEW s \in Desktop!Sessions,
             \/ Desktop!Backend(s) \/ Desktop!Crash(s) \/ Desktop!Garbles(s)
             \/ Desktop!Work(s) \/ Desktop!WorkDone(s)
      PROVE  DesktopInv'
  <2>1. CASE Desktop!Work(s) \/ Desktop!WorkDone(s) \/ Desktop!Garbles(s)
    <3>1. UNCHANGED <<file, n, backend, eof, key, how>>
      BY <2>1 DEF Desktop!Work, Desktop!WorkDone, Desktop!Garbles, Desktop!backends
    <3>2. \/ UNCHANGED shell
          \/ shell' = [shell EXCEPT !.garbled = TRUE]
          \/ shell' = [shell EXCEPT !.held = FALSE]
      BY <2>1 DEF Desktop!Work, Desktop!WorkDone, Desktop!Garbles
    <3>3. QED
      BY <1>1, <3>1, <3>2, OutputKeepsDesktopInv
  <2>2. QED
    BY <1>4, <2>1, EnsureKeyKeepsDesktopInv, CreateKeyKeepsDesktopInv, WriteKeyKeepsDesktopInv,
       ServesKeepsDesktopInv, EndingKeepsDesktopInv DEF Desktop!Backend
<1>5. CASE shell.pc # "off" /\ (Desktop!Threads \/ Desktop!Closing)
  BY <1>5, ThreadsKeepDesktopInv, BackendDiedKeepsDesktopInv
<1>6. QED
  BY <1>2, <1>3, <1>4, <1>5, LaunchKeepsDesktopInv, MainStopsKeepsDesktopInv, ShellKilledKeepsDesktopInv,
     UpdateKeepsDesktopInv DEF Desktop!Next

\* Only the main thread's own stop, and a kill, bring a shell that is closing to its end.
LEMMA ClosesItself ==
    ASSUME DesktopInv, [Desktop!Next]_shellVars, shell.pc = "closing", shell'.pc = "off"
    PROVE  Desktop!MainStops \/ Desktop!ShellKilled
<1>1. shell \in ShellAt
  BY DEF DesktopInv, DesktopShapes
<1>2. shell.pc # "off" /\ shell'.pc # shell.pc
  OBVIOUS
<1>3. ASSUME Desktop!Threads PROVE FALSE
  <2>1. CASE Desktop!EndOfOutput
    <3> DEFINE p == Desktop!Shown("error and log")
    <3>1. \/ shell' = [shell EXCEPT !.page = p, !.reader = "done"]
          \/ shell' = [shell EXCEPT !.reader = "done"]
          \/ shell' = [shell EXCEPT !.reader = "died"]
      BY <2>1 DEF Desktop!EndOfOutput, Desktop!Sets
    <3> HIDE DEF p
    <3>2. QED
      BY <1>1, <1>2, <3>1 DEF ShellAt
  <2>2. CASE Desktop!TimerLooks
    <3>1. shell' = [shell EXCEPT !.timer = "show"]
      BY <2>2 DEF Desktop!TimerLooks, Desktop!Sets
    <3>2. QED
      BY <1>1, <1>2, <3>1 DEF ShellAt
  <2>3. CASE Desktop!TimesOut
    <3> DEFINE p == Desktop!Shown("not in time")
    <3>1. shell' = [shell EXCEPT !.page = p, !.timer = "off"]
      BY <2>3 DEF Desktop!TimesOut, Desktop!Sets
    <3> HIDE DEF p
    <3>2. QED
      BY <1>1, <1>2, <3>1 DEF ShellAt
  <2>4. CASE Desktop!ReadReady
    <3>1. shell' = [shell EXCEPT !.line = FALSE, !.ready = TRUE, !.reader = "navigate"]
      BY <2>4 DEF Desktop!ReadReady, Desktop!Sets
    <3>2. QED
      BY <1>1, <1>2, <3>1 DEF ShellAt
  <2>5. CASE Desktop!Navigate
    <3>1. shell' = [shell EXCEPT !.page = "app", !.reader = "reading"]
      BY <2>5 DEF Desktop!Navigate, Desktop!Sets
    <3>2. QED
      BY <1>1, <1>2, <3>1 DEF ShellAt
  <2>6. CASE Desktop!BackendDied
    <3>1. \/ shell' = [shell EXCEPT !.dialog = TRUE, !.reader = "done"]
          \/ shell' = [shell EXCEPT !.reader = "waits"]
      BY <2>6 DEF Desktop!BackendDied, Desktop!Sets
    <3>2. QED
      BY <1>1, <1>2, <3>1 DEF ShellAt
  <2>7. QED
    BY <1>3, <2>1, <2>2, <2>3, <2>4, <2>5, <2>6 DEF Desktop!Threads
<1>4. ASSUME NEW w, NEW u, NEW b, NEW d,
             \/ shell' = [shell EXCEPT !.update = u]
             \/ shell' = [shell EXCEPT !.update = u, !.pc = "closing"]
             \/ shell' = [shell EXCEPT !.update = u, !.stops = w]
             \/ shell' = [shell EXCEPT !.stopping = b, !.child = d, !.stops = w]
      PROVE  FALSE
  BY <1>1, <1>4 DEF ShellAt
<1>5. ASSUME Desktop!Update PROVE FALSE
  <2>1. CASE Desktop!Waited("update") \/ Desktop!Kill("update")
    BY <1>4, <2>1 DEF Desktop!Waited, Desktop!Kill, Desktop!Returned, Desktop!Sets
  <2>2. CASE Desktop!Take("update")
    BY <1>4, <2>2 DEF Desktop!Take, Desktop!Sets
  <2>3. \A from, to : ~Desktop!Updates(from, to)
    BY <1>4 DEF Desktop!Updates, Desktop!Sets
  <2>4. QED
    BY <1>4, <1>5, <2>1, <2>2, <2>3 DEF Desktop!Update, Desktop!Sets
<1>6. ASSUME NEW s \in Desktop!Sessions,
             \/ Desktop!Backend(s) \/ Desktop!Crash(s) \/ Desktop!Garbles(s)
             \/ Desktop!Work(s) \/ Desktop!WorkDone(s)
      PROVE  FALSE
  <2>1. \/ shell' = shell \/ shell' = [shell EXCEPT !.line = TRUE] \/ shell' = [shell EXCEPT !.garbled = TRUE]
        \/ shell' = [shell EXCEPT !.held = TRUE] \/ shell' = [shell EXCEPT !.held = FALSE]
    BY <1>6 DEF Desktop!Backend, Desktop!EnsureKey, Desktop!CreateKey, Desktop!WriteKey, Desktop!Serve,
                Desktop!NoticeEOF, Desktop!Leave, Desktop!Crash, Desktop!Garbles, Desktop!Work, Desktop!WorkDone
  <2>2. QED
    BY <1>1, <2>1 DEF ShellAt
<1>7. ~Desktop!Launch /\ ~Desktop!Closing /\ ~Desktop!Ended /\ ~UNCHANGED shellVars
  BY DEF Desktop!Launch, Desktop!Closing, Desktop!Ended, Desktop!vars, shellVars
<1>8. QED
  BY <1>3, <1>5, <1>6, <1>7 DEF Desktop!Next

LEMMA ExitsAfterItsBackend ==
    ASSUME DesktopInv, [Desktop!Next]_shellVars, shell.pc = "closing", shell'.pc = "off", faults' = faults,
           shell.stops # "update", faults \in Nat
    PROVE  Desktop!Gone(n)'
<1>1. Desktop!MainStops \/ Desktop!ShellKilled
  BY ClosesItself
<1>2. CASE Desktop!ShellKilled
  BY <1>2 DEF Desktop!ShellKilled
<1>3. CASE Desktop!MainStops
  <2>1. n \in Desktop!Sessions /\ shell \in ShellAt
    BY Current
  <2>2. CASE Desktop!Take("main")
    <3>1. shell' = [shell EXCEPT !.stopping = TRUE, !.child = FALSE, !.stops = "main"]
      BY <2>2 DEF Desktop!Take, Desktop!Sets
    <3>2. QED
      BY <2>1, <3>1 DEF ShellAt
  <2>3. CASE Desktop!Waited("main")
    BY <2>3 DEF Desktop!Waited, Desktop!Quiet, Desktop!backends, Desktop!Gone
  <2>4. CASE Desktop!Kill("main")
    <3>1. backend[n] # "none"
      BY Current
    <3>2. backend'[n] = "dead" /\ n' = n
      BY <2>1, <2>4, <3>1, EndsKeeps DEF Desktop!Kill
    <3>3. QED
      BY <3>2 DEF Desktop!Gone
  <2>5. CASE shell.stops # "main" /\ ~shell.child /\ Desktop!Quiet
    <3>1. shell.stops = "nobody"
      BY <2>1, <2>5 DEF ShellAt
    <3>2. backend[n] = "dead"
      BY <2>5, <3>1 DEF DesktopInv, StopsFirst
    <3>3. QED
      BY <2>5, <3>2 DEF Desktop!Quiet, Desktop!backends, Desktop!Gone
  <2>6. QED
    BY <1>3, <2>2, <2>3, <2>4, <2>5 DEF Desktop!MainStops
<1>4. QED
  BY <1>1, <1>2, <1>3

-----------------------------------------------------------------------------
(* Together: the two share no variable. *)

ClientsInv == IInv /\ DesktopInv /\ faults \in Nat

LEMMA InitClientsInv == ClientsInit => ClientsInv
  BY InitIInv, InitDesktopInv DEF ClientsInit, ClientsInv, Desktop!Init

LEMMA FaultsAreCounted ==
    ASSUME faults \in Nat, [Desktop!Next]_shellVars
    PROVE  faults' \in Nat
<1>1. \A s \in Desktop!Sessions : Desktop!Backend(s) => faults' = faults
  BY DEF Desktop!Backend, Desktop!EnsureKey, Desktop!CreateKey, Desktop!WriteKey, Desktop!Serve, Desktop!NoticeEOF,
         Desktop!Leave
<1>2. \A s \in Desktop!Sessions : Desktop!Crash(s) \/ Desktop!Garbles(s) => faults' = faults + 1
  BY DEF Desktop!Crash, Desktop!Garbles
<1>3. \A s \in Desktop!Sessions : Desktop!Work(s) \/ Desktop!WorkDone(s) => faults' = faults
  BY DEF Desktop!Work, Desktop!WorkDone
<1>4. Desktop!Launch \/ Desktop!Threads \/ Desktop!Closing => faults' = faults
  BY DEF Desktop!Launch, Desktop!Threads, Desktop!ReadReady, Desktop!Navigate, Desktop!EndOfOutput, Desktop!BackendDied,
         Desktop!TimerLooks, Desktop!TimesOut, Desktop!Closing, Desktop!Quiet
<1>5. Desktop!MainStops => faults' = faults
  BY DEF Desktop!MainStops, Desktop!Take, Desktop!Waited, Desktop!Kill, Desktop!Quiet
<1>6. Desktop!Update => faults' = faults
  BY DEF Desktop!Update, Desktop!Updates, Desktop!Take, Desktop!Waited, Desktop!Kill, Desktop!Quiet
<1>7. Desktop!ShellKilled => faults' = faults + 1
  BY DEF Desktop!ShellKilled
<1>8. Desktop!Ended \/ UNCHANGED shellVars => faults' = faults
  BY DEF Desktop!Ended, Desktop!vars, shellVars
<1>9. faults' = faults \/ faults' = faults + 1
  BY <1>1, <1>2, <1>3, <1>4, <1>5, <1>6, <1>7, <1>8 DEF Desktop!Next
<1>10. QED
  BY <1>9

LEMMA StepClientsInv ==
    ASSUME ClientsInv, [ClientsNext]_clientVars
    PROVE  ClientsInv'
<1>1. [Next]_vars /\ [Desktop!Next]_shellVars
  BY DEF ClientsNext, Tab, Shell, clientVars
<1>2. QED
  BY <1>1, NextKeepsIInv, StepDesktopInv, FaultsAreCounted DEF ClientsInv

LEMMA ClientsKeepInv == Clients => []ClientsInv
  BY InitClientsInv, StepClientsInv, PTL DEF Clients

\* useFlowWebSocket.ts, index.ts: the tab hears one socket at most; it shows states of nodes only of
\* the flow that it hears, and of flows whose events it stopped hearing since it last cleared them;
\* and of the flow that it hears nothing as running once all runs are over and told.
THEOREM TheTabFollowsItsFlow == Spec => []TabFollowsItsFlow
  BY InitIInv, NextKeepsIInv, IInvShows, PTL DEF Spec

\* desktop.py: ensure_secret_key.  However many sessions there are, and wherever one of them is cut
\* off or overtaken by the next, a key that was generated is the one in the file from then on.
THEOREM OneKeyForAllSessions == Clients => []SameKey
<1>1. ClientsInv => SameKey
  BY DEF ClientsInv, DesktopInv, KeyInv, SameKey
<1>2. QED
  BY ClientsKeepInv, <1>1, PTL

\* main.rs: STOPPING.  The crash dialog comes up, or is about to, only for a backend that crashed or
\* that printed what the shell could not decode: what the shell, an update or a kill ended was told
\* to stop before, and its end is not reported.
THEOREM StopsAreNotReported == Clients => []Desktop!StopsUnreported
<1>1. ClientsInv => Desktop!StopsUnreported
  BY DEF ClientsInv, DesktopInv, CrashedIfTold, Reported, Desktop!StopsUnreported
<1>2. QED
  BY ClientsKeepInv, <1>1, PTL

\* main.rs: stop_backend on RunEvent::Exit.  A shell that exits by itself leaves no backend behind,
\* unless an update is stopping it.
THEOREM NoneIsLeftBehind == Clients => Desktop!DeadOnExit
<1>1. ClientsInv /\ [ClientsNext]_clientVars
        => [shell.pc = "closing" /\ shell'.pc = "off" /\ faults' = faults /\ shell.stops # "update"
              => Desktop!Gone(n)']_(Desktop!vars)
  <2>1. SUFFICES ASSUME ClientsInv, [ClientsNext]_clientVars, shell.pc = "closing", shell'.pc = "off",
                        faults' = faults, shell.stops # "update"
                 PROVE  Desktop!Gone(n)'
    OBVIOUS
  <2>2. [Desktop!Next]_shellVars
    BY <2>1 DEF ClientsNext, Tab, Shell, clientVars
  <2>3. QED
    BY <2>1, <2>2, ExitsAfterItsBackend DEF ClientsInv
<1>2. QED
  BY ClientsKeepInv, <1>1, PTL DEF Clients, Desktop!DeadOnExit
=============================================================================
