---------------------------- MODULE SchedulerProofs ----------------------------
(***************************************************************************)
(* Theorems about Scheduler and the ProjectStore it extends, for any       *)
(* number of clients, saves, flows, payloads, retries and firings, and     *)
(* restarts and a failing run_history at any time.  They rest on           *)
(* ProjectStoreAssumption and SchedulerAssumption only.                    *)
(***************************************************************************)
EXTENDS Scheduler, FiniteSetTheorems, TLAPS

-----------------------------------------------------------------------------
(* The inductive invariant of the store.  While requests come one after the other the one that
   is under way owns the file; when it registers jobs the file is its payload, and the flows it
   has been through follow the file. *)

NothingLeftToDo == \A c \in Clients : pc[c] # "registering" => todo[c] = {}

OneAtATime == \A c, d \in Clients : pc[c] # "idle" /\ pc[d] # "idle" => c = d

Owned ==
    \A c \in Clients :
        /\ pc[c] # "orphaned"
        /\ pc[c] = "opened" => file = Empty
        /\ pc[c] = "registering" =>
              file = payload[c] /\ \A f \in DOMAIN payload[c] : f \in todo[c] \/ FollowsFile(f)

TornWhileOpened == (\A c \in Clients : pc[c] # "opened") => file \notin Unreadable

StoreInv ==
    /\ StoreTypeOK /\ NothingLeftToDo
    /\ disturbed \/ (OneAtATime /\ Owned /\ TornWhileOpened /\ JobsFollowFile)

-----------------------------------------------------------------------------
(* The inductive invariant of the firings.  The last attempts of a flow's firing are its last
   rows; only the last row may be that of an attempt under way. *)

\* The rows of one firing are consecutive, numbered from one, and all but the last failed.
RowsInOrder(f) ==
    \A i \in 1..Len(rows[f]) :
        /\ rows[f][i].attempt <= i
        /\ \A j \in 1..i : /\ i - rows[f][i].attempt < j => rows[f][j].firing = rows[f][i].firing
                           /\ j <= i - rows[f][i].attempt => rows[f][j].firing < rows[f][i].firing
        /\ rows[f][i].attempt > 1 => rows[f][i - 1].status = "error"

\* As many rows as the firing made attempts are its own, at the end; it is the newest of its flow.
RunIsLast(f) ==
    /\ run[f].firing <= firings
    /\ run[f].attempt <= Len(rows[f])
    /\ \A j \in 1..Len(rows[f]) :
          /\ Len(rows[f]) - run[f].attempt < j => rows[f][j].firing = run[f].firing
          /\ j <= Len(rows[f]) - run[f].attempt => rows[f][j].firing < run[f].firing
          /\ Len(rows[f]) - run[f].attempt < j /\ j < Len(rows[f]) => rows[f][j].status = "error"

Live == {"executing", "ok", "stopped", "error"}

\* Where the firing stands tells how many attempts it made and what became of the last one.
StageFits(f) ==
    /\ stage[f] # "idle" => run[f].firing > 0
    /\ stage[f] = "starting" => run[f].attempt = 0
    /\ stage[f] \in Live =>
          /\ run[f].attempt \in 1..(Settings(f).retries + 1)
          /\ rows[f][Len(rows[f])].status = "running"
    /\ stage[f] = "sleeping" =>
          /\ run[f].attempt \in 1..Settings(f).retries
          /\ rows[f][Len(rows[f])].status = "error"

\* An alert is raised at the end of the last attempt, and then always.
AlertFits(f) ==
    /\ run[f].firing \in alerts =>
          /\ stage[f] = "idle" /\ run[f].attempt = Settings(f).retries + 1
          /\ rows[f][Len(rows[f])].status = "error"
    /\ /\ stage[f] = "idle" /\ Settings(f).alert /\ run[f].firing \notin abandoned
       /\ run[f].attempt > 0 /\ rows[f][Len(rows[f])].status = "error"
       => run[f].firing \in alerts

OpenRowIsLive(f) ==
    \A i \in 1..Len(rows[f]) : rows[f][i].status = "running" =>
        rows[f][i].firing \in abandoned \/ (i = Len(rows[f]) /\ stage[f] \in Live)

FlowInv(f) == RowsInOrder(f) /\ RunIsLast(f) /\ StageFits(f) /\ AlertFits(f) /\ OpenRowIsLive(f)

\* No two flows have the same firing, so that an alert or a cut short firing of one is not
\* taken for another's.
FiringsDiffer ==
    \A f, g \in AllFlows : f # g /\ run[f].firing = run[g].firing => run[f].firing = 0

RunsInv ==
    /\ TypeOK /\ alerts \subseteq 1..firings
    /\ FiringsDiffer
    /\ \A f \in AllFlows : FlowInv(f)

-----------------------------------------------------------------------------
(* The store. *)

LEMMA PayloadsAreReadable ==
    ASSUME NEW p \in Payloads \cup {Fresh}
    PROVE  p # Absent /\ p \notin Unreadable /\ DOMAIN p \subseteq AllFlows
BY ProjectStoreAssumption DEF AllFlows

LEMMA InitStoreInv == StoreInit => StoreInv
<1> SUFFICES ASSUME StoreInit PROVE StoreInv
  OBVIOUS
<1>1. Fresh # Absent /\ Fresh \notin Unreadable /\ DOMAIN Fresh \subseteq AllFlows
  BY PayloadsAreReadable
<1>2. StoreTypeOK
  <2>1. (CHOOSE p \in Payloads : TRUE) \in Payloads
    BY ProjectStoreAssumption
  <2>2. payload \in [Clients -> Payloads] /\ jobs \in [AllFlows -> Crons \cup {NoJob}]
    BY <2>1 DEF StoreInit
  <2>3. saves \in 0..MaxSaves
    BY ProjectStoreAssumption DEF StoreInit
  <2>4. QED
    BY <2>2, <2>3 DEF StoreInit, StoreTypeOK
<1>3. JobsFollowFile
  <2>1. \A f \in DOMAIN Fresh : Fresh[f] \notin Crons /\ jobs[f] = NoJob
    BY <1>1, ProjectStoreAssumption DEF StoreInit
  <2>2. QED
    BY <2>1 DEF StoreInit, JobsFollowFile, FollowsFile
<1>4. QED
  BY <1>1, <1>2, <1>3 DEF StoreInit, StoreInv, NothingLeftToDo, OneAtATime, Owned, TornWhileOpened

\* A request that begins alone: the store is disturbed otherwise.
LEMMA ReadKeepsStore ==
    ASSUME StoreInv, NEW c \in Clients, Read(c)
    PROVE  StoreInv'
<1>1. StoreTypeOK' /\ NothingLeftToDo'
  <2>1. StoreTypeOK /\ NothingLeftToDo /\ pc[c] = "idle"
    BY DEF StoreInv, Read
  <2>2. PICK p \in Payloads : payload' = [payload EXCEPT ![c] = p]
    BY DEF Read
  <2>3. pc' = [pc EXCEPT ![c] = "read"] /\ UNCHANGED <<file, jobs, todo>>
    BY DEF Read
  <2>4. saves' \in 0..MaxSaves /\ disturbed' \in BOOLEAN
    BY <2>1, ProjectStoreAssumption DEF Read, StoreTypeOK
  <2>5. todo[c] = {} /\ \A d \in Clients : todo[d] \subseteq DOMAIN payload'[d]
    BY <2>1, <2>2 DEF NothingLeftToDo, StoreTypeOK
  <2>6. StoreTypeOK'
    BY <2>1, <2>2, <2>3, <2>4, <2>5 DEF StoreTypeOK
  <2>7. NothingLeftToDo'
    BY <2>1, <2>3 DEF NothingLeftToDo, StoreTypeOK
  <2>8. QED
    BY <2>6, <2>7
<1>2. ASSUME ~disturbed' PROVE OneAtATime' /\ Owned' /\ TornWhileOpened' /\ JobsFollowFile'
  <2>1. ~disturbed /\ \A d \in Clients : pc[d] = "idle"
    BY <1>2 DEF Read, Quiet
  <2>2. pc' = [pc EXCEPT ![c] = "read"] /\ UNCHANGED <<file, jobs>> /\ file \notin Unreadable
    BY DEF Read, Readable
  <2>3. \A d \in Clients : pc'[d] = IF d = c THEN "read" ELSE "idle"
    BY <2>1, <2>2 DEF StoreInv, StoreTypeOK
  <2>4. QED
    BY <2>2, <2>3 DEF OneAtATime, Owned, TornWhileOpened, JobsFollowFile, Quiet
<1>3. QED
  BY <1>1, <1>2 DEF StoreInv

LEMMA OpenKeepsStore ==
    ASSUME StoreInv, NEW c \in Clients, Open(c)
    PROVE  StoreInv'
<1>1. StoreTypeOK' /\ NothingLeftToDo'
  BY DEF StoreInv, StoreTypeOK, NothingLeftToDo, Open, Unreadable
<1>2. ASSUME ~disturbed' PROVE OneAtATime' /\ Owned' /\ TornWhileOpened' /\ JobsFollowFile'
  <2>1. OneAtATime /\ Owned
    BY <1>2 DEF Open, StoreInv
  <2>2. \A d \in Clients : pc'[d] = IF d = c THEN "opened" ELSE pc[d]
    BY DEF Open, StoreInv, StoreTypeOK
  <2>3. \A d \in Clients : d # c => pc[d] = "idle"
    BY <2>1 DEF OneAtATime, Open
  <2>4. QED
    BY <2>2, <2>3 DEF Open, OneAtATime, Owned, TornWhileOpened, JobsFollowFile, Quiet
<1>3. QED
  BY <1>1, <1>2 DEF StoreInv

LEMMA WriteKeepsStore ==
    ASSUME StoreInv, NEW c \in Clients, Write(c)
    PROVE  StoreInv'
<1>1. StoreTypeOK
  BY DEF StoreInv
<1>2. payload[c] \in Payloads /\ DOMAIN payload[c] \subseteq AllFlows /\ payload[c] \notin Unreadable
  BY <1>1, PayloadsAreReadable DEF StoreTypeOK
<1>3. /\ pc' = [pc EXCEPT ![c] = "registering"]
      /\ todo' = [todo EXCEPT ![c] = DOMAIN payload[c]]
      /\ UNCHANGED <<jobs, payload, saves, disturbed>>
      /\ \/ pc[c] = "opened" /\ file' \in Written(c)
         \/ pc[c] = "orphaned" /\ file' = file
  BY DEF Write
<1>4. StoreTypeOK'
  <2>1. file' \in Payloads \cup {Fresh, Absent} \cup Unreadable
    BY <1>1, <1>2, <1>3 DEF StoreTypeOK, Written, Unreadable
  <2>2. QED
    BY <1>1, <1>2, <1>3, <2>1 DEF StoreTypeOK
<1>5. NothingLeftToDo'
  BY <1>1, <1>3 DEF NothingLeftToDo, StoreInv, StoreTypeOK
<1>6. ASSUME ~disturbed' PROVE OneAtATime' /\ Owned' /\ TornWhileOpened' /\ JobsFollowFile'
  <2>1. OneAtATime /\ Owned
    BY <1>3, <1>6 DEF StoreInv
  <2>2. file' = payload[c]
    BY <1>3, <2>1 DEF Owned, Written
  <2>3. \A d \in Clients : pc'[d] = IF d = c THEN "registering" ELSE pc[d]
    BY <1>1, <1>3 DEF StoreTypeOK
  <2>4. \A d \in Clients : d # c => pc[d] = "idle"
    BY <2>1, <1>3 DEF OneAtATime
  <2>5. todo'[c] = DOMAIN payload[c]
    BY <1>1, <1>3 DEF StoreTypeOK
  <2>6. QED
    BY <1>2, <1>3, <2>2, <2>3, <2>4, <2>5 DEF OneAtATime, Owned, TornWhileOpened, JobsFollowFile, Quiet
<1>7. QED
  BY <1>4, <1>5, <1>6 DEF StoreInv

\* The flow that was visited follows the file, the others as before.
LEMMA RegisterKeepsStore ==
    ASSUME StoreInv, NEW c \in Clients, Register(c)
    PROVE  StoreInv'
<1>1. StoreTypeOK /\ payload[c] \in Payloads /\ DOMAIN payload[c] \subseteq AllFlows
  BY PayloadsAreReadable DEF StoreInv, StoreTypeOK
<1>2. PICK f \in todo[c] :
         /\ jobs' = [jobs EXCEPT ![f] = JobAfter(payload[c][f], @)]
         /\ todo' = [todo EXCEPT ![c] = @ \ {f}]
  BY DEF Register
<1>3. pc[c] = "registering" /\ UNCHANGED <<file, pc, payload, saves, disturbed>>
  BY DEF Register
<1>4. f \in DOMAIN payload[c] /\ f \in AllFlows
  BY <1>1 DEF StoreTypeOK
<1>5. JobAfter(payload[c][f], jobs[f]) \in Crons \cup {NoJob}
  BY <1>1, <1>4 DEF JobAfter, StoreTypeOK
<1>6. StoreTypeOK' /\ NothingLeftToDo'
  BY <1>1, <1>2, <1>3, <1>5 DEF StoreTypeOK, NothingLeftToDo, StoreInv
<1>7. ASSUME ~disturbed' PROVE OneAtATime' /\ Owned' /\ TornWhileOpened' /\ JobsFollowFile'
  <2>1. OneAtATime /\ Owned /\ TornWhileOpened
    BY <1>3, <1>7 DEF StoreInv
  <2>2. file = payload[c] /\ \A g \in DOMAIN payload[c] : g \in todo[c] \/ FollowsFile(g)
    BY <1>3, <2>1 DEF Owned
  <2>3. \A d \in Clients : d # c => pc[d] = "idle"
    BY <2>1, <1>3 DEF OneAtATime
  <2>4. FollowsFile(f)'
    <3>1. jobs'[f] = JobAfter(file[f], jobs[f]) /\ file' = file
      BY <1>1, <1>2, <1>3, <1>4, <2>2 DEF StoreTypeOK
    <3>2. "manual" \notin Crons
      BY DEF Crons
    <3>3. QED
      BY <3>1, <3>2 DEF FollowsFile, JobAfter
  <2>5. ASSUME NEW g \in DOMAIN payload[c], g # f, FollowsFile(g) PROVE FollowsFile(g)'
    <3>1. jobs'[g] = jobs[g] /\ file' = file
      BY <1>1, <1>2, <1>3, <2>5 DEF StoreTypeOK
    <3>2. QED
      BY <2>5, <3>1 DEF FollowsFile
  <2>6. \A g \in DOMAIN payload[c] : g \in todo'[c] \/ FollowsFile(g)'
    <3>1. todo'[c] = todo[c] \ {f}
      BY <1>1, <1>2 DEF StoreTypeOK
    <3>2. QED
      BY <2>2, <2>4, <2>5, <3>1
  <2>7. QED
    BY <1>3, <2>1, <2>2, <2>3, <2>6 DEF OneAtATime, Owned, TornWhileOpened, JobsFollowFile, Quiet
<1>8. QED
  BY <1>6, <1>7 DEF StoreInv

LEMMA AnswerKeepsStore ==
    ASSUME StoreInv, NEW c \in Clients, Answer(c)
    PROVE  StoreInv'
<1>1. StoreTypeOK' /\ NothingLeftToDo'
  BY DEF StoreInv, StoreTypeOK, NothingLeftToDo, Answer
<1>2. ASSUME ~disturbed' PROVE OneAtATime' /\ Owned' /\ TornWhileOpened' /\ JobsFollowFile'
  <2>1. OneAtATime /\ Owned /\ TornWhileOpened
    BY <1>2 DEF Answer, StoreInv
  <2>2. file = payload[c] /\ \A f \in DOMAIN payload[c] : FollowsFile(f)
    BY <2>1 DEF Answer, Owned
  <2>3. /\ \A d \in Clients : pc'[d] = IF d = c THEN "idle" ELSE pc[d]
        /\ UNCHANGED <<file, jobs, payload>>
    BY DEF Answer, StoreInv, StoreTypeOK
  <2>4. \A d \in Clients : d # c => pc[d] = "idle"
    BY <2>1 DEF OneAtATime, Answer
  <2>5. JobsFollowFile'
    BY <2>2, <2>3 DEF JobsFollowFile, FollowsFile
  <2>6. file \notin Unreadable
    BY <2>1, <2>4 DEF TornWhileOpened, Answer
  <2>7. QED
    BY <2>3, <2>4, <2>5, <2>6 DEF OneAtATime, Owned, TornWhileOpened
<1>3. QED
  BY <1>1, <1>2 DEF StoreInv

LEMMA DeleteKeepsStore ==
    ASSUME StoreInv, NEW c \in Clients, Delete(c)
    PROVE  StoreInv'
<1>1. StoreTypeOK' /\ NothingLeftToDo'
  BY DEF StoreInv, StoreTypeOK, NothingLeftToDo, Delete
<1>2. ASSUME ~disturbed' PROVE OneAtATime' /\ Owned' /\ TornWhileOpened' /\ JobsFollowFile'
  <2>1. \A d \in Clients : pc[d] = "idle"
    BY <1>2 DEF Delete, Quiet
  <2>2. file' = Absent /\ \A d \in Clients : pc'[d] = "idle"
    BY <2>1 DEF Delete
  <2>3. QED
    BY <2>2, ProjectStoreAssumption DEF OneAtATime, Owned, TornWhileOpened, JobsFollowFile, Readable
<1>3. QED
  BY <1>1, <1>2 DEF StoreInv

LEMMA RestartKeepsStore ==
    ASSUME StoreInv, StoreRestart
    PROVE  StoreInv'
<1>1. disturbed' = TRUE
  BY DEF StoreRestart
<1>2. StoreTypeOK' /\ NothingLeftToDo'
  BY DEF StoreInv, StoreTypeOK, NothingLeftToDo, StoreRestart
<1>3. QED
  BY <1>1, <1>2 DEF StoreInv

LEMMA StoreStays ==
    ASSUME StoreInv, UNCHANGED storeVars
    PROVE  StoreInv'
BY DEF storeVars, StoreInv, StoreTypeOK, NothingLeftToDo, OneAtATime, Owned, TornWhileOpened,
       JobsFollowFile, FollowsFile, Quiet, Readable

LEMMA NextKeepsStore ==
    ASSUME StoreInv, StoreNext \/ UNCHANGED storeVars
    PROVE  StoreInv'
<1>1. CASE \E c \in Clients : Read(c) \/ Open(c) \/ Write(c) \/ Register(c) \/ Answer(c) \/ Delete(c)
  BY <1>1, ReadKeepsStore, OpenKeepsStore, WriteKeepsStore, RegisterKeepsStore, AnswerKeepsStore,
     DeleteKeepsStore
<1>2. CASE StoreRestart
  BY <1>2, RestartKeepsStore
<1>3. CASE UNCHANGED storeVars
  BY <1>3, StoreStays
<1>4. QED
  BY <1>1, <1>2, <1>3 DEF StoreNext

-----------------------------------------------------------------------------
(* The firings: what is known of the shapes, and what a step leaves alone. *)

Row == [firing : 1..MaxFirings, attempt : Nat \ {0}, status : Statuses]

RunTypeOK ==
    /\ stage \in [AllFlows -> {"idle", "starting", "sleeping"} \cup Live]
    /\ run \in [AllFlows -> [firing : 0..MaxFirings, plan : Plans, attempt : Nat]]
    /\ rows \in [AllFlows -> Seq(Row)]
    /\ alerts \subseteq 1..MaxFirings /\ firings \in 0..MaxFirings
    /\ abandoned \subseteq 1..MaxFirings

LEMMA TypeOKSplits == TypeOK <=> StoreTypeOK /\ RunTypeOK
BY DEF TypeOK, RunTypeOK, Row, Live

LEMMA FlowTypes ==
    ASSUME RunTypeOK, NEW f \in AllFlows
    PROVE  /\ run[f].firing \in 0..MaxFirings /\ run[f].attempt \in Nat /\ Settings(f).retries \in Nat
           /\ run[f].plan \in Plans
           /\ MaxFirings \in Nat /\ firings \in Nat /\ firings <= MaxFirings
           /\ rows[f] \in Seq(Row) /\ Len(rows[f]) \in Nat
           /\ \A i \in 1..Len(rows[f]) :
                 /\ rows[f][i] \in Row
                 /\ rows[f][i].firing \in 1..MaxFirings /\ rows[f][i].attempt \in Nat \ {0}
<1>1. MaxFirings \in Nat /\ Config \in [Plans -> [retries : Nat, alert : BOOLEAN, calendar : BOOLEAN]]
  BY SchedulerAssumption
<1>2. run[f].firing \in 0..MaxFirings /\ run[f].attempt \in Nat /\ run[f].plan \in Plans
  BY DEF RunTypeOK
<1>3. Settings(f).retries \in Nat
  BY <1>1, <1>2 DEF Settings
<1>4. rows[f] \in Seq(Row) /\ Len(rows[f]) \in Nat /\ \A i \in 1..Len(rows[f]) : rows[f][i] \in Row
  BY DEF RunTypeOK
<1>5. \A r \in Row : r.firing \in 1..MaxFirings /\ r.attempt \in Nat \ {0}
  BY DEF Row
<1>6. QED
  BY <1>1, <1>2, <1>3, <1>4, <1>5 DEF RunTypeOK

\* A flow whose own state stays as it was, while firings go on elsewhere.
LEMMA FlowStays ==
    ASSUME RunTypeOK, NEW f \in AllFlows, FlowInv(f),
           stage'[f] = stage[f], run'[f] = run[f], rows'[f] = rows[f],
           firings' \in Nat, firings' >= firings, abandoned \subseteq abandoned',
           run[f].firing \in alerts' <=> run[f].firing \in alerts
    PROVE  FlowInv(f)'
<1>1. RowsInOrder(f)'
  BY DEF FlowInv, RowsInOrder
<1>2. RunIsLast(f)'
  BY FlowTypes DEF FlowInv, RunIsLast
<1>3. Settings(f)' = Settings(f)
  BY DEF Settings
<1>4. StageFits(f)' /\ AlertFits(f)' /\ OpenRowIsLive(f)'
  BY <1>3 DEF FlowInv, StageFits, AlertFits, OpenRowIsLive
<1>5. QED
  BY <1>1, <1>2, <1>4 DEF FlowInv

LEMMA InitRunsInv == Init => RunsInv
<1> SUFFICES ASSUME Init PROVE RunsInv
  OBVIOUS
<1>1. StoreTypeOK
  BY InitStoreInv DEF Init, StoreInv
<1>2. RunTypeOK
  <2>1. << >> \in Seq(Row) /\ "manual" \in Plans /\ MaxFirings \in Nat
    BY SchedulerAssumption DEF Plans
  <2>2. QED
    BY <2>1 DEF Init, RunTypeOK
<1>3. ASSUME NEW f \in AllFlows PROVE FlowInv(f)
  <2>1. stage[f] = "idle" /\ Len(rows[f]) = 0 /\ run[f].firing = 0 /\ run[f].attempt = 0
    BY DEF Init
  <2>2. alerts = {} /\ firings = 0 /\ "idle" \notin Live
    BY DEF Init, Live
  <2>3. QED
    BY <2>1, <2>2 DEF FlowInv, RowsInOrder, RunIsLast, StageFits, AlertFits, OpenRowIsLive
<1>4. FiringsDiffer
  BY DEF Init, FiringsDiffer
<1>5. QED
  BY <1>1, <1>2, <1>3, <1>4, TypeOKSplits DEF Init, RunsInv

-----------------------------------------------------------------------------
(* The steps of a firing.  Each lemma speaks of the flow that fires; FlowStays of the others. *)

\* A firing begins, or is skipped: its number is new, and all rows of the flow are of older ones.
LEMMA FoundKeepsRuns ==
    ASSUME StoreInv, RunsInv, NEW f \in AllFlows, Found(f),
           NEW s \in {"idle", "starting"}, stage' = [stage EXCEPT ![f] = s]
    PROVE  RunsInv'
<1>1. StoreTypeOK' /\ RunTypeOK
  BY StoreStays, TypeOKSplits DEF Found, Fires, RunsInv, StoreInv
<1>2. /\ stage[f] = "idle" /\ firings < MaxFirings /\ firings' = firings + 1
      /\ UNCHANGED <<rows, alerts, abandoned>>
      /\ run' = [run EXCEPT ![f] = [firing |-> firings + 1, plan |-> file[f], attempt |-> 0]]
  BY DEF Found, Fires
<1>3. file[f] \in Plans
  <2>1. file \in Payloads \cup {Fresh} /\ f \in DOMAIN file
    BY <1>1 DEF Found, Readable, StoreInv, StoreTypeOK
  <2>2. QED
    BY <2>1, ProjectStoreAssumption
<1>4. firings \in 0..MaxFirings /\ MaxFirings \in Nat
  BY <1>1, FlowTypes DEF RunTypeOK
<1>5. /\ run'[f].firing = firings + 1 /\ run'[f].attempt = 0
      /\ \A g \in AllFlows : g # f => run'[g] = run[g] /\ stage'[g] = stage[g]
      /\ stage'[f] = s
  BY <1>1, <1>2 DEF RunTypeOK
<1>6. RunTypeOK'
  BY <1>1, <1>2, <1>3, <1>4 DEF RunTypeOK
<1>7. \A g \in AllFlows : run[g].firing <= firings /\ run[g].firing \in Nat
  BY <1>1, FlowTypes DEF RunsInv, FlowInv, RunIsLast
<1>8. FiringsDiffer'
  BY <1>4, <1>5, <1>7 DEF FiringsDiffer, RunsInv
<1>9. FlowInv(f)'
  <2>1. RowsInOrder(f)'
    BY <1>2 DEF RunsInv, FlowInv, RowsInOrder
  <2>2. RunIsLast(f)'
    <3>1. ASSUME NEW j \in 1..Len(rows[f]) PROVE rows[f][j].firing = run[f].firing \/ rows[f][j].firing < run[f].firing
      <4>1. Len(rows[f]) - run[f].attempt \in Int /\ j \in Int
        BY <1>1, FlowTypes
      <4>2. Len(rows[f]) - run[f].attempt < j \/ j <= Len(rows[f]) - run[f].attempt
        BY <4>1
      <4>3. QED
        BY <4>2 DEF RunsInv, FlowInv, RunIsLast
    <3>2. ASSUME NEW j \in 1..Len(rows[f]) PROVE rows[f][j].firing < firings + 1
      <4>1. rows[f][j].firing \in Nat /\ run[f].firing \in Nat /\ run[f].firing <= firings /\ firings \in Nat
        BY <1>1, <1>7, FlowTypes
      <4>2. QED
        BY <3>1, <4>1
    <3>3. QED
      BY <1>1, <1>2, <1>4, <1>5, <3>2, FlowTypes DEF RunIsLast
  <2>3. StageFits(f)'
    BY <1>4, <1>5 DEF StageFits, Live
  <2>4. AlertFits(f)'
    <3>1. firings + 1 \notin alerts'
      BY <1>2, <1>4 DEF RunsInv
    <3>2. QED
      BY <1>5, <3>1 DEF AlertFits
  <2>5. OpenRowIsLive(f)'
    BY <1>2 DEF RunsInv, FlowInv, OpenRowIsLive, Live
  <2>6. QED
    BY <2>1, <2>2, <2>3, <2>4, <2>5 DEF FlowInv
<1>10. ASSUME NEW g \in AllFlows, g # f PROVE FlowInv(g)'
  BY <1>1, <1>2, <1>4, <1>5, <1>10, FlowStays DEF RunsInv
<1>11. alerts' \subseteq 1..firings'
  BY <1>2, <1>4 DEF RunsInv
<1>12. TypeOK'
  BY <1>1, <1>6 DEF TypeOK, RunTypeOK, Row, Live
<1>13. QED
  BY <1>8, <1>9, <1>10, <1>11, <1>12 DEF RunsInv

\* What is left to show of a step of one firing: the invariant of its own flow.
LEMMA OthersStay ==
    ASSUME StoreInv, RunsInv, NEW f \in AllFlows, UNCHANGED <<storeVars, firings>>, RunTypeOK',
           \A g \in AllFlows : g # f =>
               stage'[g] = stage[g] /\ run'[g] = run[g] /\ rows'[g] = rows[g],
           run'[f].firing = run[f].firing,
           abandoned \subseteq abandoned',
           alerts \subseteq alerts', alerts' \subseteq alerts \cup ({run[f].firing} \ {0}),
           FlowInv(f)'
    PROVE  RunsInv'
<1>1. StoreTypeOK' /\ RunTypeOK /\ FiringsDiffer
  BY StoreStays, TypeOKSplits DEF RunsInv, StoreInv
<1>2. TypeOK'
  BY <1>1 DEF TypeOK, RunTypeOK, Row, Live
<1>3. \A g \in AllFlows : run'[g].firing = run[g].firing
  OBVIOUS
<1>4. FiringsDiffer'
  BY <1>1, <1>3 DEF FiringsDiffer
<1>5. ASSUME NEW g \in AllFlows, g # f PROVE FlowInv(g)'
  <2>1. run[g].firing \in alerts' <=> run[g].firing \in alerts
    BY <1>1, <1>5 DEF FiringsDiffer
  <2>2. firings' = firings /\ firings \in Nat
    BY <1>1, FlowTypes
  <2>3. QED
    BY <1>1, <1>5, <2>1, <2>2, FlowStays DEF RunsInv
<1>6. alerts' \subseteq 1..firings'
  <2>1. run[f].firing \in Nat /\ firings \in Nat /\ run[f].firing <= firings
    BY <1>1, FlowTypes DEF RunsInv, FlowInv, RunIsLast
  <2>2. QED
    BY <2>1 DEF RunsInv
<1>7. QED
  BY <1>2, <1>4, <1>5, <1>6 DEF RunsInv

\* A new row, of the attempt after those made so far.
LEMMA OpenRowKeepsRuns ==
    ASSUME StoreInv, RunsInv, NEW f \in AllFlows, OpenRow(f)
    PROVE  RunsInv'
<1> DEFINE n == Len(rows[f])
           a == run[f].attempt
<1>1. RunTypeOK /\ FlowInv(f)
  BY TypeOKSplits DEF RunsInv
<1>2. /\ stage[f] \in {"starting", "sleeping"}
      /\ run' = [run EXCEPT ![f].attempt = @ + 1]
      /\ rows' = [rows EXCEPT ![f] = Append(@, NewRow(f))]
      /\ stage' = [stage EXCEPT ![f] = "executing"]
      /\ UNCHANGED <<storeVars, alerts, firings, abandoned>>
  BY DEF OpenRow
<1>3. /\ n \in Nat /\ a \in Nat /\ a <= n
      /\ run[f].firing \in 1..MaxFirings /\ MaxFirings \in Nat /\ Settings(f).retries \in Nat
  BY <1>1, <1>2, FlowTypes DEF FlowInv, RunIsLast, StageFits
<1>4. NewRow(f) \in Row /\ NewRow(f).firing = run[f].firing /\ NewRow(f).attempt = a + 1
      /\ NewRow(f).status = "running"
  BY <1>3 DEF NewRow, Row, Statuses
<1>5. rows'[f] = Append(rows[f], NewRow(f))
  BY <1>1, <1>2 DEF RunTypeOK
<1>6. /\ Len(rows'[f]) = n + 1 /\ rows'[f][n + 1] = NewRow(f)
      /\ \A j \in 1..n : rows'[f][j] = rows[f][j]
  BY <1>1, <1>4, <1>5, FlowTypes
<1>7. run'[f].attempt = a + 1 /\ run'[f].firing = run[f].firing /\ run'[f].plan = run[f].plan
      /\ stage'[f] = "executing"
  BY <1>1, <1>2 DEF RunTypeOK
<1>8. RunTypeOK'
  <2>1. rows' \in [AllFlows -> Seq(Row)]
    <3>1. Append(rows[f], NewRow(f)) \in Seq(Row)
      BY <1>1, <1>4 DEF RunTypeOK
    <3>2. QED
      BY <1>1, <1>2, <3>1 DEF RunTypeOK
  <2>2. run' \in [AllFlows -> [firing : 0..MaxFirings, plan : Plans, attempt : Nat]]
    <3> DEFINE w == [run[f] EXCEPT !.attempt = a + 1]
    <3>1. run[f] \in [firing : 0..MaxFirings, plan : Plans, attempt : Nat] /\ a + 1 \in Nat
      BY <1>1, <1>3 DEF RunTypeOK
    <3>2. w \in [firing : 0..MaxFirings, plan : Plans, attempt : Nat]
      BY <3>1
    <3>3. run' = [run EXCEPT ![f] = w]
      BY <1>1, <1>2 DEF RunTypeOK
    <3> HIDE DEF w
    <3>4. QED
      BY <1>1, <3>2, <3>3 DEF RunTypeOK
  <2>3. QED
    BY <1>1, <1>2, <2>1, <2>2 DEF RunTypeOK, Live
<1> HIDE DEF n, a
<1>9. \A j \in 1..(n + 1) :
         /\ (n + 1) - (a + 1) < j => rows'[f][j].firing = run[f].firing
         /\ j <= (n + 1) - (a + 1) => rows'[f][j].firing < run[f].firing
  <2>1. (n + 1) - (a + 1) = n - a /\ n - a < n + 1
    BY <1>3
  <2>2. \A j \in 1..n : /\ n - a < j => rows[f][j].firing = run[f].firing
                        /\ j <= n - a => rows[f][j].firing < run[f].firing
    BY <1>1 DEF FlowInv, RunIsLast, n, a
  <2>3. \A j \in 1..(n + 1) : j = n + 1 \/ (j \in 1..n /\ rows'[f][j] = rows[f][j])
    BY <1>3, <1>6
  <2>4. rows'[f][n + 1].firing = run[f].firing /\ ~(n + 1 <= n - a)
    BY <1>3, <1>4, <1>6
  <2>5. QED
    BY <2>1, <2>2, <2>3, <2>4
<1>10. RowsInOrder(f)'
  <2>1. ASSUME NEW i \in 1..n
        PROVE  /\ rows'[f][i].attempt <= i
               /\ \A j \in 1..i :
                     /\ i - rows'[f][i].attempt < j => rows'[f][j].firing = rows'[f][i].firing
                     /\ j <= i - rows'[f][i].attempt => rows'[f][j].firing < rows'[f][i].firing
               /\ rows'[f][i].attempt > 1 => rows'[f][i - 1].status = "error"
    <3>1. \A j \in 1..i : rows'[f][j] = rows[f][j]
      BY <1>3, <1>6
    <3>2. rows[f][i].attempt > 1 => i - 1 \in 1..i
      BY <1>1, <1>3, FlowTypes DEF FlowInv, RowsInOrder, n
    <3>3. QED
      <4>1. /\ rows[f][i].attempt <= i
            /\ \A j \in 1..i :
                  /\ i - rows[f][i].attempt < j => rows[f][j].firing = rows[f][i].firing
                  /\ j <= i - rows[f][i].attempt => rows[f][j].firing < rows[f][i].firing
            /\ rows[f][i].attempt > 1 => rows[f][i - 1].status = "error"
        BY <1>1 DEF FlowInv, RowsInOrder, n
      <4>2. rows'[f][i] = rows[f][i] /\ (rows[f][i].attempt > 1 => rows'[f][i - 1] = rows[f][i - 1])
        BY <3>1, <3>2
      <4>3. QED
        BY <3>1, <4>1, <4>2
  <2>2. /\ a + 1 <= n + 1
        /\ \A j \in 1..(n + 1) :
              /\ (n + 1) - (a + 1) < j => rows'[f][j].firing = run[f].firing
              /\ j <= (n + 1) - (a + 1) => rows'[f][j].firing < run[f].firing
    BY <1>3, <1>9
  <2>3. a + 1 > 1 => rows'[f][n].status = "error"
    BY <1>1, <1>2, <1>3, <1>6 DEF FlowInv, StageFits, n, a
  <2>4. \A i \in 1..(n + 1) : i \in 1..n \/ i = n + 1
    BY <1>3
  <2>5. QED
    BY <1>3, <1>4, <1>6, <2>1, <2>2, <2>3, <2>4 DEF RowsInOrder
<1>11. RunIsLast(f)'
  <2>2. \A j \in 1..(n + 1) : (n + 1) - (a + 1) < j /\ j < n + 1 => rows'[f][j].status = "error"
    <3>0. /\ (n + 1) - (a + 1) = n - a
          /\ \A j \in 1..(n + 1) : j < n + 1 => j \in 1..n
      BY <1>3
    <3>1. SUFFICES ASSUME NEW j \in 1..n, n - a < j PROVE rows[f][j].status = "error"
      BY <1>6, <3>0
    <3>2. CASE j < n
      BY <1>1, <3>1, <3>2 DEF FlowInv, RunIsLast, n, a
    <3>3. CASE j = n
      BY <1>1, <1>2, <1>3, <3>1, <3>3 DEF FlowInv, StageFits, n, a
    <3>4. QED
      BY <1>3, <3>2, <3>3
  <2>3. run[f].firing <= firings' /\ a + 1 <= n + 1
    BY <1>1, <1>2, <1>3 DEF FlowInv, RunIsLast
  <2>4. QED
    BY <1>6, <1>7, <1>9, <2>2, <2>3 DEF RunIsLast
<1>12. StageFits(f)'
  <2>1. a <= Settings(f).retries /\ Settings(f)' = Settings(f)
    BY <1>1, <1>2, <1>3, <1>7 DEF FlowInv, StageFits, Settings, a
  <2>2. run[f].firing > 0 /\ a + 1 \in 1..(Settings(f).retries + 1)
    BY <1>3, <2>1
  <2>3. QED
    BY <1>4, <1>6, <1>7, <2>1, <2>2 DEF StageFits, Live
<1>13. AlertFits(f)'
  BY <1>1, <1>2, <1>7 DEF FlowInv, AlertFits
<1>14. OpenRowIsLive(f)'
  <2>1. \A i \in 1..n : rows[f][i].status = "running" => rows[f][i].firing \in abandoned
    BY <1>1, <1>2 DEF FlowInv, OpenRowIsLive, n, Live
  <2>2. QED
    BY <1>2, <1>3, <1>6, <1>7, <2>1 DEF OpenRowIsLive, Live
<1>15. FlowInv(f)'
  BY <1>10, <1>11, <1>12, <1>13, <1>14 DEF FlowInv
<1>16. \A g \in AllFlows : g # f => stage'[g] = stage[g] /\ run'[g] = run[g] /\ rows'[g] = rows[g]
  BY <1>1, <1>2 DEF RunTypeOK
<1>17. QED
  BY <1>2, <1>7, <1>8, <1>15, <1>16, OthersStay

LEMMA ExecuteKeepsRuns ==
    ASSUME StoreInv, RunsInv, NEW f \in AllFlows, Execute(f)
    PROVE  RunsInv'
<1>1. RunTypeOK /\ FlowInv(f)
  BY TypeOKSplits DEF RunsInv
<1>2. PICK s \in {"ok", "stopped", "error"} : stage' = [stage EXCEPT ![f] = s]
  BY DEF Execute
<1>3. stage[f] = "executing" /\ UNCHANGED <<storeVars, run, rows, alerts, firings, abandoned>>
  BY DEF Execute
<1>4. RunTypeOK' /\ stage'[f] \in Live /\ stage'[f] = s
  BY <1>1, <1>2, <1>3 DEF RunTypeOK, Live
<1>5. FlowInv(f)'
  <2>1. RowsInOrder(f)' /\ RunIsLast(f)' /\ Settings(f)' = Settings(f)
    BY <1>1, <1>3 DEF FlowInv, RowsInOrder, RunIsLast, Settings
  <2>2. StageFits(f)' /\ AlertFits(f)' /\ OpenRowIsLive(f)'
    BY <1>1, <1>3, <1>4, <2>1 DEF FlowInv, StageFits, AlertFits, OpenRowIsLive, Live
  <2>3. QED
    BY <2>1, <2>2 DEF FlowInv
<1>6. \A g \in AllFlows : g # f => stage'[g] = stage[g] /\ run'[g] = run[g] /\ rows'[g] = rows[g]
  BY <1>1, <1>2, <1>3 DEF RunTypeOK
<1>7. QED
  BY <1>3, <1>4, <1>5, <1>6, OthersStay

\* The status of the last row changes, from "running" to what execute_flow came to.
LEMMA SettledRow ==
    ASSUME RunsInv, NEW f \in AllFlows, stage[f] \in {"ok", "stopped", "error"}, Settled(f),
           run' = run, firings' = firings
    PROVE  /\ rows' \in [AllFlows -> Seq(Row)]
           /\ Len(rows'[f]) = Len(rows[f]) /\ Len(rows[f]) \in Nat \ {0}
           /\ rows'[f][Len(rows[f])].status = stage[f]
           /\ rows[f][Len(rows[f])].firing = run[f].firing
           /\ \A j \in 1..Len(rows[f]) :
                 /\ rows'[f][j].firing = rows[f][j].firing
                 /\ j # Len(rows[f]) => rows'[f][j] = rows[f][j]
           /\ \A g \in AllFlows : g # f => rows'[g] = rows[g]
           /\ RowsInOrder(f)' /\ RunIsLast(f)'
<1> DEFINE n == Len(rows[f])
           w == [rows[f][n] EXCEPT !.status = stage[f]]
<1>1. RunTypeOK /\ FlowInv(f)
  BY TypeOKSplits DEF RunsInv
<1>2. n \in Nat \ {0} /\ n \in 1..n
  BY <1>1, FlowTypes DEF FlowInv, StageFits, RunIsLast, Live
<1>3. rows[f] \in Seq(Row) /\ rows[f][n] \in Row
  BY <1>1, <1>2, FlowTypes
<1>4. w \in Row /\ w.status = stage[f] /\ w.firing = rows[f][n].firing /\ w.attempt = rows[f][n].attempt
  BY <1>3 DEF Row, Statuses
<1>5. rows' = [rows EXCEPT ![f] = [rows[f] EXCEPT ![n] = w]]
  BY <1>1 DEF Settled, RunTypeOK
<1> HIDE DEF w
<1>6. /\ [rows[f] EXCEPT ![n] = w] \in Seq(Row) /\ Len([rows[f] EXCEPT ![n] = w]) = n
      /\ \A j \in 1..n : [rows[f] EXCEPT ![n] = w][j] = IF j = n THEN w ELSE rows[f][j]
  BY <1>2, <1>3, <1>4
<1>7. rows'[f] = [rows[f] EXCEPT ![n] = w] /\ \A g \in AllFlows : g # f => rows'[g] = rows[g]
  BY <1>1, <1>5 DEF RunTypeOK
<1>8. rows' \in [AllFlows -> Seq(Row)]
  BY <1>1, <1>5, <1>6 DEF RunTypeOK
<1>9. Len(rows'[f]) = n /\ \A j \in 1..n : rows'[f][j] = IF j = n THEN w ELSE rows[f][j]
  BY <1>6, <1>7
<1>10. \A j \in 1..n : /\ rows'[f][j].firing = rows[f][j].firing /\ rows'[f][j].attempt = rows[f][j].attempt
                       /\ j # n => rows'[f][j] = rows[f][j]
  BY <1>4, <1>9
<1>11. rows[f][n].firing = run[f].firing
  BY <1>1, <1>2, FlowTypes DEF FlowInv, RunIsLast, StageFits, Live
<1> HIDE DEF n
<1>12. RowsInOrder(f)'
  <2>1. ASSUME NEW i \in 1..n
        PROVE  /\ rows'[f][i].attempt <= i
               /\ \A j \in 1..i :
                     /\ i - rows'[f][i].attempt < j => rows'[f][j].firing = rows'[f][i].firing
                     /\ j <= i - rows'[f][i].attempt => rows'[f][j].firing < rows'[f][i].firing
               /\ rows'[f][i].attempt > 1 => rows'[f][i - 1].status = "error"
    <3>1. /\ rows[f][i].attempt <= i /\ rows[f][i].attempt \in Nat
          /\ \A j \in 1..i :
                /\ i - rows[f][i].attempt < j => rows[f][j].firing = rows[f][i].firing
                /\ j <= i - rows[f][i].attempt => rows[f][j].firing < rows[f][i].firing
          /\ rows[f][i].attempt > 1 => rows[f][i - 1].status = "error"
      BY <1>1, FlowTypes DEF FlowInv, RowsInOrder, n
    <3>2. \A j \in 1..i : j \in 1..n
      BY <1>2
    <3>3. rows[f][i].attempt > 1 => i - 1 \in 1..n /\ i - 1 # n
      BY <1>2, <3>1
    <3>4. QED
      BY <1>10, <3>1, <3>2, <3>3
  <2>2. QED
    BY <1>9, <2>1 DEF RowsInOrder
<1>13. RunIsLast(f)'
  <2>1. /\ run[f].firing <= firings /\ run[f].attempt <= n
        /\ \A j \in 1..n :
              /\ n - run[f].attempt < j => rows[f][j].firing = run[f].firing
              /\ j <= n - run[f].attempt => rows[f][j].firing < run[f].firing
              /\ n - run[f].attempt < j /\ j < n => rows[f][j].status = "error"
    BY <1>1 DEF FlowInv, RunIsLast, n
  <2>2. \A j \in 1..n : j < n => j # n
    BY <1>2
  <2>3. QED
    BY <1>9, <1>10, <2>1, <2>2 DEF RunIsLast
<1>14. QED
  BY <1>2, <1>4, <1>7, <1>8, <1>9, <1>10, <1>11, <1>12, <1>13 DEF n

\* An attempt is over, and another follows, or the firing ends, with an alert or without one.
LEMMA SettleKeepsRuns ==
    ASSUME StoreInv, RunsInv, NEW f \in AllFlows, Succeed(f) \/ Retry(f) \/ Fail(f)
    PROVE  RunsInv'
<1> DEFINE n == Len(rows[f])
           a == run[f].attempt
<1>1. RunTypeOK /\ FlowInv(f) /\ alerts \subseteq 1..firings
  BY TypeOKSplits DEF RunsInv
<1>2. /\ stage[f] \in {"ok", "stopped", "error"} /\ Settled(f)
      /\ UNCHANGED <<storeVars, run, firings, abandoned>>
  BY DEF Succeed, Retry, Fail
<1>3. /\ rows' \in [AllFlows -> Seq(Row)]
      /\ Len(rows'[f]) = n /\ n \in Nat \ {0} /\ rows'[f][n].status = stage[f]
      /\ \A j \in 1..n : rows'[f][j].firing = rows[f][j].firing /\ (j # n => rows'[f][j] = rows[f][j])
      /\ \A g \in AllFlows : g # f => rows'[g] = rows[g]
      /\ RowsInOrder(f)' /\ RunIsLast(f)'
  BY <1>1, <1>2, SettledRow
<1>4. /\ a \in 1..(Settings(f).retries + 1) /\ Settings(f).retries \in Nat
      /\ run[f].firing > 0 /\ run[f].firing \in 1..MaxFirings
  BY <1>1, <1>2, FlowTypes DEF FlowInv, StageFits, Live
<1>5. run[f].firing \notin alerts
  BY <1>1, <1>2 DEF FlowInv, AlertFits
<1>6. Settings(f)' = Settings(f)
  BY <1>2 DEF Settings
<1> HIDE DEF n, a
<1>7. ASSUME stage'[f] \in {"idle", "sleeping"} PROVE OpenRowIsLive(f)'
  <2>1. \A i \in 1..n : i # n /\ rows[f][i].status = "running" => rows[f][i].firing \in abandoned
    BY <1>1 DEF FlowInv, OpenRowIsLive, n
  <2>2. QED
    BY <1>2, <1>3, <2>1 DEF OpenRowIsLive
<1>8. CASE Succeed(f)
  <2>1. stage[f] # "error" /\ stage' = [stage EXCEPT ![f] = "idle"] /\ alerts' = alerts
    BY <1>8 DEF Succeed, End
  <2>2. stage'[f] = "idle" /\ RunTypeOK' /\ \A g \in AllFlows : g # f => stage'[g] = stage[g]
    BY <1>1, <1>2, <1>3, <2>1 DEF RunTypeOK
  <2>3. StageFits(f)' /\ AlertFits(f)'
    BY <1>2, <1>3, <1>5, <2>1, <2>2 DEF StageFits, AlertFits, FlowInv, Live, n, a
  <2>4. FlowInv(f)'
    BY <1>3, <1>7, <2>2, <2>3 DEF FlowInv
  <2>5. QED
    BY <1>2, <1>3, <2>1, <2>2, <2>4, OthersStay
<1>9. CASE Retry(f)
  <2>1. stage[f] = "error" /\ a <= Settings(f).retries /\ alerts' = alerts
        /\ stage' = [stage EXCEPT ![f] = "sleeping"]
    BY <1>9 DEF Retry, a
  <2>2. stage'[f] = "sleeping" /\ RunTypeOK' /\ \A g \in AllFlows : g # f => stage'[g] = stage[g]
    BY <1>1, <1>2, <1>3, <2>1 DEF RunTypeOK
  <2>3. a \in 1..Settings(f).retries
    BY <1>4, <2>1
  <2>4. StageFits(f)' /\ AlertFits(f)'
    BY <1>2, <1>3, <1>4, <1>5, <1>6, <2>1, <2>2, <2>3 DEF StageFits, AlertFits, Live, a
  <2>5. FlowInv(f)'
    BY <1>3, <1>7, <2>2, <2>4 DEF FlowInv
  <2>6. QED
    BY <1>2, <1>3, <2>1, <2>2, <2>5, OthersStay
<1>10. CASE Fail(f)
  <2>1. stage[f] = "error" /\ a > Settings(f).retries /\ alerts' = Alerted(f)
        /\ stage' = [stage EXCEPT ![f] = "idle"]
    BY <1>10 DEF Fail, End, a
  <2>2. /\ alerts \subseteq alerts' /\ alerts' \subseteq alerts \cup ({run[f].firing} \ {0})
        /\ run[f].firing \in alerts' <=> Settings(f).alert
    BY <1>4, <1>5, <2>1 DEF Alerted
  <2>3. stage'[f] = "idle" /\ \A g \in AllFlows : g # f => stage'[g] = stage[g]
    BY <1>1, <2>1 DEF RunTypeOK
  <2>4. RunTypeOK'
    BY <1>1, <1>2, <1>3, <1>4, <2>1, <2>2 DEF RunTypeOK
  <2>5. a = Settings(f).retries + 1
    BY <1>4, <2>1
  <2>6. StageFits(f)' /\ AlertFits(f)'
    BY <1>2, <1>3, <1>6, <2>1, <2>2, <2>3, <2>5 DEF StageFits, AlertFits, Live, a
  <2>7. FlowInv(f)'
    BY <1>3, <1>7, <2>3, <2>6 DEF FlowInv
  <2>8. QED
    BY <1>2, <1>3, <2>2, <2>3, <2>4, <2>7, OthersStay
<1>11. QED
  BY <1>8, <1>9, <1>10

\* A firing that is cut short leaves its open row behind, and is known to be cut short.
LEMMA CutShort ==
    ASSUME RunsInv, NEW f \in AllFlows, stage'[f] = "idle", UNCHANGED <<run, rows, alerts, firings>>,
           abandoned \subseteq abandoned',
           stage[f] # "idle" => run[f].firing \in abandoned'
    PROVE  FlowInv(f)'
<1>1. RunTypeOK /\ FlowInv(f)
  BY TypeOKSplits DEF RunsInv
<1>2. RowsInOrder(f)' /\ RunIsLast(f)' /\ Settings(f)' = Settings(f)
  BY <1>1 DEF FlowInv, RowsInOrder, RunIsLast, Settings
<1>3. StageFits(f)' /\ AlertFits(f)'
  BY <1>1, <1>2 DEF FlowInv, StageFits, AlertFits, Live
<1>4. OpenRowIsLive(f)'
  <2>1. ASSUME stage[f] \in Live PROVE rows[f][Len(rows[f])].firing \in abandoned'
    <3>1. run[f].attempt \in Nat \ {0} /\ run[f].attempt <= Len(rows[f]) /\ Len(rows[f]) \in Nat
      BY <1>1, <2>1, FlowTypes DEF FlowInv, StageFits, RunIsLast
    <3>2. rows[f][Len(rows[f])].firing = run[f].firing
      BY <1>1, <3>1 DEF FlowInv, RunIsLast
    <3>3. QED
      BY <2>1, <3>2 DEF Live
  <2>2. QED
    BY <1>1, <2>1 DEF FlowInv, OpenRowIsLive
<1>5. QED
  BY <1>2, <1>3, <1>4 DEF FlowInv

LEMMA RecordFailsKeepsRuns ==
    ASSUME StoreInv, RunsInv, NEW f \in AllFlows, RecordFails(f)
    PROVE  RunsInv'
<1>1. RunTypeOK /\ FlowInv(f)
  BY TypeOKSplits DEF RunsInv
<1>2. /\ stage[f] # "idle" /\ stage' = [stage EXCEPT ![f] = "idle"]
      /\ abandoned' = abandoned \cup {run[f].firing}
      /\ UNCHANGED <<storeVars, run, rows, alerts, firings>>
  BY DEF RecordFails, End
<1>3. run[f].firing \in 1..MaxFirings
  BY <1>1, <1>2, FlowTypes DEF FlowInv, StageFits
<1>4. RunTypeOK' /\ stage'[f] = "idle"
      /\ \A g \in AllFlows : g # f => stage'[g] = stage[g] /\ run'[g] = run[g] /\ rows'[g] = rows[g]
  BY <1>1, <1>2, <1>3 DEF RunTypeOK
<1>5. FlowInv(f)'
  BY <1>2, <1>4, CutShort
<1>6. QED
  BY <1>2, <1>4, <1>5, OthersStay

LEMMA RestartKeepsRuns ==
    ASSUME StoreInv, RunsInv, Restart
    PROVE  RunsInv'
<1>1. RunTypeOK /\ \A f \in AllFlows : FlowInv(f)
  BY TypeOKSplits DEF RunsInv
<1>2. StoreTypeOK'
  BY RestartKeepsStore DEF Restart, StoreInv
<1>3. /\ stage' = [f \in AllFlows |-> "idle"]
      /\ abandoned' = abandoned \cup {run[f].firing : f \in {g \in AllFlows : stage[g] # "idle"}}
      /\ UNCHANGED <<run, rows, alerts, firings>>
  BY DEF Restart
<1>4. \A f \in AllFlows : stage[f] # "idle" => run[f].firing \in 1..MaxFirings
  BY <1>1, FlowTypes DEF FlowInv, StageFits
<1>5. abandoned' \subseteq 1..MaxFirings
  BY <1>1, <1>3, <1>4 DEF RunTypeOK
<1>6. TypeOK'
  <2>1. RunTypeOK'
    BY <1>1, <1>3, <1>5 DEF RunTypeOK
  <2>2. QED
    BY <1>2, <2>1 DEF TypeOK, RunTypeOK, Row, Live
<1>7. ASSUME NEW f \in AllFlows PROVE FlowInv(f)'
  <2>1. stage'[f] = "idle" /\ abandoned \subseteq abandoned'
    BY <1>3
  <2>2. stage[f] # "idle" => run[f].firing \in abandoned'
    BY <1>3
  <2>3. QED
    BY <1>3, <2>1, <2>2, CutShort
<1>8. FiringsDiffer' /\ alerts' \subseteq 1..firings'
  BY <1>3 DEF RunsInv, FiringsDiffer
<1>9. QED
  BY <1>6, <1>7, <1>8 DEF RunsInv

LEMMA RunsStay ==
    ASSUME RunsInv, StoreTypeOK', UNCHANGED <<stage, run, rows, alerts, abandoned>>,
           firings' = firings \/ (firings < MaxFirings /\ firings' = firings + 1)
    PROVE  RunsInv'
<1>1. RunTypeOK /\ firings \in 0..MaxFirings /\ MaxFirings \in Nat
  BY TypeOKSplits, SchedulerAssumption DEF RunsInv, RunTypeOK
<1>2. firings' \in 0..MaxFirings /\ firings' >= firings
  BY <1>1
<1>3. TypeOK'
  <2>1. RunTypeOK'
    BY <1>1, <1>2 DEF RunTypeOK
  <2>2. QED
    BY <2>1 DEF TypeOK, RunTypeOK, Row, Live
<1>4. ASSUME NEW f \in AllFlows PROVE FlowInv(f)'
  BY <1>1, <1>2, FlowStays DEF RunsInv
<1>5. FiringsDiffer' /\ alerts' \subseteq 1..firings'
  BY <1>1, <1>2 DEF RunsInv, FiringsDiffer
<1>6. QED
  BY <1>3, <1>4, <1>5 DEF RunsInv

LEMMA NextKeepsInv ==
    ASSUME StoreInv, RunsInv, [Next]_vars
    PROVE  StoreInv' /\ RunsInv'
<1>1. CASE StoreStep
  <2>1. StoreInv'
    BY <1>1, NextKeepsStore DEF StoreStep
  <2>2. RunsInv'
    BY <1>1, <2>1, RunsStay DEF StoreStep, runVars, StoreInv
  <2>3. QED
    BY <2>1, <2>2
<1>2. CASE Restart
  <2>1. StoreInv'
    BY <1>2, RestartKeepsStore DEF Restart
  <2>2. QED
    BY <1>2, <2>1, RestartKeepsRuns
<1>3. ASSUME NEW f \in AllFlows,
             FireRaises(f) \/ FireNotFound(f) \/ FireSkipped(f) \/ Fire(f) \/ Work(f) \/ RecordFails(f)
      PROVE  StoreInv' /\ RunsInv'
  <2>1. UNCHANGED storeVars
    BY <1>3 DEF FireRaises, FireNotFound, FireSkipped, Fire, Found, Fires, Work, OpenRow, Execute,
                Succeed, Retry, Fail, RecordFails
  <2>2. StoreInv'
    BY <2>1, StoreStays
  <2>3. CASE FireRaises(f) \/ FireNotFound(f)
    BY <2>2, <2>3, RunsStay DEF FireRaises, FireNotFound, Fires, StoreInv
  <2>4. CASE FireSkipped(f)
    <3>1. stage' = [stage EXCEPT ![f] = "idle"]
      <4>1. stage' = stage /\ stage[f] = "idle"
        BY <2>4 DEF FireSkipped, Found, Fires
      <4>2. RunTypeOK
        BY TypeOKSplits DEF RunsInv
      <4>3. QED
        BY <4>1, <4>2 DEF RunTypeOK
    <3>2. Found(f)
      BY <2>4 DEF FireSkipped
    <3>3. QED
      BY <2>2, <3>1, <3>2, FoundKeepsRuns
  <2>5. CASE Fire(f)
    BY <2>2, <2>5, FoundKeepsRuns DEF Fire
  <2>6. CASE OpenRow(f)
    BY <2>2, <2>6, OpenRowKeepsRuns
  <2>7. CASE Execute(f)
    BY <2>2, <2>7, ExecuteKeepsRuns
  <2>8. CASE Succeed(f) \/ Retry(f) \/ Fail(f)
    BY <2>2, <2>8, SettleKeepsRuns
  <2>9. CASE RecordFails(f)
    BY <2>2, <2>9, RecordFailsKeepsRuns
  <2>10. QED
    BY <1>3, <2>3, <2>4, <2>5, <2>6, <2>7, <2>8, <2>9 DEF Work
<1>4. CASE UNCHANGED vars
  <2>1. StoreInv'
    BY <1>4, StoreStays DEF vars
  <2>2. RunsInv'
    BY <1>4, <2>1, RunsStay DEF vars, runVars, StoreInv
  <2>3. QED
    BY <2>1, <2>2
<1>5. QED
  BY <1>1, <1>2, <1>3, <1>4 DEF Next

LEMMA AlwaysInv == Spec => [](StoreInv /\ RunsInv)
<1>1. Init => StoreInv /\ RunsInv
  BY InitStoreInv, InitRunsInv DEF Init
<1>2. StoreInv /\ RunsInv /\ [Next]_vars => (StoreInv /\ RunsInv)'
  BY NextKeepsInv
<1>3. QED
  BY <1>1, <1>2, PTL DEF Spec

-----------------------------------------------------------------------------
(* What follows from the invariants. *)

LEMMA InvSavedAndScheduled == StoreInv => SavedAndScheduled
<1> SUFFICES ASSUME StoreInv PROVE SavedAndScheduled
  OBVIOUS
<1>1. JobsFollowFileInSequence
  BY DEF StoreInv, JobsFollowFileInSequence
<1>2. WholeUnlessDisturbed
  BY DEF StoreInv, WholeUnlessDisturbed, TornWhileOpened, Quiet
<1>3. QED
  BY <1>1, <1>2 DEF SavedAndScheduled

LEMMA LastOnes ==
    ASSUME NEW n \in Nat, NEW k \in Nat \ {0}, k <= n
    PROVE  Cardinality((n - k + 1)..n) = k
<1>1. n - k + 1 \in Int /\ n \in Int /\ ~(n - k + 1 > n) /\ n - (n - k + 1) + 1 = k
  OBVIOUS
<1> DEFINE m == n - k + 1
<1> HIDE DEF m
<1>2. Cardinality(m..n) = IF m > n THEN 0 ELSE n - m + 1
  BY <1>1, FS_Interval DEF m
<1>3. QED
  BY <1>1, <1>2 DEF m

LEMMA InvRowsTellFirings == RunsInv => RowsTellFirings
<1> SUFFICES ASSUME RunsInv PROVE RowsTellFirings
  OBVIOUS
<1>1. RunTypeOK
  BY TypeOKSplits DEF RunsInv
<1>2. ASSUME NEW f \in AllFlows PROVE DOMAIN rows[f] = 1..Len(rows[f])
  BY <1>1, <1>2, FlowTypes
<1>3. ASSUME NEW f \in AllFlows, NEW i \in 1..Len(rows[f])
      PROVE  /\ rows[f][i].attempt = Cardinality({j \in RowsOf(f, rows[f][i].firing) : j <= i})
             /\ rows[f][i].attempt > 1 => rows[f][i - 1].status = "error"
  <2> DEFINE k == rows[f][i].attempt
  <2>1. k \in Nat \ {0} /\ i \in Nat /\ Len(rows[f]) \in Nat
        /\ \A j \in 1..i : j \in 1..Len(rows[f]) /\ rows[f][j].firing \in Nat
    BY <1>1, FlowTypes
  <2>2. /\ k <= i
        /\ \A j \in 1..i : /\ i - k < j => rows[f][j].firing = rows[f][i].firing
                           /\ j <= i - k => rows[f][j].firing < rows[f][i].firing
        /\ k > 1 => rows[f][i - 1].status = "error"
    BY DEF RunsInv, FlowInv, RowsInOrder
  <2> HIDE DEF k
  <2>3. {j \in RowsOf(f, rows[f][i].firing) : j <= i} = {j \in 1..i : rows[f][j].firing = rows[f][i].firing}
    BY <1>2, <2>1 DEF RowsOf
  <2>4. \A j \in 1..i : rows[f][j].firing = rows[f][i].firing <=> i - k + 1 <= j
    BY <2>1, <2>2
  <2>5. {j \in 1..i : rows[f][j].firing = rows[f][i].firing} = (i - k + 1)..i
    <3>1. {j \in 1..i : i - k + 1 <= j} = (i - k + 1)..i
      BY <2>1, <2>2
    <3>2. QED
      BY <2>4, <3>1
  <2>6. Cardinality((i - k + 1)..i) = k
    BY <2>1, <2>2, LastOnes
  <2>7. QED
    BY <2>2, <2>3, <2>5, <2>6 DEF k
<1>4. RowsAreAttempts
  BY <1>2, <1>3 DEF RowsAreAttempts
<1>5. OpenRowsAreLive
  BY <1>2 DEF RunsInv, FlowInv, OpenRowIsLive, OpenRowsAreLive, Live
<1>6. QED
  BY <1>4, <1>5 DEF RowsTellFirings

LEMMA InvAlertsTellFailures == RunsInv => AlertsTellFailures
<1> SUFFICES ASSUME RunsInv, NEW f \in AllFlows
             PROVE  /\ run[f].firing \in alerts =>
                          /\ stage[f] = "idle"
                          /\ Cardinality(RowsOf(f, run[f].firing)) = Settings(f).retries + 1
                          /\ \A i \in RowsOf(f, run[f].firing) : rows[f][i].status = "error"
                    /\ stage[f] = "idle" /\ Settings(f).alert /\ run[f].firing \notin abandoned =>
                          \A i \in RowsOf(f, run[f].firing) :
                             i = Len(rows[f]) /\ rows[f][i].status = "error" => run[f].firing \in alerts
  BY DEF AlertsTellFailures, AlertsAreFinal, FailuresAreAlerted
<1> DEFINE n == Len(rows[f])
           a == run[f].attempt
<1>1. RunTypeOK /\ FlowInv(f)
  BY TypeOKSplits DEF RunsInv
<1>2. /\ n \in Nat /\ a \in Nat /\ run[f].firing \in Nat /\ Settings(f).retries \in Nat
      /\ DOMAIN rows[f] = 1..n /\ \A j \in 1..n : rows[f][j].firing \in Nat
  BY <1>1, FlowTypes
<1>3. /\ a <= n
      /\ \A j \in 1..n : /\ n - a < j => rows[f][j].firing = run[f].firing
                         /\ j <= n - a => rows[f][j].firing < run[f].firing
                         /\ n - a < j /\ j < n => rows[f][j].status = "error"
  BY <1>1 DEF FlowInv, RunIsLast
<1> HIDE DEF n, a
<1>4. RowsOf(f, run[f].firing) = (n - a + 1)..n
  <2>1. \A j \in 1..n : rows[f][j].firing = run[f].firing <=> n - a + 1 <= j
    BY <1>2, <1>3
  <2>2. RowsOf(f, run[f].firing) = {j \in 1..n : rows[f][j].firing = run[f].firing}
    BY <1>2 DEF RowsOf
  <2>3. {j \in 1..n : n - a + 1 <= j} = (n - a + 1)..n
    BY <1>2, <1>3
  <2>4. QED
    BY <2>1, <2>2, <2>3
<1>5. ASSUME run[f].firing \in alerts
      PROVE  /\ stage[f] = "idle"
             /\ Cardinality(RowsOf(f, run[f].firing)) = Settings(f).retries + 1
             /\ \A i \in RowsOf(f, run[f].firing) : rows[f][i].status = "error"
  <2>1. stage[f] = "idle" /\ a = Settings(f).retries + 1 /\ rows[f][n].status = "error"
    BY <1>1, <1>5 DEF FlowInv, AlertFits, n, a
  <2>2. Cardinality((n - a + 1)..n) = a
    BY <1>2, <1>3, <2>1, LastOnes
  <2>3. ASSUME NEW i \in (n - a + 1)..n PROVE rows[f][i].status = "error"
    <3>1. i \in 1..n /\ n - a < i /\ (i < n \/ i = n)
      BY <1>2, <1>3
    <3>2. QED
      BY <1>3, <2>1, <3>1
  <2>4. QED
    BY <1>4, <2>1, <2>2, <2>3
<1>6. ASSUME stage[f] = "idle", Settings(f).alert, run[f].firing \notin abandoned,
             NEW i \in RowsOf(f, run[f].firing), i = n, rows[f][i].status = "error"
      PROVE  run[f].firing \in alerts
  <2>1. a > 0
    BY <1>2, <1>3, <1>4, <1>6
  <2>2. QED
    BY <1>1, <1>6, <2>1 DEF FlowInv, AlertFits, n, a
<1>7. QED
  BY <1>5, <1>6 DEF n

-----------------------------------------------------------------------------
(* save_project and delete_project: while requests come one after the other and the backend is
   not restarted, the file is whole and the jobs are those it asks for. *)
THEOREM JobsFollowWhatIsSaved == Spec => []SavedAndScheduled
<1>1. StoreInv /\ RunsInv => SavedAndScheduled
  BY InvSavedAndScheduled
<1>2. QED
  BY <1>1, AlwaysInv, PTL

(* _run_flow_job: the rows of a flow are the attempts of its firings in order, each after the
   first following a failed one, and none stays "running" unless a restart or a failing
   run_history cut it short. *)
THEOREM RowsAlwaysTellFirings == Spec => []RowsTellFirings
<1>1. StoreInv /\ RunsInv => RowsTellFirings
  BY InvRowsTellFirings
<1>2. QED
  BY <1>1, AlwaysInv, PTL

(* alert_failure: an alert tells of a firing that made all of its attempts in vain, and whoever
   asked to be told of one is. *)
THEOREM AlertsAlwaysTellFailures == Spec => []AlertsTellFailures
<1>1. StoreInv /\ RunsInv => AlertsTellFailures
  BY InvAlertsTellFailures
<1>2. QED
  BY <1>1, AlwaysInv, PTL
=============================================================================
