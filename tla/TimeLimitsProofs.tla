--------------------------- MODULE TimeLimitsProofs ---------------------------
(***************************************************************************)
(* Theorems about what waits with a time limit: IsolatedRun, LivePool and  *)
(* BuildFlow, as MCTimeLimits puts them side by side.  For each there is   *)
(* an inductive invariant, kept by every step of its own; the steps of the *)
(* others leave it alone.  They rest on IsolatedAssumption and             *)
(* TimeLimitsAssumption only.                                              *)
(***************************************************************************)
EXTENDS MCTimeLimits, FiniteSetTheorems, FunctionTheorems, TLAPS

-----------------------------------------------------------------------------
(* IsolatedRun: one run of a plugin in a process of its own. *)

\* What is known of a run beyond its types: nothing is there before it is made, and a runner
\* that is about to be parsed has ended.
Stages ==
    /\ pc \in {"start", "write", "spawn"} => child = None
    /\ pc = "parse" => child \in Exited

RunInv == TypeOK /\ Stages /\ FramesAreReal

LEMMA InitRunInv == Init => RunInv
<1> SUFFICES ASSUME Init PROVE RunInv
  OBVIOUS
<1>1. None \notin Exited \cup {"running", "table"} /\ result.end = None
  BY IsolatedAssumption DEF Init, NoResult
<1>2. TypeOK
  BY <1>1 DEF Init, TypeOK
<1>3. Stages
  BY DEF Init, Stages
<1>4. FramesAreReal
  BY <1>1 DEF FramesAreReal
<1>5. QED
  BY <1>2, <1>3, <1>4 DEF RunInv

\* The response, when there is one, is the last object that was printed.
LEMMA ResponseIsLast ==
    ASSUME Response # None
    PROVE  \E i \in DOMAIN printed : IsLastObject(i) /\ printed[i] = Response
BY DEF Response

\* Parse returns a table only of a complete file, and after an "ok" that no object follows.
LEMMA TablesAreReal ==
    ASSUME TypeOK, Verdict = "table"
    PROVE  /\ output = "whole"
           /\ \E i \in DOMAIN printed : /\ printed[i] = "ok"
                                        /\ \A j \in (i + 1)..Len(printed) : printed[j] = "text"
<1>1. Response = "ok" /\ output \notin {"none", "part"} /\ \A i \in DOMAIN printed : printed[i] # "binary"
  BY DEF Verdict, Undecodable
<1>2. Response # None
  BY <1>1, IsolatedAssumption DEF Lines, Objects
<1>3. PICK i \in DOMAIN printed : IsLastObject(i) /\ printed[i] = "ok"
  BY <1>1, <1>2, ResponseIsLast
<1>4. ASSUME NEW j \in (i + 1)..Len(printed) PROVE printed[j] = "text"
  <2>1. j \in DOMAIN printed /\ j > i
    BY <1>3 DEF TypeOK
  <2>2. printed[j] \in Lines /\ printed[j] \notin Objects
    BY <1>3, <2>1 DEF IsLastObject, TypeOK
  <2>3. QED
    BY <1>1, <2>1, <2>2 DEF Lines
<1>5. QED
  BY <1>1, <1>3, <1>4 DEF TypeOK

\* A run that has returned keeps what it returned, what was printed and what was written.
LEMMA Settled ==
    ASSUME RunInv, result.end = "table", [Next]_vars
    PROVE  UNCHANGED <<result, printed, output>>
<1>1. pc \in {"out", "end"} /\ child # "running"
  BY IsolatedAssumption DEF RunInv, TypeOK
<1>2. QED
  BY <1>1 DEF Next, Works, NotFound, MakeJob, WriteInputs, Spawn, Timeout, Drained, Ended, Parse, RemoveJob, Prints,
              Writes, Forks, Exits, Releases, Rest, Runner, vars

\* The two ways out of WriteInputs.
LEMMA WritingTypes ==
    ASSUME WriteInputs
    PROVE  /\ pc = "write" /\ UNCHANGED <<child, printed, output>>
           /\ \/ pc' = "spawn" /\ result' = result
              \/ pc' = "out" /\ result'.end = "ArrowInvalid"
<1>1. /\ pc = "write" /\ UNCHANGED <<child, printed, output>>
      /\ \/ pc' = "spawn" /\ result' = result
         \/ pc' = "out" /\ result' = [end |-> "ArrowInvalid", log |-> <<>>]
  BY Zenon DEF WriteInputs, Out, Runner
<1>2. QED
  BY <1>1

\* The two ways out of Timeout, and the end that it comes to on Windows.
LEMMA TimeoutTypes ==
    ASSUME Timeout \/ Drained
    PROVE  /\ pc \in {"run", "drain"} /\ UNCHANGED <<printed, output>>
           /\ child' \in {child, "killed"} /\ (child' # "running" \/ pc = "drain")
           /\ \/ pc' = "drain" /\ result' = result /\ pc = "run"
              \/ pc' = "out" /\ result'.end = "timed out"
<1>1. CASE Timeout
  <2>1. /\ pc = "run" /\ UNCHANGED <<printed, output>>
        /\ child' = IF child = "running" THEN "killed" ELSE child
    BY <1>1, Zenon DEF Timeout
  <2>2. \/ pc' = "drain" /\ result' = result
        \/ pc' = "out" /\ result' = [end |-> "timed out", log |-> <<>>]
    BY <1>1, Zenon DEF Timeout, Out
  <2>3. child' \in {child, "killed"} /\ child' # "running"
    BY <2>1
  <2>4. [end |-> "timed out", log |-> <<>>].end = "timed out"
    OBVIOUS
  <2>5. QED
    BY <2>1, <2>2, <2>3, <2>4
<1>2. CASE Drained
  <2>1. /\ pc = "drain" /\ UNCHANGED <<child, printed, output>>
        /\ pc' = "out" /\ result' = [end |-> "timed out", log |-> <<>>]
    BY <1>2, Zenon DEF Drained, Out, Runner
  <2>2. QED
    BY <2>1
<1>3. QED
  BY <1>1, <1>2

\* What is printed stays a sequence of lines.
LEMMA PrintedTypes ==
    ASSUME TypeOK, Prints
    PROVE  printed' \in Seq(Lines)
<1>1. printed \in Seq(Lines)
  BY DEF TypeOK
<1>2. PICK l \in Lines : printed' = Append(printed, l)
  BY DEF Prints
<1>3. QED
  BY <1>1, <1>2

\* Every step keeps the types and the stages.
LEMMA StepStages ==
    ASSUME RunInv, [Next]_vars
    PROVE  TypeOK' /\ Stages'
<1> USE IsolatedAssumption DEF RunInv, TypeOK, Stages, Exited, Raised, Runner, Out, NoResult
<1>1. CASE NotFound
  BY <1>1 DEF NotFound
<1>2. CASE MakeJob
  BY <1>2 DEF MakeJob
<1>3. CASE WriteInputs
  <2>1. TypeOK'
    <3>1. \/ pc' = "spawn" /\ result' = result
          \/ pc' = "out" /\ result'.end = "ArrowInvalid"
      BY <1>3, WritingTypes
    <3>2. pc = "write" /\ UNCHANGED <<child, printed, output>>
      BY <1>3, WritingTypes
    <3>3. QED
      BY <3>1, <3>2
  <2>2. Stages'
    BY <1>3, WritingTypes
  <2>3. QED
    BY <2>1, <2>2
<1>4. CASE Spawn
  BY <1>4 DEF Spawn
<1>5. CASE Timeout \/ Drained
  <2>1. TypeOK'
    <3>1. child' # "running" /\ child' \in {None, "killed"} \cup Exited
      BY <1>5, TimeoutTypes
    <3>2. QED
      BY <1>5, <3>1, TimeoutTypes
  <2>2. Stages'
    BY <1>5, TimeoutTypes
  <2>3. QED
    BY <2>1, <2>2
<1>6. CASE Ended
  BY <1>6 DEF Ended
<1>7. CASE Parse
  <2>1. Verdict \in Raised \cup {"table"}
    BY DEF Verdict
  <2>2. QED
    BY <1>7, <2>1 DEF Parse
<1>8. CASE RemoveJob
  BY <1>8 DEF RemoveJob
<1>9. CASE Prints
  <2>1. TypeOK'
    BY <1>9, PrintedTypes DEF Prints
  <2>2. Stages'
    BY <1>9 DEF Prints
  <2>3. QED
    BY <2>1, <2>2
<1>10. CASE Writes
  <2>1. TypeOK'
    BY <1>10 DEF Writes
  <2>2. Stages'
    BY <1>10 DEF Writes
  <2>3. QED
    BY <2>1, <2>2
<1>11. CASE Forks \/ Releases
  <2>1. UNCHANGED <<pc, job, child, printed, output, result>>
    BY <1>11 DEF Forks, Releases
  <2>2. TypeOK'
    BY <2>1
  <2>3. Stages'
    BY <2>1
  <2>4. QED
    BY <2>2, <2>3
<1>12. CASE Exits
  <2>1. TypeOK'
    BY <1>12 DEF Exits
  <2>2. Stages'
    BY <1>12 DEF Exits
  <2>3. QED
    BY <2>1, <2>2
<1>13. CASE UNCHANGED vars
  <2>1. TypeOK'
    BY <1>13 DEF vars
  <2>2. Stages'
    BY <1>13 DEF vars
  <2>3. QED
    BY <2>1, <2>2
<1>14. QED
  BY <1>1, <1>2, <1>3, <1>4, <1>5, <1>6, <1>7, <1>8, <1>9, <1>10, <1>11, <1>12, <1>13 DEF Next, Works, Rest

LEMMA StepRunInv ==
    ASSUME RunInv, [Next]_vars
    PROVE  RunInv'
<1>1. TypeOK' /\ Stages'
  BY StepStages
<1>2. CASE result.end = "table"
  BY <1>1, <1>2, Settled DEF RunInv, FramesAreReal
<1>3. CASE result.end # "table" /\ ~Parse
  <2>1. /\ NotFound => result'.end # "table"
        /\ Timeout \/ Drained => result' = result \/ result'.end # "table"
        /\ WriteInputs => result' = result \/ result'.end # "table"
    <3>1. ASSUME NotFound PROVE result'.end = "no interpreter"
      BY <3>1 DEF NotFound
    <3>2. Timeout \/ Drained => result' = result \/ result'.end = "timed out"
      BY TimeoutTypes
    <3>3. WriteInputs => result' = result \/ result'.end = "ArrowInvalid"
      BY WritingTypes
    <3>4. QED
      BY <3>1, <3>2, <3>3
  <2>2. result' = result \/ result'.end # "table"
    BY <1>3, <2>1 DEF Next, Works, MakeJob, Spawn, Ended, RemoveJob, Prints, Writes, Forks, Exits, Releases, Rest, vars
  <2>3. QED
    BY <1>1, <1>3, <2>2 DEF RunInv, FramesAreReal
<1>4. CASE Parse
  <2>1. result'.end = Verdict /\ UNCHANGED <<printed, output>>
    BY <1>4 DEF Parse, Out, Runner
  <2>2. QED
    BY <1>1, <2>1, TablesAreReal DEF RunInv, FramesAreReal
<1>5. QED
  BY <1>2, <1>3, <1>4

-----------------------------------------------------------------------------
(* LivePool: the pooled connections of Explore. *)

\* A thread has a connection from the moment the pool gives it one until it is released, and a
\* request waits only for a thread that is still at work for somebody.
Holds(t) == task[t].pc \in {"set", "query", "release"}

Connected ==
    /\ \A t \in Tasks : Holds(t) <=> task[t].con # None
    /\ \A r \in Requests : waits[r] # None => task[waits[r]].pc # "idle"
    /\ \A t \in Tasks : task[t].pc \in {"release", "ended"} => task[t].end # "none"

\* A limit is set for charts only, and is there when the statement runs.  Where it is cleared, a
\* session has one only while the chart query it was set for holds the connection, from its
\* statement until the release.
Limited(t) == task[t].limited /\ dialect \in {"local", "reset"}
Sets(t) == task[t].limited /\ dialect \in {"local", "reset", "session"}

LimitsHeld ==
    /\ \A t \in Tasks : task[t].limited => task[t].kind = "chart" /\ dialect # "waited"
    /\ \A t \in Tasks : task[t].pc = "query" /\ Sets(t) => limit[task[t].con]
    /\ dialect # "session" =>
         /\ \A c \in Connections : limit[c] =>
              \E t \in Tasks : task[t].con = c /\ task[t].pc \in {"query", "release"} /\ Limited(t)
         /\ \A t \in Tasks : task[t].end = "timeout" => task[t].kind = "chart"

PoolInv == Pool!TypeOK /\ Connected /\ LimitsHeld

Thread == [pc : {"idle", "connect", "set", "query", "release", "ended"},
           kind : {"chart", "catalog"}, patient : BOOLEAN, limited : BOOLEAN,
           con : Connections \cup {None},
           end : {"none", "rows", "error", "timeout", "readonly"}]

LEMMA InitPoolInv == ASSUME Pool!Init PROVE PoolInv
<1> DEFINE none == Pool!NoTask
<1>1. /\ none \in Thread /\ none.pc = "idle" /\ none.con = None /\ none.limited = FALSE /\ none.end = "none"
      /\ None \notin Connections /\ None \notin Tasks
      /\ dialect \in Pool!AllDialects /\ {readonly, responsive} \subseteq BOOLEAN /\ asked \in 0..MaxAsked
  <2>1. /\ dialect \in Dialects /\ {readonly, responsive} \subseteq BOOLEAN /\ asked = 0
        /\ Dialects \subseteq Pool!AllDialects /\ MaxAsked \in Nat
    BY TimeLimitsAssumption DEF Pool!Init, Pool!LivePoolAssumption, TimeLimitsAssumption
  <2>2. QED
    BY <2>1, TimeLimitsAssumption
       DEF Pool!LivePoolAssumption, TimeLimitsAssumption, Pool!NoTask, Thread
<1>2. /\ task = [t \in Tasks |-> none] /\ limit = [c \in Connections |-> FALSE]
      /\ waits = [r \in Requests |-> None] /\ outcome = [r \in Requests |-> "none"]
  BY DEF Pool!Init
<1> HIDE DEF none
<1>3. Pool!TypeOK
  BY <1>1, <1>2 DEF Pool!TypeOK, Thread
<1>4. Connected
  BY <1>1, <1>2 DEF Connected, Holds
<1>5. LimitsHeld
  BY <1>1, <1>2 DEF LimitsHeld
<1>6. QED
  BY <1>3, <1>4, <1>5 DEF PoolInv

\* A request goes on waiting, or stops, or is the only one to begin; t, which then is x, is at work
\* as long as it is waited for.
WaitsGoOn(t, x) ==
    \A r \in Requests :
        \/ waits'[r] = None
        \/ waits'[r] = waits[r] /\ (waits[r] = t => x.pc # "idle")
        \/ /\ waits'[r] = t /\ x.pc # "idle" /\ task[t].pc = "idle"
           /\ \A s \in Requests \ {r} : waits'[s] = waits[s]

\* One thread goes on: what it takes for the shapes to stay.
LEMMA ThreadGoesOn ==
    ASSUME PoolInv, NEW t \in Tasks, NEW x \in Thread, task' = [task EXCEPT ![t] = x],
           UNCHANGED <<dialect, readonly, responsive>>, limit' \in [Connections -> BOOLEAN], asked' \in 0..MaxAsked,
           outcome' \in [Requests -> {"none", "rows", "error", "timeout"}],
           x.con # None => \A u \in Tasks \ {t} : task[u].con # x.con,
           x.pc \in {"set", "query", "release"} <=> x.con # None,
           x.pc \in {"release", "ended"} => x.end # "none",
           waits' \in [Requests -> Tasks \cup {None}],
           WaitsGoOn(t, x)
    PROVE  /\ Pool!TypeOK' /\ Connected'
           /\ task'[t] = x /\ \A u \in Tasks \ {t} : task'[u] = task[u]
<1>1. /\ task \in [Tasks -> Thread] /\ dialect \in Pool!AllDialects /\ {readonly, responsive} \subseteq BOOLEAN
      /\ \A u, v \in Tasks : u # v /\ task[u].con # None => task[u].con # task[v].con
      /\ waits \in [Requests -> Tasks \cup {None}]
      /\ \A r, s \in Requests : r # s /\ waits[r] # None => waits[r] # waits[s]
  BY DEF PoolInv, Pool!TypeOK, Thread
<1>2. Connected
  BY DEF PoolInv
<1>3. /\ task' \in [Tasks -> Thread] /\ task'[t] = x /\ \A u \in Tasks \ {t} : task'[u] = task[u]
  BY <1>1
<1>4. \A u, v \in Tasks : u # v /\ task'[u].con # None => task'[u].con # task'[v].con
  BY <1>1, <1>3
<1>5. \A r \in Requests : waits'[r] # None => task'[waits'[r]].pc # "idle"
  BY <1>1, <1>2, <1>3 DEF Connected, WaitsGoOn
<1>6. ASSUME NEW r \in Requests, NEW s \in Requests, r # s, waits'[r] # None PROVE waits'[r] # waits'[s]
  <2>1. CASE waits'[r] = waits[r] /\ waits'[s] \in {None, waits[s]}
    BY <1>1, <1>6, <2>1
  <2>2. CASE waits'[r] = t /\ task[t].pc = "idle" /\ waits'[s] = waits[s]
    BY <1>1, <1>2, <1>6, <2>2 DEF Connected
  <2>3. CASE waits'[s] = t /\ task[t].pc = "idle" /\ waits'[r] = waits[r]
    BY <1>1, <1>2, <1>6, <2>3 DEF Connected
  <2>4. QED
    BY <1>6, <2>1, <2>2, <2>3 DEF WaitsGoOn
<1>7. Pool!TypeOK'
  BY <1>1, <1>3, <1>4, <1>6 DEF Pool!TypeOK, Thread
<1>8. Connected'
  BY <1>2, <1>3, <1>5 DEF Connected, Holds
<1>9. QED
  BY <1>3, <1>7, <1>8

\* What it takes for the limits to stay with those who set them.
LEMMA LimitsGoOn ==
    ASSUME PoolInv, NEW t \in Tasks, UNCHANGED dialect,
           \A u \in Tasks \ {t} : task'[u] = task[u],
           task'[t].limited => task'[t].kind = "chart" /\ dialect # "waited",
           task'[t].pc = "query" /\ Sets(t)' => limit'[task'[t].con],
           \A c \in Connections : ~limit'[c] => ~limit[c] \/ c = task[t].con,
           dialect # "session" =>
             /\ task'[t].end = "timeout" => task'[t].kind = "chart"
             /\ \A c \in Connections : limit'[c] =>
                  \/ limit[c] /\ c # task[t].con
                  \/ task'[t].con = c /\ task'[t].pc \in {"query", "release"} /\ Limited(t)'
    PROVE  LimitsHeld'
<1>1. LimitsHeld
  BY DEF PoolInv
<1>2. \A u \in Tasks \ {t} : (Limited(u)' <=> Limited(u)) /\ (Sets(u)' <=> Sets(u))
  BY DEF Limited, Sets
<1>3. ASSUME NEW u \in Tasks, task'[u].pc = "query", Sets(u)' PROVE limit'[task'[u].con]
  <2>1. CASE u = t
    BY <1>3, <2>1
  <2>2. CASE u # t
    <3>1. limit[task[u].con] /\ task'[u].con = task[u].con
      BY <1>1, <1>2, <1>3, <2>2 DEF LimitsHeld
    <3>2. task[u].con # None /\ task[u].con \in Connections /\ task[u].con # task[t].con
      BY <1>3, <2>2 DEF PoolInv, Connected, Holds, Pool!TypeOK
    <3>3. QED
      BY <1>3, <3>1, <3>2
  <2>3. QED
    BY <2>1, <2>2
<1>4. ASSUME dialect # "session", NEW c \in Connections, limit'[c]
      PROVE  \E u \in Tasks : task'[u].con = c /\ task'[u].pc \in {"query", "release"} /\ Limited(u)'
  <2>1. CASE limit[c] /\ c # task[t].con
    <3>1. PICK u \in Tasks : task[u].con = c /\ task[u].pc \in {"query", "release"} /\ Limited(u)
      BY <1>1, <1>4, <2>1 DEF LimitsHeld
    <3>2. QED
      BY <1>2, <2>1, <3>1
  <2>2. QED
    BY <1>4, <2>1
<1>5. \A u \in Tasks : task'[u].limited => task'[u].kind = "chart" /\ dialect # "waited"
  BY <1>1 DEF LimitsHeld
<1>6. dialect # "session" => \A u \in Tasks : task'[u].end = "timeout" => task'[u].kind = "chart"
  BY <1>1 DEF LimitsHeld
<1>7. QED
  BY <1>3, <1>4, <1>5, <1>6 DEF LimitsHeld

\* A session with a limit is in the hands of the thread that set it.
LEMMA LimitIsOfItsHolder ==
    ASSUME PoolInv, dialect # "session", NEW t \in Tasks, NEW c \in Connections, task[t].con = c, limit[c]
    PROVE  task[t].pc \in {"query", "release"} /\ Limited(t)
<1>1. PICK u \in Tasks : task[u].con = c /\ task[u].pc \in {"query", "release"} /\ Limited(u)
  BY DEF PoolInv, LimitsHeld
<1>2. u = t
  BY <1>1, TimeLimitsAssumption DEF PoolInv, Pool!TypeOK, TimeLimitsAssumption, Pool!LivePoolAssumption
<1>3. QED
  BY <1>1, <1>2

LEMMA AskKeepsPoolInv ==
    ASSUME PoolInv, NEW r \in Requests, Pool!Ask(r)
    PROVE  PoolInv'
<1>1. PICK t \in Tasks, kind \in {"chart", "catalog"} :
         /\ task[t].pc = "idle" /\ waits' = [waits EXCEPT ![r] = t]
         /\ task' = [task EXCEPT ![t] =
                       [Pool!NoTask EXCEPT !.pc = "connect", !.kind = kind,
                                           !.patient = kind = "catalog" \/ dialect # "waited",
                                           !.limited = kind = "chart" /\ dialect # "waited"]]
  BY DEF Pool!Ask, Pool!Goes
<1> DEFINE patient == kind = "catalog" \/ dialect # "waited"
           limited == kind = "chart" /\ dialect # "waited"
<1>2. patient \in BOOLEAN /\ limited \in BOOLEAN /\ (limited => kind = "chart" /\ dialect # "waited")
  OBVIOUS
<1> DEFINE x == [Pool!NoTask EXCEPT !.pc = "connect", !.kind = kind, !.patient = patient, !.limited = limited]
<1>3. task' = [task EXCEPT ![t] = x]
  BY <1>1
<1> HIDE DEF patient, limited
<1>4. x \in Thread /\ x.pc = "connect" /\ x.con = None /\ x.end = "none" /\ x.kind = kind /\ x.limited = limited
  BY <1>2 DEF Thread, Pool!NoTask
<1> HIDE DEF x
<1>5. /\ UNCHANGED <<dialect, readonly, responsive, limit>>
      /\ outcome' = [outcome EXCEPT ![r] = "none"] /\ asked < MaxAsked /\ asked' = asked + 1
  BY DEF Pool!Ask, Pool!fixed
<1>6. /\ asked \in 0..MaxAsked /\ outcome \in [Requests -> {"none", "rows", "error", "timeout"}]
      /\ waits \in [Requests -> Tasks \cup {None}] /\ limit \in [Connections -> BOOLEAN] /\ MaxAsked \in Nat
      /\ None \notin Connections
  BY TimeLimitsAssumption DEF PoolInv, Pool!TypeOK, TimeLimitsAssumption, Pool!LivePoolAssumption
<1>7. task[t].con = None
  BY <1>1 DEF PoolInv, Connected, Holds
<1>8. \A s \in Requests : waits[s] # t
  BY <1>1, TimeLimitsAssumption DEF PoolInv, Connected, TimeLimitsAssumption, Pool!LivePoolAssumption
<1>9. Pool!TypeOK' /\ Connected' /\ task'[t] = x /\ \A u \in Tasks \ {t} : task'[u] = task[u]
  <2>1. asked' \in 0..MaxAsked /\ outcome' \in [Requests -> {"none", "rows", "error", "timeout"}]
    BY <1>5, <1>6
  <2>2. \A s \in Requests : waits'[s] = IF s = r THEN t ELSE waits[s]
    BY <1>1, <1>6
  <2>3. waits' \in [Requests -> Tasks \cup {None}]
    BY <1>1, <1>6
  <2>4. WaitsGoOn(t, x)
    <3>1. task[t].pc = "idle"
      BY <1>1
    <3>2. waits'[r] = t /\ \A s \in Requests \ {r} : waits'[s] = waits[s] /\ waits[s] # t
      BY <1>8, <2>2
    <3>3. x.pc # "idle"
      BY <1>4
    <3>4. QED
      BY <3>1, <3>2, <3>3 DEF WaitsGoOn
  <2>5. UNCHANGED <<dialect, readonly, responsive>> /\ limit' \in [Connections -> BOOLEAN]
    BY <1>5, <1>6
  <2>6. /\ x.con # None => \A u \in Tasks \ {t} : task[u].con # x.con
        /\ x.pc \in {"set", "query", "release"} <=> x.con # None
        /\ x.pc \in {"release", "ended"} => x.end # "none"
    BY <1>4
  <2>7. QED
    BY <1>3, <1>4, <2>1, <2>3, <2>4, <2>5, <2>6, ThreadGoesOn
<1>10. LimitsHeld'
  <2>1. task'[t].limited => task'[t].kind = "chart" /\ dialect # "waited"
    <3>1. task'[t].limited = limited /\ task'[t].kind = kind
      BY <1>4, <1>9
    <3>2. QED
      BY <1>2, <3>1
  <2>2. \A c \in Connections : c # task[t].con
    BY <1>6, <1>7
  <2>3. QED
    BY <1>4, <1>5, <1>9, <2>1, <2>2, LimitsGoOn
<1>11. QED
  BY <1>9, <1>10 DEF PoolInv

\* A step of a thread that goes on with what it does for the same request.
LEMMA ThreadWorks ==
    ASSUME PoolInv, NEW t \in Tasks, NEW x \in Thread, task' = [task EXCEPT ![t] = x],
           task[t].pc # "idle", x.pc \in {"set", "query", "release", "ended"},
           x.kind = task[t].kind, x.limited = task[t].limited,
           UNCHANGED <<dialect, readonly, responsive, waits, asked, outcome>>, limit' \in [Connections -> BOOLEAN],
           x.con # None => \A u \in Tasks \ {t} : task[u].con # x.con,
           x.pc # "ended" <=> x.con # None, x.pc \in {"release", "ended"} => x.end # "none"
    PROVE  /\ Pool!TypeOK' /\ Connected' /\ task'[t] = x /\ \A u \in Tasks \ {t} : task'[u] = task[u]
           /\ task'[t].limited => task'[t].kind = "chart" /\ dialect # "waited"
<1>1. /\ waits \in [Requests -> Tasks \cup {None}] /\ asked \in 0..MaxAsked
      /\ outcome \in [Requests -> {"none", "rows", "error", "timeout"}]
      /\ task[t].limited => task[t].kind = "chart" /\ dialect # "waited"
  BY DEF PoolInv, Pool!TypeOK, LimitsHeld
<1>2. x.pc \in {"set", "query", "release"} <=> x.con # None
  OBVIOUS
<1>3. WaitsGoOn(t, x)
  BY DEF WaitsGoOn
<1>4. Pool!TypeOK' /\ Connected' /\ task'[t] = x /\ \A u \in Tasks \ {t} : task'[u] = task[u]
  BY <1>1, <1>2, <1>3, ThreadGoesOn
<1>5. QED
  BY <1>1, <1>4

LEMMA ConnectKeepsPoolInv ==
    ASSUME PoolInv, NEW t \in Tasks, Pool!Connect(t) \/ Pool!NoConnection(t)
    PROVE  PoolInv'
<1>1. task[t] \in Thread /\ limit \in [Connections -> BOOLEAN]
  BY DEF PoolInv, Pool!TypeOK, Thread
<1>2. /\ task[t].pc = "connect" /\ task[t].con = None /\ None \notin Connections
      /\ UNCHANGED <<dialect, readonly, responsive, limit, waits, asked, outcome>>
  BY TimeLimitsAssumption
     DEF Pool!Connect, Pool!NoConnection, Pool!fixed, PoolInv, Connected, Holds, TimeLimitsAssumption,
         Pool!LivePoolAssumption
<1>3. CASE Pool!Connect(t)
  <2>1. PICK c \in Connections : /\ \A u \in Tasks : task[u].con # c
                                 /\ task' = [task EXCEPT ![t] = [task[t] EXCEPT !.pc = "set", !.con = c]]
    BY <1>3 DEF Pool!Connect, Pool!Free, Pool!Goes
  <2> DEFINE x == [task[t] EXCEPT !.pc = "set", !.con = c]
  <2>2. task' = [task EXCEPT ![t] = x]
    BY <2>1
  <2>3. /\ x \in Thread /\ x.pc = "set" /\ x.con = c /\ x.end = task[t].end
        /\ x.kind = task[t].kind /\ x.limited = task[t].limited
    BY <1>1 DEF Thread
  <2> HIDE DEF x
  <2>4. /\ Pool!TypeOK' /\ Connected' /\ task'[t] = x /\ \A u \in Tasks \ {t} : task'[u] = task[u]
        /\ task'[t].limited => task'[t].kind = "chart" /\ dialect # "waited"
    <3>1. \A u \in Tasks : task[u].con # c
      BY <2>1
    <3>2. QED
      BY <1>1, <1>2, <2>2, <2>3, <3>1, ThreadWorks
  <2>5. dialect # "session" => (task'[t].end = "timeout" => task'[t].kind = "chart")
    BY <2>3, <2>4 DEF PoolInv, LimitsHeld
  <2>6. \A d \in Connections : d # task[t].con
    BY <1>2
  <2>7. LimitsHeld'
    BY <1>2, <2>3, <2>4, <2>5, <2>6, LimitsGoOn
  <2>8. QED
    BY <2>4, <2>7 DEF PoolInv
<1>4. CASE Pool!NoConnection(t)
  <2> DEFINE x == [task[t] EXCEPT !.pc = "ended", !.end = "error"]
  <2>1. task' = [task EXCEPT ![t] = x]
    BY <1>4 DEF Pool!NoConnection, Pool!Goes
  <2>2. /\ x \in Thread /\ x.pc = "ended" /\ x.con = None /\ x.end = "error"
        /\ x.kind = task[t].kind /\ x.limited = task[t].limited
    BY <1>1, <1>2 DEF Thread
  <2> HIDE DEF x
  <2>3. /\ Pool!TypeOK' /\ Connected' /\ task'[t] = x /\ \A u \in Tasks \ {t} : task'[u] = task[u]
        /\ task'[t].limited => task'[t].kind = "chart" /\ dialect # "waited"
    BY <1>1, <1>2, <2>1, <2>2, ThreadWorks
  <2>4. \A d \in Connections : d # task[t].con
    BY <1>2
  <2>5. LimitsHeld'
    BY <1>2, <2>2, <2>3, <2>4, LimitsGoOn
  <2>6. QED
    BY <2>3, <2>5 DEF PoolInv
<1>5. QED
  BY <1>3, <1>4

\* What is known of a thread that has a connection.
LEMMA Holding ==
    ASSUME PoolInv, NEW t \in Tasks, task[t].pc \in {"set", "query", "release"}
    PROVE  /\ task[t] \in Thread /\ task[t].con \in Connections /\ task[t].con # None
           /\ \A u \in Tasks \ {t} : task[u].con # task[t].con
           /\ limit \in [Connections -> BOOLEAN] /\ None \notin Connections
  BY TimeLimitsAssumption
     DEF PoolInv, Pool!TypeOK, Connected, Holds, Thread, TimeLimitsAssumption, Pool!LivePoolAssumption

LEMMA SetLimitKeepsPoolInv ==
    ASSUME PoolInv, NEW t \in Tasks, Pool!SetLimit(t)
    PROVE  PoolInv'
<1> DEFINE c == task[t].con
           x == [task[t] EXCEPT !.pc = "query"]
<1>1. /\ task[t].pc = "set" /\ task' = [task EXCEPT ![t] = x]
      /\ UNCHANGED <<dialect, readonly, responsive, waits, asked, outcome>>
      /\ limit' = IF task[t].limited /\ dialect \in {"local", "reset", "session"}
                  THEN [limit EXCEPT ![c] = TRUE] ELSE limit
  BY DEF Pool!SetLimit, Pool!Goes, Pool!fixed
<1>2. /\ task[t] \in Thread /\ c \in Connections /\ c # None /\ \A u \in Tasks \ {t} : task[u].con # c
      /\ limit \in [Connections -> BOOLEAN] /\ None \notin Connections
  BY <1>1, Holding
<1>3. /\ x \in Thread /\ x.pc = "query" /\ x.con = c /\ x.end = task[t].end
      /\ x.kind = task[t].kind /\ x.limited = task[t].limited
  BY <1>2 DEF Thread
<1>4. /\ limit' \in [Connections -> BOOLEAN]
      /\ \A d \in Connections \ {c} : limit'[d] = limit[d]
      /\ task[t].limited /\ dialect \in {"local", "reset", "session"} => limit'[c]
      /\ ~(task[t].limited /\ dialect \in {"local", "reset", "session"}) => limit'[c] = limit[c]
  BY <1>1, <1>2
<1> HIDE DEF x, c
<1>5. /\ Pool!TypeOK' /\ Connected' /\ task'[t] = x /\ \A u \in Tasks \ {t} : task'[u] = task[u]
      /\ task'[t].limited => task'[t].kind = "chart" /\ dialect # "waited"
  BY <1>1, <1>2, <1>3, <1>4, ThreadWorks
<1>6. LimitsHeld'
  <2>1. dialect # "session" => (task'[t].end = "timeout" => task'[t].kind = "chart")
    BY <1>3, <1>5 DEF PoolInv, LimitsHeld
  <2>2. Limited(t)' <=> Limited(t)
    BY <1>1, <1>3, <1>5 DEF Limited
  <2>3. Sets(t)' => limit'[task'[t].con]
    BY <1>1, <1>3, <1>4, <1>5 DEF Sets
  <2>4. dialect # "session" => ~limit[c]
    BY <1>1, <1>2, LimitIsOfItsHolder DEF c
  <2>5. dialect # "session" /\ limit'[c] => Limited(t)
    BY <1>4, <2>4 DEF Limited
  <2>6. \A d \in Connections : (~limit'[d] => ~limit[d] \/ d = c) /\ (limit'[d] /\ d # c => limit[d])
    BY <1>4
  <2>7. dialect # "session" =>
          \A d \in Connections : limit'[d] =>
             \/ limit[d] /\ d # c
             \/ task'[t].con = d /\ task'[t].pc \in {"query", "release"} /\ Limited(t)'
    BY <1>3, <1>5, <2>2, <2>5, <2>6
  <2>8. QED
    BY <1>1, <1>5, <2>1, <2>2, <2>3, <2>6, <2>7, LimitsGoOn DEF c
<1>7. QED
  BY <1>5, <1>6 DEF PoolInv

\* A statement ends with rows, an error, a refusal, or because the server stops it.
LEMMA RunsKeepsPoolInv ==
    ASSUME PoolInv, NEW t \in Tasks, NEW end \in {"rows", "error", "timeout", "readonly"}, Pool!Runs(t, end),
           end = "timeout" => Pool!Stops(t)
    PROVE  PoolInv'
<1> DEFINE c == task[t].con
           x == [task[t] EXCEPT !.pc = "release", !.end = end]
<1>1. /\ task[t].pc = "query" /\ task' = [task EXCEPT ![t] = x]
      /\ UNCHANGED <<dialect, readonly, responsive, limit, waits, asked, outcome>>
  BY DEF Pool!Runs, Pool!Goes, Pool!fixed
<1>2. /\ task[t] \in Thread /\ c \in Connections /\ c # None /\ \A u \in Tasks \ {t} : task[u].con # c
      /\ limit \in [Connections -> BOOLEAN] /\ None \notin Connections
  BY <1>1, Holding
<1>3. /\ x \in Thread /\ x.pc = "release" /\ x.con = c /\ x.end = end
      /\ x.kind = task[t].kind /\ x.limited = task[t].limited
  BY <1>2 DEF Thread
<1> HIDE DEF x, c
<1>5. /\ Pool!TypeOK' /\ Connected' /\ task'[t] = x /\ \A u \in Tasks \ {t} : task'[u] = task[u]
      /\ task'[t].limited => task'[t].kind = "chart" /\ dialect # "waited"
  BY <1>1, <1>2, <1>3, ThreadWorks
<1>6. dialect # "session" /\ limit[c] => Limited(t)
  BY <1>2, LimitIsOfItsHolder DEF c
<1>7. LimitsHeld'
  <2>1. dialect # "session" /\ end = "timeout" => task[t].limited
    BY <1>6 DEF Pool!Stops, c, Limited
  <2>2. dialect # "session" => (task'[t].end = "timeout" => task'[t].kind = "chart")
    BY <1>3, <1>5, <2>1 DEF PoolInv, LimitsHeld
  <2>3. Limited(t)' <=> Limited(t)
    BY <1>1, <1>3, <1>5 DEF Limited
  <2>4. dialect # "session" =>
          \A d \in Connections : limit'[d] =>
             \/ limit[d] /\ d # c
             \/ task'[t].con = d /\ task'[t].pc \in {"query", "release"} /\ Limited(t)'
    BY <1>1, <1>3, <1>5, <1>6, <2>3
  <2>5. task'[t].pc # "query"
    BY <1>3, <1>5
  <2>6. QED
    BY <1>1, <1>5, <2>2, <2>4, <2>5, LimitsGoOn DEF c
<1>8. QED
  BY <1>5, <1>7 DEF PoolInv

LEMMA ReleaseKeepsPoolInv ==
    ASSUME PoolInv, NEW t \in Tasks, Pool!Release(t)
    PROVE  PoolInv'
<1> DEFINE c == task[t].con
           x == [task[t] EXCEPT !.pc = "ended", !.con = None]
<1>1. /\ task[t].pc = "release" /\ task' = [task EXCEPT ![t] = x]
      /\ UNCHANGED <<dialect, readonly, responsive, waits, asked, outcome>>
      /\ limit' = IF dialect \in {"local", "reset"} THEN [limit EXCEPT ![c] = FALSE] ELSE limit
  BY DEF Pool!Release, Pool!Cleared, Pool!Goes, Pool!fixed
<1>2. /\ task[t] \in Thread /\ c \in Connections /\ c # None /\ \A u \in Tasks \ {t} : task[u].con # c
      /\ limit \in [Connections -> BOOLEAN] /\ None \notin Connections
  BY <1>1, Holding
<1>3. /\ x \in Thread /\ x.pc = "ended" /\ x.con = None /\ x.end = task[t].end
      /\ x.kind = task[t].kind /\ x.limited = task[t].limited
  BY <1>2 DEF Thread
<1>4. /\ limit' \in [Connections -> BOOLEAN]
      /\ \A d \in Connections \ {c} : limit'[d] = limit[d]
      /\ dialect \in {"local", "reset"} => ~limit'[c]
      /\ dialect \notin {"local", "reset"} => limit'[c] = limit[c]
  BY <1>1, <1>2
<1> HIDE DEF x, c
<1>5. /\ Pool!TypeOK' /\ Connected' /\ task'[t] = x /\ \A u \in Tasks \ {t} : task'[u] = task[u]
      /\ task'[t].limited => task'[t].kind = "chart" /\ dialect # "waited"
  <2>1. task[t].end # "none"
    BY <1>1 DEF PoolInv, Connected
  <2>2. QED
    BY <1>1, <1>2, <1>3, <1>4, <2>1, ThreadWorks
<1>6. LimitsHeld'
  <2>1. dialect # "session" => (task'[t].end = "timeout" => task'[t].kind = "chart")
    BY <1>3, <1>5 DEF PoolInv, LimitsHeld
  <2>2. dialect # "session" /\ limit[c] => Limited(t)
    BY <1>2, LimitIsOfItsHolder DEF c
  <2>3. dialect # "session" => ~limit'[c]
    BY <1>4, <2>2 DEF Limited
  <2>4. /\ \A d \in Connections : ~limit'[d] => ~limit[d] \/ d = c
        /\ dialect # "session" => \A d \in Connections : limit'[d] => limit[d] /\ d # c
    BY <1>4, <2>3
  <2>5. task'[t].pc # "query"
    BY <1>3, <1>5
  <2>6. QED
    BY <1>1, <1>5, <2>1, <2>4, <2>5, LimitsGoOn DEF c
<1>7. QED
  BY <1>5, <1>6 DEF PoolInv

LEMMA DeliverKeepsPoolInv ==
    ASSUME PoolInv, NEW t \in Tasks, Pool!Deliver(t)
    PROVE  PoolInv'
<1>1. /\ task[t].pc = "ended" /\ task[t].con = None /\ task[t] \in Thread
      /\ UNCHANGED <<dialect, readonly, responsive, limit, asked>>
      /\ limit \in [Connections -> BOOLEAN] /\ asked \in 0..MaxAsked
      /\ waits \in [Requests -> Tasks \cup {None}]
      /\ outcome \in [Requests -> {"none", "rows", "error", "timeout"}]
      /\ None \notin Connections /\ None \notin Tasks
  BY TimeLimitsAssumption
     DEF Pool!Deliver, Pool!fixed, PoolInv, Connected, Holds, Pool!TypeOK, Thread, TimeLimitsAssumption,
         Pool!LivePoolAssumption
<1> DEFINE none == Pool!NoTask
           again == Pool!Fallback(t)
<1>2. /\ none \in Thread /\ none.pc = "idle" /\ none.con = None /\ none.end = "none" /\ ~none.limited
      /\ again \in Thread /\ again.pc = "connect" /\ again.con = None /\ again.end = "none" /\ ~again.limited
  BY <1>1 DEF Pool!NoTask, Pool!Fallback, Thread
<1>3. \/ /\ task' = [task EXCEPT ![t] = again] /\ UNCHANGED <<waits, outcome>>
      \/ /\ task[t].end # "readonly" /\ task' = [task EXCEPT ![t] = none]
         /\ waits' = [r \in Requests |-> IF waits[r] = t THEN None ELSE waits[r]]
         /\ outcome' = [r \in Requests |-> IF waits[r] = t THEN task[t].end ELSE outcome[r]]
  BY DEF Pool!Deliver, Pool!Goes
<1>4. PICK x \in Thread : /\ task' = [task EXCEPT ![t] = x] /\ x.con = None /\ x.end = "none" /\ ~x.limited
                          /\ x.pc \in {"idle", "connect"} /\ WaitsGoOn(t, x)
  <2>1. CASE task' = [task EXCEPT ![t] = again] /\ UNCHANGED <<waits, outcome>>
    <3>1. WaitsGoOn(t, again)
      BY <1>2, <2>1 DEF WaitsGoOn
    <3>2. QED
      BY <1>2, <2>1, <3>1
  <2>2. CASE /\ task' = [task EXCEPT ![t] = none]
             /\ waits' = [r \in Requests |-> IF waits[r] = t THEN None ELSE waits[r]]
    <3>1. WaitsGoOn(t, none)
      BY <1>2, <2>2 DEF WaitsGoOn
    <3>2. QED
      BY <1>2, <2>2, <3>1
  <2>3. QED
    BY <1>3, <2>1, <2>2
<1>5. /\ waits' \in [Requests -> Tasks \cup {None}]
      /\ outcome' \in [Requests -> {"none", "rows", "error", "timeout"}]
  <2>1. task[t].end # "readonly" => task[t].end \in {"none", "rows", "error", "timeout"}
    BY <1>1 DEF Thread
  <2>2. QED
    BY <1>1, <1>3, <2>1
<1> HIDE DEF none, again
<1>6. Pool!TypeOK' /\ Connected' /\ task'[t] = x /\ \A u \in Tasks \ {t} : task'[u] = task[u]
  <2>1. x.pc \in {"set", "query", "release"} <=> x.con # None
    BY <1>4
  <2>2. x.pc \notin {"release", "ended"}
    BY <1>4
  <2>3. QED
    BY <1>1, <1>4, <1>5, <2>1, <2>2, ThreadGoesOn
<1>7. LimitsHeld'
  <2>1. /\ ~task'[t].limited /\ task'[t].pc # "query" /\ task'[t].end # "timeout"
    BY <1>4, <1>6
  <2>2. \A c \in Connections : c # task[t].con
    BY <1>1
  <2>3. QED
    BY <1>1, <1>6, <2>1, <2>2, LimitsGoOn
<1>8. QED
  BY <1>6, <1>7 DEF PoolInv

LEMMA GivesUpKeepsPoolInv ==
    ASSUME PoolInv, NEW r \in Requests, Pool!GivesUp(r)
    PROVE  PoolInv'
<1>1. /\ UNCHANGED <<dialect, readonly, responsive, limit, task, asked>>
      /\ outcome' = [outcome EXCEPT ![r] = "timeout"] /\ waits' = [waits EXCEPT ![r] = None]
  BY DEF Pool!GivesUp, Pool!fixed
<1>2. Pool!TypeOK'
  BY <1>1 DEF PoolInv, Pool!TypeOK
<1>3. Connected'
  BY <1>1 DEF PoolInv, Pool!TypeOK, Connected, Holds
<1>4. LimitsHeld'
  BY <1>1 DEF PoolInv, LimitsHeld, Limited, Sets
<1>5. QED
  BY <1>2, <1>3, <1>4 DEF PoolInv

LEMMA StepPoolInv ==
    ASSUME PoolInv, [Pool!Next]_poolVars
    PROVE  PoolInv'
<1>1. CASE UNCHANGED poolVars
  <2>1. UNCHANGED <<dialect, readonly, responsive, limit, task, waits, asked, outcome>>
    BY <1>1 DEF poolVars
  <2>2. QED
    BY <2>1 DEF PoolInv, Pool!TypeOK, Connected, Holds, LimitsHeld, Limited, Sets
<1>2. ASSUME NEW t \in Tasks, Pool!RoundTrip(t) \/ Pool!NoConnection(t) \/ Pool!Deliver(t) PROVE PoolInv'
  <2>1. Pool!RefusesHint(t) => Pool!Runs(t, "readonly")
    BY DEF Pool!RefusesHint
  <2>2. QED
    BY <1>2, <2>1, ConnectKeepsPoolInv, SetLimitKeepsPoolInv, RunsKeepsPoolInv, ReleaseKeepsPoolInv, DeliverKeepsPoolInv
       DEF Pool!RoundTrip
<1>3. ASSUME NEW t \in Tasks, Pool!Answers(t) \/ Pool!Errs(t) \/ Pool!StoppedByServer(t) PROVE PoolInv'
  <2>1. \/ Pool!Runs(t, "rows") \/ Pool!Runs(t, "error")
        \/ Pool!Runs(t, "timeout") /\ Pool!Stops(t)
    BY <1>3 DEF Pool!Answers, Pool!Errs, Pool!StoppedByServer
  <2>2. QED
    BY <2>1, RunsKeepsPoolInv
<1>4. CASE Pool!Rest
  BY <1>1, <1>4 DEF Pool!Rest, Pool!vars, poolVars
<1>5. QED
  BY <1>1, <1>2, <1>3, <1>4, AskKeepsPoolInv, GivesUpKeepsPoolInv DEF Pool!Next

LEMMA PoolInvIsOwnLimit == PoolInv => OnlyOwnLimit
<1>1. SUFFICES ASSUME PoolInv, NEW t \in Tasks
               PROVE  /\ task[t].pc = "query" /\ task[t].limited => Pool!Stops(t)
                      /\ dialect # "session" =>
                            /\ task[t].pc = "query" /\ Pool!Stops(t) => task[t].limited
                            /\ task[t].end = "timeout" => task[t].kind = "chart"
  BY DEF OnlyOwnLimit, Pool!OnlyOwnLimit
<1>2. dialect # "session" => (task[t].end = "timeout" => task[t].kind = "chart")
  BY <1>1 DEF PoolInv, LimitsHeld
<1>3. ASSUME task[t].pc = "query", task[t].limited PROVE Pool!Stops(t)
  <2>1. dialect \in {"local", "reset", "session", "hint"}
    BY <1>1, <1>3 DEF PoolInv, LimitsHeld, Pool!TypeOK, Pool!AllDialects
  <2>2. Sets(t) => limit[task[t].con]
    BY <1>1, <1>3 DEF PoolInv, LimitsHeld
  <2>3. QED
    BY <1>3, <2>1, <2>2 DEF Sets, Pool!Stops
<1>4. ASSUME dialect # "session", task[t].pc = "query", Pool!Stops(t) PROVE task[t].limited
  <2>1. task[t].con \in Connections
    BY <1>1, <1>4, Holding
  <2>2. limit[task[t].con] => Limited(t)
    BY <1>1, <1>4, <2>1, LimitIsOfItsHolder
  <2>3. QED
    BY <1>4, <2>2 DEF Limited, Pool!Stops
<1>5. QED
  BY <1>2, <1>3, <1>4

-----------------------------------------------------------------------------
(* BuildFlow: the notes in the order of the graph. *)

Sorted == {order[i] : i \in 1..Len(order)}
Queued == {q[i] : i \in 1..Len(q)}

\* The sort: a node counts its parents that are not sorted yet, and is queued when none is left;
\* every node is sorted after its parents, and so none that can go up for ever is.
SortInv ==
    /\ E \subseteq Nodes \X Nodes /\ q \in Seq(Nodes) /\ order \in Seq(Nodes)
    /\ indeg = [n \in Nodes |-> Cardinality(Build!parents(n) \ Sorted)]
    /\ \A n \in Nodes : n \in Sorted \cup Queued <=> Build!parents(n) \subseteq Sorted
    /\ Sorted \cap Queued = {}
    /\ \A i, j \in 1..Len(q) : i # j => q[i] # q[j]
    /\ \A i, j \in 1..Len(order) : i # j => order[i] # order[j]
    /\ \A i \in 1..Len(order) : Build!parents(order[i]) \subseteq {order[j] : j \in 1..(i - 1)}

NoneBelowACycle ==
    \A S \in SUBSET Nodes : (\A m \in S : Build!parents(m) \cap S # {}) => S \cap Sorted = {}

Past == {order[i] : i \in 1..passed}
Asked == Build!Answered \cup (IF build = "generate" THEN {note} ELSE {})

\* The loop: the notes it has taken are answered, but for the one it is at.
LoopInv ==
    /\ build \in {"sort", "walk", "generate", "done"} /\ passed \in 0..Len(order)
    /\ told \in [AiNodes -> SUBSET (AiNodes \X {"declared", "parsed"})]
    /\ known_cols \in [AiNodes -> {"declared", "parsed", None}]
    /\ build = "sort" => passed = 0
    /\ build = "generate" => passed > 0 /\ note = order[passed] /\ note \in AiNodes \ Build!Answered
    /\ build # "sort" /\ AiNodes # {} => q = <<>>
    /\ build = "done" /\ AiNodes # {} => passed = Len(order)
    /\ Past \cap AiNodes = Asked
    /\ \A m \in AiNodes : known_cols[m] # None => m \in built
    /\ \A n \in Asked : told[n] = {<<m, known_cols[m]>> : m \in Build!up_cols(n)}

BuildInv == SortInv /\ NoneBelowACycle /\ LoopInv

\* The sequences of SetToSeqs list the elements of a finite set, each once.
LEMMA ListsAll ==
    ASSUME NEW S, IsFiniteSet(S), NEW s \in SetToSeqs(S)
    PROVE  /\ s \in Seq(S) /\ {s[i] : i \in 1..Len(s)} = S
           /\ \A i, j \in 1..Len(s) : i # j => s[i] # s[j]
<1> DEFINE n == Cardinality(S)
<1>1. n \in Nat
  BY FS_CardinalityType
<1>2. s \in [1..n -> S] /\ \A i, j \in 1..n : i # j => s[i] # s[j]
  BY DEF SetToSeqs
<1> HIDE DEF n
<1>3. s \in Seq(S) /\ Len(s) = n
  BY <1>1, <1>2
<1>4. s \in Injection(1..n, S)
  BY <1>2 DEF Injection, IsInjective
<1>5. IsFiniteSet(1..n) /\ Cardinality(1..n) = n
  BY <1>1, FS_Interval
<1>6. s \in Surjection(1..n, S)
  BY <1>4, <1>5, FS_Injection DEF n
<1>7. \A x \in S : \E i \in 1..n : s[i] = x
  BY <1>6 DEF Surjection
<1>8. QED
  BY <1>2, <1>3, <1>7

\* The operators of the library are the same in every instance.
LEMMA SameFinite == \A S : Build!IsFiniteSet(S) <=> IsFiniteSet(S)
  BY DEF Build!IsFiniteSet, IsFiniteSet
LEMMA SameCardinality == \A S : Build!Cardinality(S) = Cardinality(S)
  BY DEF Build!Cardinality, Cardinality
LEMMA SameSequences == \A S : Build!SetToSeqs(S) = SetToSeqs(S)
  BY SameCardinality DEF Build!SetToSeqs, SetToSeqs

LEMMA NodesAreFinite == IsFiniteSet(Nodes)
  BY SameFinite, TimeLimitsAssumption DEF TimeLimitsAssumption, Build!BuildFlowAssumption

LEMMA ParentsAreFinite ==
    ASSUME NEW n, NEW S
    PROVE  IsFiniteSet(Build!parents(n) \ S) /\ Cardinality(Build!parents(n) \ S) \in Nat
<1>1. IsFiniteSet(Nodes)
  BY NodesAreFinite
<1>2. Build!parents(n) \ S \in SUBSET Nodes
  BY DEF Build!parents
<1>3. QED
  BY <1>1, <1>2, FS_Subset, FS_CardinalityType

\* What is counted, and what it says.
LEMMA CountsUnsorted ==
    ASSUME SortInv, NEW n \in Nodes
    PROVE  /\ indeg[n] = Cardinality(Build!parents(n) \ Sorted) /\ indeg[n] \in Nat
           /\ indeg[n] = 0 <=> n \in Sorted \cup Queued
<1>1. indeg[n] = Cardinality(Build!parents(n) \ Sorted)
  BY DEF SortInv
<1>2. indeg[n] = 0 <=> Build!parents(n) \ Sorted = {}
  BY <1>1, ParentsAreFinite, FS_EmptySet
<1>3. QED
  BY <1>1, <1>2, ParentsAreFinite DEF SortInv

LEMMA InitBuildInv == ASSUME Build!Init PROVE BuildInv
<1>1. /\ E \subseteq Nodes \X Nodes /\ order = <<>> /\ passed = 0 /\ built = {} /\ errors = {}
      /\ build = IF AiNodes = {} THEN "done" ELSE "sort"
      /\ told = [n \in AiNodes |-> {}] /\ known_cols = [n \in AiNodes |-> None]
      /\ indeg = [n \in Nodes |-> Cardinality(Build!parents(n))]
      /\ q \in SetToSeqs({n \in Nodes : indeg[n] = 0})
  BY SameCardinality, SameSequences DEF Build!Init
<1>2. Sorted = {} /\ Past = {}
  BY <1>1 DEF Sorted, Past
<1> DEFINE Roots == {n \in Nodes : indeg[n] = 0}
<1>3. IsFiniteSet(Roots)
  BY NodesAreFinite, FS_Subset
<1>4. q \in Seq(Roots) /\ Queued = Roots /\ \A i, j \in 1..Len(q) : i # j => q[i] # q[j]
  BY <1>1, <1>3, ListsAll DEF Queued
<1>5. \A n \in Nodes : Build!parents(n) \ Sorted = Build!parents(n)
  BY <1>2
<1>6. indeg = [n \in Nodes |-> Cardinality(Build!parents(n) \ Sorted)]
  BY <1>1, <1>5
<1>7. \A n \in Nodes : n \in Roots <=> Build!parents(n) \subseteq Sorted
  <2>1. SUFFICES ASSUME NEW n \in Nodes PROVE indeg[n] = 0 <=> Build!parents(n) \ Sorted = {}
    OBVIOUS
  <2>2. indeg[n] = Cardinality(Build!parents(n) \ Sorted)
    BY <1>6
  <2>3. QED
    BY <2>2, ParentsAreFinite, FS_EmptySet
<1> HIDE DEF Roots
<1>8. Roots \subseteq Nodes
  BY DEF Roots
<1>9. SortInv
  BY <1>1, <1>2, <1>4, <1>6, <1>7, <1>8 DEF SortInv
<1>10. NoneBelowACycle
  BY <1>2 DEF NoneBelowACycle
<1>11. Asked = {}
  BY <1>1 DEF Asked, Build!Answered
<1>12. LoopInv
  BY <1>1, <1>2, <1>11 DEF LoopInv
<1>13. QED
  BY <1>9, <1>10, <1>12 DEF BuildInv

\* What a pop does to the sets of the sorted and the queued.
LEMMA Pops ==
    ASSUME SortInv, Build!Pop
    PROVE  \E n \in Nodes :
             /\ n \in Queued /\ n \notin Sorted /\ Build!parents(n) \subseteq Sorted
             /\ order' = Append(order, n) /\ Sorted' = Sorted \cup {n}
             /\ q' \in Seq(Nodes) /\ \A i, j \in 1..Len(q') : i # j => q'[i] # q'[j]
             /\ Queued' = (Queued \ {n}) \cup Build!Ready(n)
<1> DEFINE n == Head(q)
<1>1. q \in Seq(Nodes) /\ q # <<>> /\ order \in Seq(Nodes) /\ n \in Nodes
  BY DEF SortInv, Build!Pop
<1>2. n = q[1] /\ Len(q) > 0
  BY <1>1
<1>3. n \in Queued
  BY <1>1, <1>2 DEF Queued
<1>4. n \notin Sorted /\ Build!parents(n) \subseteq Sorted
  BY <1>1, <1>3 DEF SortInv
<1>5. order' = Append(order, n)
  BY DEF Build!Pop
<1>6. PICK s \in SetToSeqs(Build!Ready(n)) : q' = Tail(q) \o s
  BY SameSequences DEF Build!Pop
<1> HIDE DEF n
<1>7. Sorted' = Sorted \cup {n}
  <2>1. Len(order') = Len(order) + 1 /\ order'[Len(order) + 1] = n /\ \A i \in 1..Len(order) : order'[i] = order[i]
    BY <1>1, <1>5
  <2>2. 1..(Len(order) + 1) = (1..Len(order)) \cup {Len(order) + 1}
    BY <1>1
  <2>3. QED
    BY <2>1, <2>2 DEF Sorted
<1>8. Build!Ready(n) \subseteq Nodes
  BY DEF Build!Ready, Build!children
<1>9. IsFiniteSet(Build!Ready(n))
  BY <1>8, NodesAreFinite, FS_Subset
<1>10. /\ s \in Seq(Build!Ready(n)) /\ {s[i] : i \in 1..Len(s)} = Build!Ready(n)
       /\ \A i, j \in 1..Len(s) : i # j => s[i] # s[j]
  BY <1>9, ListsAll
<1>11. s \in Seq(Nodes)
  BY <1>8, <1>10
<1>12. \A m \in Build!Ready(n) : m \notin Queued
  <2>1. ASSUME NEW m \in Build!Ready(n) PROVE m \notin Queued
    <3>1. m \in Nodes /\ indeg[m] = 1
      BY <1>8, <2>1 DEF Build!Ready
    <3>2. indeg[m] = 0 <=> m \in Sorted \cup Queued
      BY <3>1, CountsUnsorted, Zenon
    <3>3. QED
      BY <3>1, <3>2
  <2>2. QED
    BY <2>1
<1>13. /\ Tail(q) \in Seq(Nodes) /\ Len(Tail(q)) = Len(q) - 1
       /\ \A i \in 1..(Len(q) - 1) : Tail(q)[i] = q[i + 1]
  BY <1>1
<1> DEFINE t == Tail(q)
<1>14. /\ {t[i] : i \in 1..Len(t)} = Queued \ {n}
       /\ \A i, j \in 1..Len(t) : i # j => t[i] # t[j]
  <2>1. \A i, j \in 1..Len(q) : i # j => q[i] # q[j]
    BY DEF SortInv
  <2>2. \A i \in 1..Len(t) : t[i] = q[i + 1] /\ i + 1 \in 1..Len(q) /\ t[i] \in Queued /\ t[i] # n
    BY <1>1, <1>2, <1>13, <2>1 DEF Queued
  <2>3. ASSUME NEW x \in Queued, x # n PROVE \E i \in 1..Len(t) : t[i] = x
    <3>1. PICK j \in 1..Len(q) : q[j] = x
      BY <2>3 DEF Queued
    <3>2. j # 1 /\ j - 1 \in 1..Len(t) /\ (j - 1) + 1 = j
      BY <1>1, <1>2, <1>13, <2>3, <3>1
    <3>3. t[j - 1] = x
      BY <2>2, <3>1, <3>2
    <3>4. QED
      BY <3>2, <3>3
  <2>4. QED
    BY <1>1, <1>13, <2>1, <2>2, <2>3
<1> HIDE DEF t
<1>15. /\ t \in Seq(Nodes) /\ q' = t \o s
  BY <1>6, <1>13 DEF t
<1>16. /\ q' \in Seq(Nodes) /\ Len(q') = Len(t) + Len(s)
       /\ \A i \in 1..Len(t) : q'[i] = t[i]
       /\ \A i \in 1..Len(s) : q'[Len(t) + i] = s[i]
       /\ \A i \in 1..Len(q') : i \in 1..Len(t) \/ \E j \in 1..Len(s) : i = Len(t) + j
  <2>1. q' \in Seq(Nodes) /\ Len(q') = Len(t) + Len(s) /\ Len(t) \in Nat /\ Len(s) \in Nat
    BY <1>11, <1>15
  <2>2. \A i \in 1..Len(q') : i \in 1..Len(t) \/ (i - Len(t) \in 1..Len(s) /\ i = Len(t) + (i - Len(t)))
    BY <2>1
  <2>3. QED
    BY <1>11, <1>15, <2>1, <2>2
<1>17. Queued' = (Queued \ {n}) \cup Build!Ready(n)
  <2>1. \A i \in 1..Len(q') : q'[i] \in (Queued \ {n}) \cup Build!Ready(n)
    <3>1. \A i \in 1..Len(t) : t[i] \in Queued \ {n}
      BY <1>14
    <3>2. \A i \in 1..Len(s) : s[i] \in Build!Ready(n)
      BY <1>10
    <3>3. QED
      BY <1>16, <3>1, <3>2
  <2>2. \A x \in Queued \ {n} : \E i \in 1..Len(q') : q'[i] = x
    <3>1. ASSUME NEW x \in Queued \ {n} PROVE \E i \in 1..Len(q') : q'[i] = x
      <4>1. PICK i \in 1..Len(t) : t[i] = x
        BY <1>14, <3>1
      <4>2. i \in 1..Len(q') /\ q'[i] = x
        BY <1>11, <1>15, <1>16, <4>1
      <4>3. QED
        BY <4>2
    <3>2. QED
      BY <3>1
  <2>3. ASSUME NEW x \in Build!Ready(n) PROVE \E i \in 1..Len(q') : q'[i] = x
    <3>1. PICK i \in 1..Len(s) : s[i] = x
      BY <1>10, <2>3
    <3>2. Len(t) + i \in 1..Len(q') /\ q'[Len(t) + i] = x
      BY <1>11, <1>15, <1>16, <3>1
    <3>3. QED
      BY <3>2
  <2>4. QED
    BY <2>1, <2>2, <2>3 DEF Queued
<1>18. ASSUME NEW i \in 1..Len(q'), NEW j \in 1..Len(q'), i # j PROVE q'[i] # q'[j]
  <2>1. \A k \in 1..Len(t) : t[k] \in Queued
    BY <1>14
  <2>2. \A k \in 1..Len(s) : s[k] \in Build!Ready(n)
    BY <1>10
  <2>3. CASE i \in 1..Len(t) /\ j \in 1..Len(t)
    BY <1>14, <1>16, <1>18, <2>3
  <2>4. CASE i \in 1..Len(t) /\ \E k \in 1..Len(s) : j = Len(t) + k
    BY <1>12, <1>16, <2>1, <2>2, <2>4
  <2>5. CASE j \in 1..Len(t) /\ \E k \in 1..Len(s) : i = Len(t) + k
    BY <1>12, <1>16, <2>1, <2>2, <2>5
  <2>6. CASE (\E k \in 1..Len(s) : i = Len(t) + k) /\ (\E k \in 1..Len(s) : j = Len(t) + k)
    BY <1>10, <1>16, <1>18, <2>6
  <2>7. QED
    BY <1>16, <2>3, <2>4, <2>5, <2>6
<1>19. QED
  BY <1>1, <1>3, <1>4, <1>5, <1>7, <1>16, <1>17, <1>18

LEMMA PopKeepsBuildInv ==
    ASSUME BuildInv, Build!Pop
    PROVE  BuildInv'
<1>1. SortInv /\ NoneBelowACycle /\ LoopInv /\ build = "sort"
  BY DEF BuildInv, Build!Pop
<1>2. /\ UNCHANGED <<E, passed, build, note, told, known_cols, built, errors>>
      /\ \A n \in Nodes : Build!parents(n)' = Build!parents(n)
  BY DEF Build!Pop, Build!parents
<1>3. PICK n \in Nodes :
        /\ n \in Queued /\ n \notin Sorted /\ Build!parents(n) \subseteq Sorted
        /\ order' = Append(order, n) /\ Sorted' = Sorted \cup {n}
        /\ q' \in Seq(Nodes) /\ \A i, j \in 1..Len(q') : i # j => q'[i] # q'[j]
        /\ Queued' = (Queued \ {n}) \cup Build!Ready(n)
        /\ indeg' = [m \in Nodes |-> IF m \in Build!children(n) THEN indeg[m] - 1 ELSE indeg[m]]
  <2>1. PICK n \in Nodes : 
          /\ n \in Queued /\ n \notin Sorted /\ Build!parents(n) \subseteq Sorted
          /\ order' = Append(order, n) /\ Sorted' = Sorted \cup {n}
          /\ q' \in Seq(Nodes) /\ \A i, j \in 1..Len(q') : i # j => q'[i] # q'[j]
          /\ Queued' = (Queued \ {n}) \cup Build!Ready(n)
    BY <1>1, Pops
  <2>2. order' = Append(order, Head(q)) /\ order \in Seq(Nodes)
        /\ indeg' = [m \in Nodes |-> IF m \in Build!children(Head(q)) THEN indeg[m] - 1 ELSE indeg[m]]
    BY <1>1 DEF Build!Pop, SortInv
  <2>3. Head(q) = n
    <3>1. order \in Seq(Nodes) /\ Append(order, n) = Append(order, Head(q)) /\ Head(q) \in Nodes
      BY <1>1, <2>1, <2>2 DEF SortInv, Build!Pop
    <3>2. QED
      BY <3>1
  <2>4. QED
    BY <2>1, <2>2, <2>3
<1>4. ASSUME NEW m \in Nodes
      PROVE  /\ m \in Build!children(n) <=> n \in Build!parents(m)
             /\ indeg'[m] = Cardinality(Build!parents(m) \ Sorted')
             /\ m \in Build!Ready(n) <=> n \in Build!parents(m) /\ indeg[m] = 1
  <2>1. m \in Build!children(n) <=> n \in Build!parents(m)
    BY DEF Build!children, Build!parents
  <2>2. indeg[m] = Cardinality(Build!parents(m) \ Sorted)
    BY <1>1, CountsUnsorted
  <2>3. Build!parents(m) \ Sorted' = (Build!parents(m) \ Sorted) \ {n}
    BY <1>3
  <2>4. /\ IsFiniteSet(Build!parents(m) \ Sorted)
        /\ n \in Build!parents(m) \ Sorted <=> n \in Build!parents(m)
    BY <1>3, ParentsAreFinite
  <2>5. Cardinality((Build!parents(m) \ Sorted) \ {n}) = IF n \in Build!parents(m) THEN indeg[m] - 1 ELSE indeg[m]
    BY <2>2, <2>4, FS_RemoveElement
  <2>6. indeg'[m] = IF m \in Build!children(n) THEN indeg[m] - 1 ELSE indeg[m]
    BY <1>3
  <2>7. QED
    BY <2>1, <2>3, <2>5, <2>6 DEF Build!Ready
<1>5. ASSUME NEW m \in Nodes
      PROVE  m \in Sorted' \cup Queued' <=> Build!parents(m) \subseteq Sorted'
  <2>1. m \in Sorted' \cup Queued' <=> m \in Sorted \cup Queued \/ m \in Build!Ready(n)
    BY <1>3
  <2>2. indeg'[m] = 0 <=> Build!parents(m) \subseteq Sorted'
    <3>1. IsFiniteSet(Build!parents(m) \ Sorted')
      BY ParentsAreFinite
    <3>2. Cardinality(Build!parents(m) \ Sorted') = 0 <=> Build!parents(m) \ Sorted' = {}
      BY <3>1, FS_EmptySet
    <3>3. QED
      BY <1>4, <3>2
  <2>3. (indeg[m] = 0 <=> m \in Sorted \cup Queued) /\ indeg[m] \in Nat
    BY <1>1, CountsUnsorted, Zenon
  <2>4. m \in Sorted \cup Queued => n \notin Build!parents(m)
    BY <1>1, <1>3 DEF SortInv
  <2>5. indeg'[m] = IF n \in Build!parents(m) THEN indeg[m] - 1 ELSE indeg[m]
    BY <1>3, <1>4
  <2>6. m \in Build!Ready(n) <=> n \in Build!parents(m) /\ indeg[m] = 1
    BY <1>4
  <2>7. CASE n \in Build!parents(m)
    BY <2>1, <2>2, <2>3, <2>4, <2>5, <2>6, <2>7
  <2>8. CASE n \notin Build!parents(m)
    BY <2>1, <2>2, <2>3, <2>5, <2>6, <2>8
  <2>9. QED
    BY <2>7, <2>8
<1>6. /\ order \in Seq(Nodes) /\ order' \in Seq(Nodes) /\ Len(order') = Len(order) + 1 /\ order'[Len(order) + 1] = n
      /\ \A i \in 1..Len(order) : order'[i] = order[i]
      /\ \A i \in 1..Len(order') : i \in 1..Len(order) \/ i = Len(order) + 1
      /\ \A i \in 1..Len(order) : order[i] \in Sorted
  BY <1>1, <1>3 DEF SortInv, Sorted
<1>7. \A i, j \in 1..Len(order') : i # j => order'[i] # order'[j]
  <2>1. \A i, j \in 1..Len(order) : i # j => order[i] # order[j]
    BY <1>1 DEF SortInv
  <2>2. QED
    BY <1>3, <1>6, <2>1
<1>8. ASSUME NEW i \in 1..Len(order') PROVE Build!parents(order'[i]) \subseteq {order'[j] : j \in 1..(i - 1)}
  <2>1. CASE i \in 1..Len(order)
    <3>1. Build!parents(order[i]) \subseteq {order[j] : j \in 1..(i - 1)} /\ order[i] \in Nodes
      <4>1. \A k \in 1..Len(order) : Build!parents(order[k]) \subseteq {order[j] : j \in 1..(k - 1)}
        BY <1>1 DEF SortInv
      <4>2. order[i] \in Nodes
        BY <1>6, <2>1
      <4>3. QED
        BY <2>1, <4>1, <4>2
    <3>2. \A j \in 1..(i - 1) : order'[j] = order[j]
      BY <1>6, <2>1
    <3>3. QED
      BY <1>2, <1>6, <2>1, <3>1, <3>2
  <2>2. CASE i = Len(order) + 1
    <3>1. 1..(i - 1) = 1..Len(order)
      BY <1>6, <2>2
    <3>2. Sorted = {order'[j] : j \in 1..(i - 1)}
      BY <1>6, <3>1 DEF Sorted
    <3>3. order'[i] = n
      BY <1>6, <2>2
    <3>4. QED
      BY <1>2, <1>3, <3>2, <3>3
  <2>3. QED
    BY <1>6, <1>8, <2>1, <2>2
<1>9. indeg' = [m \in Nodes |-> Cardinality(Build!parents(m) \ Sorted')]
  BY <1>3, <1>4
<1>10. SortInv'
  <2>1. indeg' = [m \in Nodes |-> Cardinality(Build!parents(m)' \ Sorted')]
    BY <1>2, <1>9
  <2>2. \A m \in Nodes : m \in Sorted' \cup Queued' <=> Build!parents(m)' \subseteq Sorted'
    BY <1>2, <1>5
  <2>3. Sorted' \cap Queued' = {}
    <3>1. \A m \in Build!Ready(n) : m \in Nodes /\ m \notin Sorted /\ m # n
      <4>1. ASSUME NEW m \in Build!Ready(n) PROVE m \in Nodes /\ m \notin Sorted /\ m # n
        <5>1. m \in Nodes /\ indeg[m] = 1
          BY <4>1 DEF Build!Ready, Build!children
        <5>2. indeg[m] = 0 <=> m \in Sorted \cup Queued
          BY <1>1, <5>1, CountsUnsorted, Zenon
        <5>3. QED
          BY <1>3, <5>1, <5>2
      <4>2. QED
        BY <4>1
    <3>2. Sorted \cap Queued = {}
      BY <1>1 DEF SortInv
    <3>3. QED
      BY <1>3, <3>1, <3>2
  <2>4. E' \subseteq Nodes \X Nodes
    BY <1>1, <1>2 DEF SortInv
  <2>5. \A i \in 1..Len(order') : (Build!parents(order[i]) \subseteq {order[j] : j \in 1..(i - 1)})'
    BY <1>2, <1>8 DEF Build!parents
  <2>6. QED
    BY <1>3, <1>6, <1>7, <2>1, <2>2, <2>3, <2>4, <2>5 DEF SortInv
<1>11. NoneBelowACycle'
  <2>1. SUFFICES ASSUME NEW S \in SUBSET Nodes, \A m \in S : Build!parents(m)' \cap S # {}
                 PROVE  S \cap Sorted' = {}
    BY DEF NoneBelowACycle
  <2>2. S \cap Sorted = {}
    BY <1>1, <1>2, <2>1 DEF NoneBelowACycle
  <2>3. QED
    BY <1>2, <1>3, <2>1, <2>2
<1>12. LoopInv'
  <2>1. passed = 0 /\ Past' = {} /\ Past = {}
    BY <1>1, <1>2 DEF LoopInv, Past
  <2>2. Asked' = Asked /\ \A n_1 \in Asked : Build!up_cols(n_1)' = Build!up_cols(n_1)
    BY <1>2 DEF Asked, Build!Answered, Build!up_cols, Build!parents
  <2>3. passed' \in 0..Len(order')
    BY <1>2, <1>6, <2>1
  <2>4. UNCHANGED <<passed, build, note, told, known_cols, built, errors, Build!Answered>>
    BY <1>2 DEF Build!Answered
  <2>5. Asked = {}
    BY <1>1, <2>1 DEF LoopInv, Asked, Build!Answered
  <2>6. QED
    BY <1>1, <2>1, <2>2, <2>3, <2>4, <2>5 DEF LoopInv
<1>13. QED
  BY <1>10, <1>11, <1>12 DEF BuildInv

LEMMA SortStays ==
    ASSUME BuildInv, UNCHANGED <<E, indeg, q, order>>
    PROVE  SortInv' /\ NoneBelowACycle' /\ Sorted' = Sorted /\ \A n : Build!parents(n)' = Build!parents(n)
<1>1. /\ Sorted' = Sorted /\ Queued' = Queued
      /\ \A n : Build!parents(n)' = Build!parents(n)
  BY DEF Sorted, Queued, Build!parents
<1>2. SortInv'
  BY <1>1 DEF BuildInv, SortInv, Build!parents
<1>3. NoneBelowACycle'
  BY <1>1 DEF BuildInv, NoneBelowACycle, Build!parents
<1>4. QED
  BY <1>1, <1>2, <1>3

\* A note is asked for after its parents: what stands behind it in order is not above it, nor itself.
LEMMA OrderIsOfParents ==
    ASSUME BuildInv, NEW i \in 1..Len(order)
    PROVE  /\ order[i] \in Nodes /\ order[i] \notin {order[j] : j \in 1..(i - 1)}
           /\ \A j \in 1..i : order[i] \notin Build!parents(order[j])
<1>1. SortInv /\ order \in Seq(Nodes)
  BY DEF BuildInv, SortInv
<1>2. \A j \in 1..i : j \in 1..Len(order)
  BY <1>1
<1>3. \A j, k \in 1..Len(order) : j # k => order[j] # order[k]
  BY <1>1 DEF SortInv
<1>4. \A j \in 1..(i - 1) : j \in 1..Len(order) /\ j # i
  BY <1>1
<1>5. ASSUME NEW j \in 1..i PROVE order[i] \notin Build!parents(order[j])
  <2>1. Build!parents(order[j]) \subseteq {order[k] : k \in 1..(j - 1)}
    BY <1>1, <1>2 DEF SortInv
  <2>2. \A k \in 1..(j - 1) : k \in 1..Len(order) /\ k # i
    BY <1>1
  <2>3. QED
    BY <1>3, <2>1, <2>2
<1>6. QED
  BY <1>1, <1>3, <1>4, <1>5

\* The loop takes the next of order.
LEMMA Taken ==
    ASSUME BuildInv, NEW n \in Nodes, Build!Takes(n)
    PROVE  /\ build = "walk" /\ passed' = passed + 1 /\ passed' \in 1..Len(order) /\ n = order[passed']
           /\ AiNodes # {} => q = <<>>
           /\ Past' = Past \cup {n} /\ n \notin Past /\ \A m \in Past : n \notin Build!parents(m)
           /\ UNCHANGED <<E, indeg, q, order, known_cols, built, errors, Build!Answered>>
<1>1. /\ build = "walk" /\ passed < Len(order) /\ n = order[passed + 1] /\ passed' = passed + 1
      /\ UNCHANGED <<E, indeg, q, order, known_cols, built, errors>>
  BY DEF Build!Takes
<1>2. order \in Seq(Nodes) /\ passed \in 0..Len(order) /\ (AiNodes # {} => q = <<>>)
  BY <1>1 DEF BuildInv, SortInv, LoopInv
<1>3. passed' \in 1..Len(order) /\ passed' - 1 = passed /\ n = order[passed']
  BY <1>1, <1>2
<1>4. 1..passed' = 1..passed \cup {passed'}
  BY <1>1, <1>2
<1>5. Past' = Past \cup {n}
  BY <1>1, <1>3, <1>4 DEF Past
<1>6. n \notin Past /\ \A j \in 1..passed' : n \notin Build!parents(order[j])
  BY <1>3, OrderIsOfParents DEF Past
<1>7. \A m \in Past : n \notin Build!parents(m)
  BY <1>4, <1>6 DEF Past
<1>8. Build!Answered' = Build!Answered
  BY <1>1 DEF Build!Answered
<1>9. QED
  BY <1>1, <1>2, <1>3, <1>5, <1>6, <1>7, <1>8

LEMMA SkipKeepsBuildInv ==
    ASSUME BuildInv, Build!Skip
    PROVE  BuildInv'
<1>1. PICK n \in Nodes \ AiNodes : Build!Takes(n) /\ UNCHANGED <<build, note, told>>
  BY DEF Build!Skip
<1>2. /\ build = "walk" /\ passed' = passed + 1 /\ passed' \in 1..Len(order) /\ (AiNodes # {} => q = <<>>)
      /\ Past' = Past \cup {n}
      /\ UNCHANGED <<E, indeg, q, order, known_cols, built, errors, Build!Answered>>
  BY <1>1, Taken
<1>3. SortInv' /\ NoneBelowACycle'
  BY <1>2, SortStays
<1>4. Asked' = Asked /\ \A m : Build!up_cols(m)' = Build!up_cols(m)
  BY <1>1, <1>2 DEF Asked, Build!up_cols, Build!parents
<1>5. LoopInv
  BY DEF BuildInv
<1>6. Past' \cap AiNodes = Asked'
  BY <1>1, <1>2, <1>4, <1>5 DEF LoopInv
<1>7. LoopInv'
  BY <1>1, <1>2, <1>4, <1>5, <1>6 DEF LoopInv
<1>8. QED
  BY <1>3, <1>7 DEF BuildInv

LEMMA AskKeepsBuildInv ==
    ASSUME BuildInv, Build!Ask
    PROVE  BuildInv'
<1>1. PICK n \in AiNodes : /\ Build!Takes(n) /\ note' = n /\ build' = "generate"
                           /\ told' = [told EXCEPT ![n] = {<<m, known_cols[m]>> : m \in Build!up_cols(n)}]
  BY DEF Build!Ask
<1>2. n \in Nodes
  BY TimeLimitsAssumption DEF TimeLimitsAssumption, Build!BuildFlowAssumption
<1>3. /\ build = "walk" /\ passed' = passed + 1 /\ passed' \in 1..Len(order) /\ n = order[passed'] /\ q = <<>>
      /\ Past' = Past \cup {n} /\ n \notin Past
      /\ UNCHANGED <<E, indeg, q, order, known_cols, built, errors, Build!Answered>>
  BY <1>1, <1>2, Taken
<1>4. SortInv' /\ NoneBelowACycle'
  BY <1>3, SortStays
<1>5. LoopInv
  BY DEF BuildInv
<1>6. Asked = Build!Answered /\ Asked' = Asked \cup {n} /\ n \notin Asked
  BY <1>1, <1>3, <1>5 DEF Asked, LoopInv
<1>7. \A m : Build!up_cols(m)' = Build!up_cols(m)
  BY <1>3 DEF Build!up_cols, Build!parents
<1>8. told' \in [AiNodes -> SUBSET (AiNodes \X {"declared", "parsed"})]
  <2>1. \A m \in Build!up_cols(n) : m \in AiNodes /\ known_cols[m] \in {"declared", "parsed"}
    BY <1>5 DEF LoopInv, Build!up_cols
  <2>2. {<<m, known_cols[m]>> : m \in Build!up_cols(n)} \in SUBSET (AiNodes \X {"declared", "parsed"})
    BY <2>1
  <2>3. QED
    BY <1>1, <1>5, <2>2 DEF LoopInv
<1>9. \A a \in Asked' : told'[a] = {<<m, known_cols'[m]>> : m \in Build!up_cols(a)'}
  <2>1. told'[n] = {<<m, known_cols[m]>> : m \in Build!up_cols(n)}
    BY <1>1, <1>5 DEF LoopInv
  <2>2. \A a \in Asked : told'[a] = told[a] /\ told[a] = {<<m, known_cols[m]>> : m \in Build!up_cols(a)}
    <3>1. Asked \subseteq AiNodes
      BY <1>5 DEF LoopInv
    <3>2. QED
      BY <1>1, <1>5, <1>6, <3>1 DEF LoopInv
  <2>3. QED
    BY <1>3, <1>6, <1>7, <2>1, <2>2
<1>10. LoopInv'
  <2>1. Past' \cap AiNodes = Asked'
    BY <1>1, <1>3, <1>5, <1>6 DEF LoopInv
  <2>2. passed' > 0 /\ note' = order'[passed'] /\ note' \in AiNodes \ Build!Answered'
    BY <1>1, <1>3, <1>6
  <2>3. QED
    BY <1>1, <1>3, <1>5, <1>8, <1>9, <2>1, <2>2 DEF LoopInv
<1>11. QED
  BY <1>4, <1>10 DEF BuildInv

\* An answer for the note in hand, with or without columns.
LEMMA AnswerKeepsBuildInv ==
    ASSUME BuildInv, build = "generate", build' = "walk",
           UNCHANGED <<E, indeg, q, order, passed, told>>,
           Build!Answered' = Build!Answered \cup {note}, built \subseteq built',
           known_cols' \in [AiNodes -> {"declared", "parsed", None}],
           \A m \in AiNodes \ {note} : known_cols'[m] = known_cols[m],
           known_cols'[note] # None => note \in built'
    PROVE  BuildInv'
<1>1. SortInv' /\ NoneBelowACycle' /\ \A n : Build!parents(n)' = Build!parents(n)
  BY SortStays
<1>2. /\ LoopInv /\ Past' = Past /\ passed \in 1..Len(order) /\ note = order[passed] /\ note \in AiNodes
  BY DEF BuildInv, LoopInv, Past
<1>3. Asked' = Asked
  BY DEF Asked
<1>4. \A j \in 1..passed : note \notin Build!parents(order[j])
  BY <1>2, OrderIsOfParents
<1>5. \A a \in Asked : note \notin Build!parents(a)
  <2>1. Asked \subseteq Past
    BY <1>2 DEF LoopInv
  <2>2. QED
    BY <1>4, <2>1 DEF Past
<1>6. ASSUME NEW a \in Asked PROVE told'[a] = {<<m, known_cols'[m]>> : m \in Build!up_cols(a)'}
  <2>1. told[a] = {<<m, known_cols[m]>> : m \in Build!up_cols(a)}
    BY <1>2 DEF LoopInv
  <2>2. Build!up_cols(a)' = Build!up_cols(a)
    BY <1>1, <1>5 DEF Build!up_cols
  <2>3. \A m \in Build!up_cols(a) : known_cols'[m] = known_cols[m]
    BY <1>5 DEF Build!up_cols
  <2>4. QED
    BY <2>1, <2>2, <2>3
<1>7. \A m \in AiNodes : known_cols'[m] # None => m \in built'
  BY <1>2 DEF LoopInv
<1>8. LoopInv'
  BY <1>2, <1>3, <1>6, <1>7 DEF LoopInv
<1>9. QED
  BY <1>1, <1>8 DEF BuildInv

LEMMA FailKeepsBuildInv ==
    ASSUME BuildInv, Build!Fail
    PROVE  BuildInv'
<1>1. /\ build = "generate" /\ build' = "walk" /\ errors' = errors \cup {note}
      /\ UNCHANGED <<E, indeg, q, order, passed, told, known_cols, built>>
  BY DEF Build!Fail
<1>2. /\ known_cols \in [AiNodes -> {"declared", "parsed", None}]
      /\ note \in AiNodes /\ (known_cols[note] # None => note \in built)
  BY <1>1 DEF BuildInv, LoopInv
<1>3. Build!Answered' = Build!Answered \cup {note}
  BY <1>1 DEF Build!Answered
<1>4. QED
  BY <1>1, <1>2, <1>3, AnswerKeepsBuildInv

LEMMA BuildKeepsBuildInv ==
    ASSUME BuildInv, Build!Build
    PROVE  BuildInv'
<1>1. /\ build = "generate" /\ build' = "walk" /\ built' = built \cup {note}
      /\ UNCHANGED <<E, indeg, q, order, passed, told, errors>>
  BY DEF Build!Build
<1>2. PICK cols \in Build!Columns(note) : known_cols' = [known_cols EXCEPT ![note] = cols]
  BY DEF Build!Build
<1>3. cols \in {"declared", "parsed", None}
  BY <1>2 DEF Build!Columns
<1>4. known_cols \in [AiNodes -> {"declared", "parsed", None}] /\ note \in AiNodes
  BY <1>1 DEF BuildInv, LoopInv
<1>5. /\ known_cols' \in [AiNodes -> {"declared", "parsed", None}]
      /\ \A m \in AiNodes \ {note} : known_cols'[m] = known_cols[m]
  BY <1>2, <1>3, <1>4
<1>6. Build!Answered' = Build!Answered \cup {note}
  BY <1>1 DEF Build!Answered
<1>7. QED
  BY <1>1, <1>5, <1>6, AnswerKeepsBuildInv

LEMMA StepBuildInv ==
    ASSUME BuildInv, [Build!Next]_buildVars
    PROVE  BuildInv'
<1>1. ASSUME UNCHANGED <<E, indeg, q, order, passed, note, told, known_cols, built, errors>>,
             \/ build' = build
             \/ build = "sort" /\ q = <<>> /\ build' = "walk"
             \/ build = "walk" /\ passed = Len(order) /\ build' = "done"
      PROVE  BuildInv'
  <2>1. SortInv' /\ NoneBelowACycle' /\ LoopInv
    BY <1>1, SortStays DEF BuildInv
  <2>2. Past' = Past /\ Asked' = Asked /\ Build!Answered' = Build!Answered
    BY <1>1 DEF Past, Asked, Build!Answered
  <2>3. \A m : Build!up_cols(m)' = Build!up_cols(m)
    BY <1>1 DEF Build!up_cols, Build!parents
  <2>4. LoopInv'
    BY <1>1, <2>1, <2>2, <2>3 DEF LoopInv
  <2>5. QED
    BY <2>1, <2>4 DEF BuildInv
<1>2. CASE UNCHANGED buildVars
  BY <1>1, <1>2 DEF buildVars
<1>3. CASE Build!Done
  BY <1>1, <1>3 DEF Build!Done, Build!vars
<1>4. CASE Build!Walk \/ Build!Return
  BY <1>1, <1>4 DEF Build!Walk, Build!Return
<1>5. QED
  BY <1>2, <1>3, <1>4, PopKeepsBuildInv, SkipKeepsBuildInv, AskKeepsBuildInv, FailKeepsBuildInv, BuildKeepsBuildInv
     DEF Build!Next, Build!Step

LEMMA BuildInvTells == BuildInv => NotesToldAllThatIsKnown
<1> SUFFICES ASSUME BuildInv PROVE NotesToldAllThatIsKnown
  OBVIOUS
<1>1. SortInv /\ NoneBelowACycle /\ LoopInv /\ order \in Seq(Nodes)
  BY DEF BuildInv, SortInv
<1>2. Build!ToldAllThatIsKnown
  <2>1. Build!Answered \subseteq Asked
    BY DEF Asked
  <2>2. QED
    BY <1>1, <2>1 DEF Build!ToldAllThatIsKnown, LoopInv, Build!up_cols
<1>3. Build!AnsweredUnlessCyclic
  <2>1. SUFFICES ASSUME build = "done", NEW n \in AiNodes
                 PROVE  n \notin Build!Answered <=> Build!BelowCycle(n)
    <3>1. Build!Answered \subseteq AiNodes
      BY <1>1 DEF LoopInv, Asked
    <3>2. QED
      BY <2>1, <3>1 DEF Build!AnsweredUnlessCyclic
  <2>2. passed = Len(order) /\ q = <<>> /\ n \in Nodes
    BY <1>1, <2>1, TimeLimitsAssumption DEF LoopInv, TimeLimitsAssumption, Build!BuildFlowAssumption
  <2>3. n \in Build!Answered <=> n \in Sorted
    BY <1>1, <2>1, <2>2 DEF LoopInv, Asked, Past, Sorted
  <2>4. ASSUME n \notin Sorted PROVE Build!BelowCycle(n)
    <3> DEFINE S == Nodes \ Sorted
    <3>1. Queued = {}
      BY <2>2 DEF Queued
    <3>2. ASSUME NEW m \in S PROVE Build!parents(m) \cap S # {}
      <4>1. ~(Build!parents(m) \subseteq Sorted)
        BY <1>1, <3>1, <3>2 DEF SortInv
      <4>2. Build!parents(m) \subseteq Nodes
        BY DEF Build!parents
      <4>3. QED
        BY <4>1, <4>2
    <3>3. n \in S /\ S \in SUBSET Nodes
      BY <2>2, <2>4
    <3>4. QED
      BY <3>2, <3>3 DEF Build!BelowCycle
  <2>5. ASSUME Build!BelowCycle(n) PROVE n \notin Sorted
    BY <1>1, <2>5 DEF Build!BelowCycle, NoneBelowACycle
  <2>6. QED
    BY <2>3, <2>4, <2>5
<1>4. QED
  BY <1>2, <1>3 DEF NotesToldAllThatIsKnown

-----------------------------------------------------------------------------
(* Together: the three share no variable. *)

LimitsInv == RunInv /\ PoolInv /\ BuildInv

LEMMA InitLimitsInv == LimitsInit => LimitsInv
  BY InitRunInv, InitPoolInv, InitBuildInv DEF LimitsInit, LimitsInv

LEMMA StepLimitsInv ==
    ASSUME LimitsInv, [LimitsNext]_limitsVars
    PROVE  LimitsInv'
<1>1. [Next]_vars /\ [Pool!Next]_poolVars /\ [Build!Next]_buildVars
  BY DEF LimitsNext, Runs, Pooled, Builds, limitsVars
<1>2. QED
  BY <1>1, StepRunInv, StepPoolInv, StepBuildInv DEF LimitsInv

LEMMA TimeLimitsKeepInv == TimeLimits => []LimitsInv
  BY InitLimitsInv, StepLimitsInv, PTL DEF TimeLimits

\* runtime.py: a frame is returned only if the runner's last word was success and its output is
\* complete, on every platform.
THEOREM ReturnedFramesAreReal == Spec => []FramesAreReal
<1>1. RunInv => FramesAreReal
  BY DEF RunInv
<1>2. QED
  BY InitRunInv, StepRunInv, <1>1, PTL DEF Spec

\* live.py: _execute.  A limit is there when the statement it was set for runs, on every dialect that
\* has one.  Where a session does not outlive its limit, the server stops a statement only if that
\* was given one, whichever thread had the connection before and however it ended, and a catalog
\* read never times out; MySQL, Snowflake and Trino are the ones where it does.
THEOREM LimitsAreTheirOwn == TimeLimits => []OnlyOwnLimit
<1>1. LimitsInv => OnlyOwnLimit
  BY PoolInvIsOwnLimit DEF LimitsInv
<1>2. QED
  BY TimeLimitsKeepInv, <1>1, PTL

\* agent.py: build_flow.  For every flow, whatever the provider answers: the request of a note names
\* the columns of all notes right above it that have some in the end; and when the build returns,
\* the notes without an answer are those from which one can go up from parent to parent for ever.
THEOREM NotesAreToldAndAnswered == TimeLimits => []NotesToldAllThatIsKnown
<1>1. LimitsInv => NotesToldAllThatIsKnown
  BY BuildInvTells DEF LimitsInv
<1>2. QED
  BY TimeLimitsKeepInv, <1>1, PTL
=============================================================================
