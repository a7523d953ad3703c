------------------------------- MODULE LivePool -------------------------------
(* The pooled connections of one engine of explore/live.py (_execute), shared by the chart
   queries and the catalog reads of overlapping requests, and the time limits they run under.

   Dialects: "local" is PostgreSQL, "reset" Redshift, "session" MySQL, Snowflake and Trino,
   "hint" ClickHouse, and "waited" those without a statement timeout of their own.  A server
   stops a statement by the limit of its session, whoever set it. *)
EXTENDS Naturals

CONSTANTS
    Requests, Tasks, Connections, None,
    Dialects,
    MaxAsked    \* bound

AllDialects == {"local", "reset", "session", "hint", "waited"}
\* assumed of every instance, by the module that makes it
LivePoolAssumption ==
    Dialects \subseteq AllDialects /\ MaxAsked \in Nat /\ None \notin Connections \cup Tasks

VARIABLES
    dialect,
    readonly,   \* is the user of ClickHouse one that may not change a setting?
    responsive, \* does the database come back from a round trip, but for the statement itself?
    limit,      \* per connection: does its session have a statement timeout?
    task,       \* per thread that is in run(): what it does, for whom, on which connection
    waits,      \* per request: the task it waits for, or None
    asked,
    outcome     \* per request: how its last one ended
vars == <<dialect, readonly, responsive, limit, task, waits, asked, outcome>>
fixed == <<dialect, readonly, responsive>>

NoTask == [pc |-> "idle", kind |-> "chart", patient |-> TRUE, limited |-> FALSE, con |-> None, end |-> "none"]

Init ==
    /\ dialect \in Dialects
    /\ readonly \in IF dialect = "hint" THEN BOOLEAN ELSE {FALSE}
    /\ responsive \in BOOLEAN
    /\ limit = [c \in Connections |-> FALSE]
    /\ task = [t \in Tasks |-> NoTask]
    /\ waits = [r \in Requests |-> None]
    /\ asked = 0
    /\ outcome = [r \in Requests |-> "none"]

Free == {c \in Connections : \A t \in Tasks : task[t].con # c}
Goes(t, r) == task' = [task EXCEPT ![t] = r]

(* list_tables, live_schema: a catalog read, under no limit. live_query: _execute. *)
Ask(r) ==
    /\ waits[r] = None /\ asked < MaxAsked
    /\ asked' = asked + 1
    /\ \E t \in Tasks, kind \in {"chart", "catalog"} :
          /\ task[t].pc = "idle"
          /\ Goes(t, [NoTask EXCEPT !.pc = "connect", !.kind = kind,
                                    !.patient = kind = "catalog" \/ dialect # "waited",
                                    !.limited = kind = "chart" /\ dialect # "waited"])
          /\ waits' = [waits EXCEPT ![r] = t]
    /\ outcome' = [outcome EXCEPT ![r] = "none"]
    /\ UNCHANGED <<fixed, limit>>

Connect(t) ==
    /\ task[t].pc = "connect"
    /\ \E c \in Free : Goes(t, [task[t] EXCEPT !.pc = "set", !.con = c])
    /\ UNCHANGED <<fixed, limit, waits, asked, outcome>>

(* All connections are in use until the pool gives up waiting. *)
NoConnection(t) ==
    /\ task[t].pc = "connect" /\ Free = {}
    /\ Goes(t, [task[t] EXCEPT !.pc = "ended", !.end = "error"])
    /\ UNCHANGED <<fixed, limit, waits, asked, outcome>>

(* SET LOCAL, SET, SET SESSION, ALTER SESSION; a hint is part of the statement. *)
SetLimit(t) ==
    /\ task[t].pc = "set"
    /\ Goes(t, [task[t] EXCEPT !.pc = "query"])
    /\ limit' = IF task[t].limited /\ dialect \in {"local", "reset", "session"}
                THEN [limit EXCEPT ![task[t].con] = TRUE] ELSE limit
    /\ UNCHANGED <<fixed, waits, asked, outcome>>

\* What stops the statement that task t has under way.
Stops(t) == limit[task[t].con] \/ (task[t].limited /\ dialect = "hint")

Runs(t, end) ==
    /\ task[t].pc = "query"
    /\ Goes(t, [task[t] EXCEPT !.pc = "release", !.end = end])
    /\ UNCHANGED <<fixed, limit, waits, asked, outcome>>

(* A user with readonly = 1 may not send the hint. *)
Refuses(t) == readonly /\ task[t].limited

Answers(t) == ~Refuses(t) /\ Runs(t, "rows")
Errs(t) == ~Refuses(t) /\ Runs(t, "error")
StoppedByServer(t) == Runs(t, "timeout") /\ ~Refuses(t) /\ Stops(t)
RefusesHint(t) == Refuses(t) /\ Runs(t, "readonly")

\* Mutated form: the setting is cleared after an answer only.
ClearedOnSuccess(t) == dialect = "local" \/ (dialect = "reset" /\ task[t].end = "rows")

\* SET LOCAL ends with the transaction; Redshift's setting is cleared in the finally.
Cleared(t) == dialect \in {"local", "reset"}

(* rollback, RESET, and the connection goes back to the pool. *)
Release(t) ==
    /\ task[t].pc = "release"
    /\ limit' = IF Cleared(t) THEN [limit EXCEPT ![task[t].con] = FALSE] ELSE limit
    /\ Goes(t, [task[t] EXCEPT !.pc = "ended", !.con = None])
    /\ UNCHANGED <<fixed, waits, asked, outcome>>

\* The statement again, without the hint; waited().
Fallback(t) == [NoTask EXCEPT !.pc = "connect", !.patient = FALSE]

(* The end of run() reaches the request, or nobody. *)
Deliver(t) ==
    /\ task[t].pc = "ended"
    /\ IF task[t].end = "readonly"
       THEN Goes(t, Fallback(t)) /\ UNCHANGED <<waits, outcome>>
       ELSE /\ Goes(t, NoTask)
            /\ waits' = [r \in Requests |-> IF waits[r] = t THEN None ELSE waits[r]]
            /\ outcome' = [r \in Requests |-> IF waits[r] = t THEN task[t].end ELSE outcome[r]]
    /\ UNCHANGED <<fixed, limit, asked>>

(* .result(timeout=...): the thread is left to itself. *)
GivesUp(r) ==
    /\ waits[r] # None /\ ~task[waits[r]].patient
    /\ outcome' = [outcome EXCEPT ![r] = "timeout"]
    /\ waits' = [waits EXCEPT ![r] = None]
    /\ UNCHANGED <<fixed, limit, task, asked>>

Rest == (\A t \in Tasks : task[t].pc = "idle") /\ UNCHANGED vars

\* Steps that are a round trip to the database: a connection is made, or pinged before it is used;
\* a setting, its reset, a rollback; a refusal.  The code waits for them without a limit.
RoundTrip(t) == Connect(t) \/ SetLimit(t) \/ RefusesHint(t) \/ Release(t)

Next ==
    \/ \E r \in Requests : Ask(r) \/ GivesUp(r)
    \/ \E t \in Tasks : RoundTrip(t) \/ NoConnection(t) \/ Deliver(t) \/ Answers(t) \/ Errs(t) \/ StoppedByServer(t)
    \/ Rest

Spec == Init /\ [][Next]_vars

\* Threads go on; what they wait for comes if the database responds.
Works(t) == NoConnection(t) \/ Deliver(t) \/ (responsive /\ RoundTrip(t))

\* The server stops a statement at its limit, and what it says of it arrives, if it responds.
LimitRunsOut(t) == responsive /\ StoppedByServer(t)

(* Threads go on and the waits of the program run out, but a statement need never be answered, and
   a database that is not responsive may leave any round trip without an end. *)
FairSpec ==
    /\ Spec
    /\ \A t \in Tasks : WF_vars(Works(t)) /\ WF_vars(LimitRunsOut(t))
    /\ \A r \in Requests : WF_vars(GivesUp(r))

-----------------------------------------------------------------------------
\* Shapes; no connection is in the hands of two threads, nor a thread waited for twice.
TypeOK ==
    /\ dialect \in AllDialects /\ {readonly, responsive} \subseteq BOOLEAN /\ limit \in [Connections -> BOOLEAN]
    /\ task \in [Tasks -> [pc : {"idle", "connect", "set", "query", "release", "ended"},
                           kind : {"chart", "catalog"}, patient : BOOLEAN, limited : BOOLEAN,
                           con : Connections \cup {None},
                           end : {"none", "rows", "error", "timeout", "readonly"}]]
    /\ \A t, u \in Tasks : t # u /\ task[t].con # None => task[t].con # task[u].con
    /\ waits \in [Requests -> Tasks \cup {None}] /\ asked \in 0..MaxAsked
    /\ \A r, q \in Requests : r # q /\ waits[r] # None => waits[r] # waits[q]
    /\ outcome \in [Requests -> {"none", "rows", "error", "timeout"}]

\* live.py:177, :195: what a chart query sets on a pooled connection is there when its statement
\* runs, and gone when the next one takes it, however it ended.  So the server stops a statement
\* that was given a limit; and, except on MySQL, Snowflake and Trino, where nothing clears the
\* setting, no other one, a catalog read least of all.
OnlyOwnLimit ==
    \A t \in Tasks :
        /\ task[t].pc = "query" /\ task[t].limited => Stops(t)
        /\ dialect # "session" =>
              /\ task[t].pc = "query" /\ Stops(t) => task[t].limited
              /\ task[t].end = "timeout" => task[t].kind = "chart"

\* live.py: a chart that the program itself gives up after its time ends whatever the database
\* does, also while abandoned statements keep the connections: on the dialects that are waited for,
\* and when ClickHouse refused the hint.  The others are answered or stopped in the end on a
\* database that comes back from round trips, however long it takes over the statement.
ChartsEnd ==
    \A r \in Requests :
        [](/\ waits[r] # None /\ task[waits[r]].kind = "chart"
           /\ responsive \/ ~task[waits[r]].patient
           => <>(waits[r] = None))
=============================================================================
