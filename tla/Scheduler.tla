------------------------------ MODULE Scheduler ------------------------------
(* Scheduled runs (scheduler/scheduler.py, services/alert_service.py) of the flows of
   the project that ProjectStore keeps.

   A job fires in a thread of the scheduler: it reads the project's file, checks the
   calendar and then makes up to retries + 1 attempts, with a row of run_history for each
   and a sleep in between, all of them of the flow as it was read at the firing.
   APScheduler does not start a job that is still running (max_instances is 1). *)
EXTENDS ProjectStore, Sequences

CONSTANTS
    Config,      \* per plan: [retries, alert, calendar], _trigger_config of the trigger node
    Faults,      \* subset of {"db"}: run_history may refuse a write
    MaxFirings   \* bound on the firings, of all flows together

ASSUME SchedulerAssumption ==
    /\ Config \in [Plans -> [retries : Nat, alert : BOOLEAN, calendar : BOOLEAN]]
    /\ Faults \subseteq {"db"} /\ MaxFirings \in Nat

VARIABLES
    stage,       \* per flow, where its firing stands
    run,         \* ... its number, the plan it read, its attempt
    rows,        \* per flow, the rows of run_history, in the order they were opened
    alerts,      \* the firings that raised an alert
    firings,
    abandoned    \* history: the firings that a restart or a failing run_history cut short
runVars == <<stage, run, rows, alerts, firings, abandoned>>
vars == <<storeVars, runVars>>

Init ==
    /\ StoreInit
    /\ stage = [f \in AllFlows |-> "idle"]
    /\ run = [f \in AllFlows |-> [firing |-> 0, plan |-> "manual", attempt |-> 0]]
    /\ rows = [f \in AllFlows |-> << >>]
    /\ alerts = {} /\ firings = 0
    /\ abandoned = {}

Settings(f) == Config[run[f].plan]

End(f) == stage' = [stage EXCEPT ![f] = "idle"]

Fires(f) ==
    /\ jobs[f] # NoJob /\ stage[f] = "idle" /\ firings < MaxFirings
    /\ firings' = firings + 1
    /\ UNCHANGED <<storeVars, rows, alerts, abandoned>>

(* get_project answers None for a deleted project, which has no .get, and raises for a
   file that is being written. *)
FireRaises(f) == Fires(f) /\ ~Readable /\ UNCHANGED <<stage, run>>

FireNotFound(f) ==
    Fires(f) /\ Readable /\ f \notin DOMAIN file /\ UNCHANGED <<stage, run>>

Found(f) ==
    /\ Fires(f) /\ Readable /\ f \in DOMAIN file
    /\ run' = [run EXCEPT ![f] = [firing |-> firings + 1, plan |-> file[f], attempt |-> 0]]

FireSkipped(f) == Found(f) /\ Config[file[f]].calendar /\ UNCHANGED stage

Fire(f) == Found(f) /\ stage' = [stage EXCEPT ![f] = "starting"]

NewRow(f) == [firing |-> run[f].firing, attempt |-> run[f].attempt + 1, status |-> "running"]

\* Mutated form: nobody wakes up after the sleep.
OpenRowOnce(f) ==
    /\ stage[f] = "starting"
    /\ run' = [run EXCEPT ![f].attempt = @ + 1]
    /\ rows' = [rows EXCEPT ![f] = Append(@, NewRow(f))]
    /\ stage' = [stage EXCEPT ![f] = "executing"]
    /\ UNCHANGED <<storeVars, alerts, firings, abandoned>>

(* _record("running", ...), at the first attempt or after the sleep *)
OpenRow(f) ==
    /\ stage[f] \in {"starting", "sleeping"}
    /\ run' = [run EXCEPT ![f].attempt = @ + 1]
    /\ rows' = [rows EXCEPT ![f] = Append(@, NewRow(f))]
    /\ stage' = [stage EXCEPT ![f] = "executing"]
    /\ UNCHANGED <<storeVars, alerts, firings, abandoned>>

(* execute_flow returns its results or raises; the status is decided right after it. *)
Execute(f) ==
    /\ stage[f] = "executing"
    /\ \E s \in {"ok", "stopped", "error"} : stage' = [stage EXCEPT ![f] = s]
    /\ UNCHANGED <<storeVars, run, rows, alerts, firings, abandoned>>

Settled(f) == rows' = [rows EXCEPT ![f][Len(rows[f])].status = stage[f]]

Succeed(f) ==
    /\ stage[f] \in {"ok", "stopped"}
    /\ Settled(f) /\ End(f)
    /\ UNCHANGED <<storeVars, run, alerts, firings, abandoned>>

\* Mutated form: a stopped run is retried like a failed one.
RetryStopped(f) ==
    /\ stage[f] \in {"error", "stopped"} /\ run[f].attempt <= Settings(f).retries
    /\ Settled(f) /\ stage' = [stage EXCEPT ![f] = "sleeping"]
    /\ UNCHANGED <<storeVars, run, alerts, firings, abandoned>>

\* Mutated form: every failure is alerted.
RetryAlerting(f) ==
    /\ stage[f] = "error" /\ run[f].attempt <= Settings(f).retries
    /\ Settled(f) /\ stage' = [stage EXCEPT ![f] = "sleeping"]
    /\ alerts' = alerts \cup {run[f].firing}
    /\ UNCHANGED <<storeVars, run, firings, abandoned>>

Retry(f) ==
    /\ stage[f] = "error" /\ run[f].attempt <= Settings(f).retries
    /\ Settled(f) /\ stage' = [stage EXCEPT ![f] = "sleeping"]
    /\ UNCHANGED <<storeVars, run, alerts, firings, abandoned>>

(* alert_failure tries Slack, then mail; what fails is swallowed. *)
Alerted(f) == IF Settings(f).alert THEN alerts \cup {run[f].firing} ELSE alerts

Fail(f) ==
    /\ stage[f] = "error" /\ run[f].attempt > Settings(f).retries
    /\ Settled(f) /\ End(f)
    /\ alerts' = Alerted(f)
    /\ UNCHANGED <<storeVars, run, firings, abandoned>>

(* A row that cannot be written raises out of the loop. *)
RecordFails(f) ==
    /\ "db" \in Faults /\ stage[f] \notin {"idle", "executing"}
    /\ End(f) /\ abandoned' = abandoned \cup {run[f].firing}
    /\ UNCHANGED <<storeVars, run, rows, alerts, firings>>

StoreStep == StoreNext /\ ~StoreRestart /\ UNCHANGED runVars

Restart ==
    /\ StoreRestart
    /\ stage' = [f \in AllFlows |-> "idle"]
    /\ abandoned' = abandoned \cup {run[f].firing : f \in {g \in AllFlows : stage[g] # "idle"}}
    /\ UNCHANGED <<run, rows, alerts, firings>>

Work(f) == OpenRow(f) \/ Execute(f) \/ Succeed(f) \/ Retry(f) \/ Fail(f)

Next ==
    \/ StoreStep \/ Restart
    \/ \E f \in AllFlows :
          FireRaises(f) \/ FireNotFound(f) \/ FireSkipped(f) \/ Fire(f) \/ Work(f) \/ RecordFails(f)

Spec == Init /\ [][Next]_vars
(* The scheduler's threads go on; that execute_flow returns is assumed of user code. *)
FairSpec == Spec /\ \A f \in AllFlows : WF_vars(Work(f))

-----------------------------------------------------------------------------
Statuses == {"running", "ok", "stopped", "error"}

\* Shapes of the firings, of their rows and of the alerts.
TypeOK ==
    /\ StoreTypeOK
    /\ stage \in [AllFlows -> {"idle", "starting", "executing", "ok", "stopped", "error", "sleeping"}]
    /\ run \in [AllFlows -> [firing : 0..MaxFirings, plan : Plans, attempt : Nat]]
    /\ rows \in [AllFlows -> Seq([firing : 1..MaxFirings, attempt : Nat \ {0}, status : Statuses])]
    /\ alerts \subseteq 1..MaxFirings /\ firings \in 0..MaxFirings
    /\ abandoned \subseteq 1..MaxFirings

RowsOf(f, n) == {i \in DOMAIN rows[f] : rows[f][i].firing = n}

\* run_history tells every firing as it was: its attempts are numbered from one, each after the
\* first follows a failed one of the same firing, and at most one of all of a flow's rows is
\* that of an attempt under way.  Rows of a dead process stay open, but nothing follows them.
RowsAreAttempts ==
    \A f \in AllFlows : \A i \in DOMAIN rows[f] :
        /\ rows[f][i].attempt = Cardinality({j \in RowsOf(f, rows[f][i].firing) : j <= i})
        /\ rows[f][i].attempt > 1 => rows[f][i - 1].status = "error"

\* An alert is the end of a firing that made all of its attempts in vain: nothing of that
\* firing succeeded, and nothing of it is attempted later.
AlertsAreFinal ==
    \A f \in AllFlows : run[f].firing \in alerts =>
        /\ stage[f] = "idle"
        /\ Cardinality(RowsOf(f, run[f].firing)) = Settings(f).retries + 1
        /\ \A i \in RowsOf(f, run[f].firing) : rows[f][i].status = "error"

\* Whoever asked to be told of failures is told: a firing whose last attempt failed, and that no
\* restart or failing run_history cut short, has raised its alert when it is over.
FailuresAreAlerted ==
    \A f \in AllFlows : stage[f] = "idle" /\ Settings(f).alert /\ run[f].firing \notin abandoned =>
        \A i \in RowsOf(f, run[f].firing) :
            i = Len(rows[f]) /\ rows[f][i].status = "error" => run[f].firing \in alerts

\* No row says "running" of an attempt that is over, except those of firings that a restart or
\* a failing run_history cut short.
OpenRowsAreLive ==
    \A f \in AllFlows : \A i \in DOMAIN rows[f] : rows[f][i].status = "running" =>
        \/ rows[f][i].firing \in abandoned
        \/ i = Len(rows[f]) /\ stage[f] \in {"executing", "ok", "stopped", "error"}

\* The rows of a flow are the record of its firings: attempts in order, none left open.
RowsTellFirings == RowsAreAttempts /\ OpenRowsAreLive

\* An alert tells of a firing that failed for good, and no such firing goes untold.
AlertsTellFailures == AlertsAreFinal /\ FailuresAreAlerted

\* Every firing comes to its end: retries are bounded, and no attempt is forgotten asleep.
FiringsEnd == \A f \in AllFlows : stage[f] # "idle" ~> stage[f] = "idle"

\* docs/CAPABILITIES.md:23, of the trigger: "Manual (click Run) or Schedule (cron). Holds
\* scheduling config."  What the scheduler runs has a trigger that is set to a schedule.
OnlyScheduledFlowsRun ==
    \A f \in AllFlows : stage[f] = "executing" => run[f].plan \in Crons \cup {"badcron"}
=============================================================================
