----------------------------- MODULE ProjectStore -----------------------------
(* A project's file and the jobs of its flows (services/project_service.py,
   api/projects.py, register_flow and unregister_flow of scheduler/scheduler.py).

   Endpoints are plain functions, so FastAPI runs each request in a thread of its own.  A
   save reads the file, merges, opens the file for writing, which truncates it, writes it,
   and then visits the flows one by one to register or unregister their jobs.  Each of these
   steps may be interleaved with those of other requests. *)
EXTENDS Naturals, FiniteSets

CONSTANTS
    Clients,    \* threads serving requests about the project
    Payloads,   \* bodies of PUT requests: [some flows -> Plans]
    Fresh,      \* the flows of a project as it is created
    Absent, Empty, Garbled, NoJob,
    MaxSaves,   \* bound on the requests
    Restarts    \* when the backend may be restarted: "never", "quiet" (no request) or "ever"

(* What a flow's trigger node asks for: "manual" stands for every schedule that is switched
   off (run mode, no cron, inactive flow), "badcron" for one that does not parse. *)
Crons == {"cron1", "cron2"}
Plans == Crons \cup {"manual", "badcron", "untriggered"}

AllFlows == UNION {DOMAIN p : p \in Payloads \cup {Fresh}}
Unreadable == {Empty, Garbled}

(* create_project sets its flow to run by hand, and so do the examples it may be filled from. *)
ASSUME ProjectStoreAssumption ==
    /\ MaxSaves \in Nat /\ Restarts \in {"never", "quiet", "ever"}
    /\ Payloads # {} /\ \A p \in Payloads : \A f \in DOMAIN p : p[f] \in Plans
    /\ \A f \in DOMAIN Fresh : Fresh[f] \in Plans \ Crons
    /\ Absent \notin Unreadable /\ NoJob \notin Crons
    /\ (Unreadable \cup {Absent}) \cap (Payloads \cup {Fresh}) = {}

VARIABLES
    file,       \* the project's file: its content, or Absent, Empty (truncated), Garbled
    jobs,       \* per flow, the cron expression its job fires at
    pc, payload, todo,   \* per request
    saves,
    disturbed   \* history: two requests overlapped, or the backend was restarted
storeVars == <<file, jobs, pc, payload, todo, saves, disturbed>>

Quiet    == \A c \in Clients : pc[c] = "idle"
Readable == file # Absent /\ file \notin Unreadable

(* create_project, create_project_from_flow: a new id, so nobody else sees the file yet. *)
StoreInit ==
    /\ file = Fresh
    /\ jobs = [f \in AllFlows |-> NoJob]
    /\ pc = [c \in Clients |-> "idle"]
    /\ payload = [c \in Clients |-> CHOOSE p \in Payloads : TRUE]
    /\ todo = [c \in Clients |-> {}]
    /\ saves = 0
    /\ disturbed = FALSE

(* A request for a missing or unreadable project fails here and leaves no trace.  What is
   kept of the content read (the name, if the request has none) is left out. *)
Read(c) ==
    /\ pc[c] = "idle" /\ Readable /\ saves < MaxSaves
    /\ \E p \in Payloads : payload' = [payload EXCEPT ![c] = p]
    /\ pc' = [pc EXCEPT ![c] = "read"]
    /\ saves' = saves + 1
    /\ disturbed' = (disturbed \/ ~Quiet)
    /\ UNCHANGED <<file, jobs, todo>>

(* write_text opens the file, which creates or truncates it ... *)
Open(c) ==
    /\ pc[c] = "read"
    /\ file' = Empty
    /\ pc' = [pc EXCEPT ![c] = "opened"]
    /\ UNCHANGED <<jobs, payload, todo, saves, disturbed>>

(* ... and writes from the start.  If somebody else has written since, a tail of theirs
   may remain; if the file was unlinked, what is written goes with it. *)
Written(c) ==
    IF file = Empty THEN {payload[c]} ELSE {payload[c], Garbled}

Write(c) ==
    /\ \/ pc[c] = "opened" /\ file' \in Written(c)
       \/ pc[c] = "orphaned" /\ UNCHANGED file
    /\ pc' = [pc EXCEPT ![c] = "registering"]
    /\ todo' = [todo EXCEPT ![c] = DOMAIN payload[c]]
    /\ UNCHANGED <<jobs, payload, saves, disturbed>>

\* Mutated form: the job of a flow that is switched off is left alone.
JobAfterSwitch(plan, job) == IF plan \in Crons THEN plan ELSE job
(* register_flow and unregister_flow.  A flow without a trigger node is passed over, and so is
   an expression that does not parse. *)
JobAfter(plan, job) ==
    IF plan \in Crons THEN plan ELSE IF plan = "manual" THEN NoJob ELSE job

Register(c) ==
    /\ pc[c] = "registering"
    /\ \E f \in todo[c] :
          /\ jobs' = [jobs EXCEPT ![f] = JobAfter(payload[c][f], @)]
          /\ todo' = [todo EXCEPT ![c] = @ \ {f}]
    /\ UNCHANGED <<file, pc, payload, saves, disturbed>>

Answer(c) ==
    /\ pc[c] = "registering" /\ todo[c] = {}
    /\ pc' = [pc EXCEPT ![c] = "idle"]
    /\ UNCHANGED <<file, jobs, payload, todo, saves, disturbed>>

Delete(c) ==
    /\ pc[c] = "idle" /\ file # Absent
    /\ file' = Absent
    /\ pc' = [d \in Clients |-> IF pc[d] = "opened" THEN "orphaned" ELSE pc[d]]
    /\ disturbed' = (disturbed \/ ~Quiet)
    /\ UNCHANGED <<jobs, payload, todo, saves>>

(* Jobs live in memory; nothing registers any when the backend starts. *)
StoreRestart ==
    /\ Restarts = "ever" \/ (Restarts = "quiet" /\ Quiet)
    /\ jobs' = [f \in AllFlows |-> NoJob]
    /\ pc' = [c \in Clients |-> "idle"]
    /\ todo' = [c \in Clients |-> {}]
    /\ disturbed' = TRUE
    /\ UNCHANGED <<file, payload, saves>>

StoreNext ==
    \/ \E c \in Clients :
          Read(c) \/ Open(c) \/ Write(c) \/ Register(c) \/ Answer(c) \/ Delete(c)
    \/ StoreRestart
    \/ Quiet /\ (saves = MaxSaves \/ ~Readable) /\ UNCHANGED storeVars   \* the bound is reached

StoreSpec == StoreInit /\ [][StoreNext]_storeVars

-----------------------------------------------------------------------------
\* Shapes of the file, of the jobs and of the requests.
StoreTypeOK ==
    /\ file \in Payloads \cup {Fresh, Absent} \cup Unreadable
    /\ jobs \in [AllFlows -> Crons \cup {NoJob}]
    /\ pc \in [Clients -> {"idle", "read", "opened", "orphaned", "registering"}]
    /\ payload \in [Clients -> Payloads]
    /\ todo \in [Clients -> SUBSET AllFlows] /\ \A c \in Clients : todo[c] \subseteq DOMAIN payload[c]
    /\ saves \in 0..MaxSaves /\ disturbed \in BOOLEAN

FollowsFile(f) ==
    /\ file[f] \in Crons => jobs[f] = file[f]
    /\ file[f] = "manual" => jobs[f] = NoJob

\* When no request is under way, every flow of the project that asks for a schedule has its
\* job, at the cron expression saved last, and the flows that switched it off have none: the
\* loop of save_project in api/projects.py keeps the jobs in step with the file.
JobsFollowFile == Quiet /\ Readable => \A f \in DOMAIN file : FollowsFile(f)

\* The same while requests come one after the other and the backend is not restarted.
JobsFollowFileInSequence == disturbed \/ JobsFollowFile

\* save_project rewrites the project's file in place.  Only requests that overlap, or a
\* backend that stops in the middle of one, leave it unreadable.
WholeUnlessDisturbed == Quiet /\ ~disturbed => file \notin Unreadable

\* Both: what requests that do not overlap may rely on.
SavedAndScheduled == JobsFollowFileInSequence /\ WholeUnlessDisturbed
=============================================================================
