----------------------------- MODULE ExploreLive -----------------------------
(* Explore on a live connection: the pooled engine that is kept per connection
   (explore/live.py, engine_for) and the schema that is kept per source (api/explore.py,
   _live_schema), while the connection is edited and the database itself changes.

   One connection, one source on it.  A request reads the connection's row, takes the engine
   in the event loop, and goes on in a thread of the pool. *)
EXTENDS Naturals, FiniteSets

CONSTANTS
    Requests,
    None,
    FreshArgs,     \* BOOLEAN: do the driver's connect_args print differently each time?
    MaxEdits, MaxAlters, MaxRequests   \* bounds

ASSUME ExploreLiveAssumption ==
    /\ FreshArgs \in BOOLEAN
    /\ {MaxEdits, MaxAlters, MaxRequests} \subseteq Nat
    /\ None \notin [version : Nat, number : Nat] /\ None \notin Nat \X Nat

VARIABLES
    row,        \* the stored connection: its version, and whether its password can be decrypted
    catalog,    \* the columns of the source, as the number of times they changed
    cached,     \* _engines[name]: an engine, or None
    made,       \* the engines created so far
    disposed,
    schema,     \* _schemas[key]: what was read, and whether it is younger than _SCHEMA_TTL_S
    pc, req,    \* per request: where it stands, and its locals
    served,
    overlapped  \* history: the requests that ran at the same time as another one
vars == <<row, catalog, cached, made, disposed, schema, pc, req, served, overlapped>>
stored == <<row, catalog>>

Idle == [kind |-> "query", version |-> 0, engine |-> None, fields |-> None, began |-> None]

Init ==
    /\ row = [version |-> 0, state |-> "usable"]
    /\ catalog = 0
    /\ cached = None /\ made = {} /\ disposed = {}
    /\ schema = None
    /\ pc = [r \in Requests |-> "idle"]
    /\ req = [r \in Requests |-> Idle]
    /\ served = 0
    /\ overlapped = {}

Goes(r, from, to) == pc[r] = from /\ pc' = [pc EXCEPT ![r] = to]

(* What the source looks like through the given version of the connection. *)
Columns(version) == <<version, catalog>>

(* list_connections, connection_maps: a missing connection is a 404, a broken one a 400. *)
ReadConnection(r) ==
    /\ served < MaxRequests /\ row.state = "usable"
    /\ Goes(r, "idle", "read")
    /\ \E k \in {"query", "open"} :
          req' = [req EXCEPT ![r] = [Idle EXCEPT !.kind = k, !.version = row.version,
                                                 !.began = Columns(row.version)]]
    /\ served' = served + 1
    /\ LET others == {q \in Requests \ {r} : pc[q] # "idle"} IN
       overlapped' = IF others = {} THEN overlapped \ {r} ELSE overlapped \cup others \cup {r}
    /\ UNCHANGED <<stored, cached, made, disposed, schema>>

\* Mutated form: the engine is found by the name of its connection.
HitByName(r) == cached # None

(* The key is the URL and the options, printed: with FreshArgs no two keys are equal. *)
Hit(r) == cached # None /\ cached.version = req[r].version /\ ~FreshArgs

Created(r) == [version |-> req[r].version, number |-> Cardinality(made) + 1]

Retired == IF cached = None THEN disposed ELSE disposed \cup {cached}

\* Mutated form: a source is opened with the schema that is kept.
SchemaKept(r) == schema

SchemaLeft(r) == IF req[r].kind = "open" THEN None ELSE schema

(* engine_for, and for a source that is being opened _schemas.pop, with no await between. *)
TakeEngine(r) ==
    /\ Goes(r, "read", "engined")
    /\ IF Hit(r)
       THEN UNCHANGED <<cached, made, disposed>>
       ELSE /\ cached' = Created(r)
            /\ made' = made \cup {Created(r)}
            /\ disposed' = Retired
    /\ req' = [req EXCEPT ![r].engine = cached']
    /\ schema' = SchemaLeft(r)
    /\ UNCHANGED <<stored, served, overlapped>>

Young == schema # None /\ schema.young

FindSchema(r) ==
    /\ Young
    /\ Goes(r, "engined", "fielded")
    /\ req' = [req EXCEPT ![r].fields = schema.columns]
    /\ UNCHANGED <<stored, cached, made, disposed, schema, served, overlapped>>

MissSchema(r) ==
    /\ ~Young
    /\ Goes(r, "engined", "missed")
    /\ UNCHANGED <<stored, cached, made, disposed, schema, req, served, overlapped>>

(* live_schema asks the database that the request's engine is connected to. *)
FetchSchema(r) ==
    /\ Goes(r, "missed", "fetched")
    /\ req' = [req EXCEPT ![r].fields = Columns(req[r].engine.version)]
    /\ UNCHANGED <<stored, cached, made, disposed, schema, served, overlapped>>

StoreSchema(r) ==
    /\ Goes(r, "fetched", "fielded")
    /\ schema' = [columns |-> req[r].fields, young |-> TRUE]
    /\ UNCHANGED <<stored, cached, made, disposed, req, served, overlapped>>

(* The fields are the answer, or the query is compiled for them and executed.  The database
   may refuse anything that is asked of it. *)
Answer(r) ==
    /\ Goes(r, "fielded", "idle") \/ Goes(r, "missed", "idle")
    /\ UNCHANGED <<stored, cached, made, disposed, schema, req, served, overlapped>>

(* _SCHEMA_TTL_S passes. *)
Age ==
    /\ schema # None /\ schema' = [schema EXCEPT !.young = FALSE]
    /\ UNCHANGED <<stored, cached, made, disposed, pc, req, served, overlapped>>

(* update_connection and delete_connection; SECRET_KEY may have changed since a password
   was saved, and a new password makes the connection usable again. *)
Edit ==
    /\ row.version < MaxEdits
    /\ \E s \in {"usable", "broken", "deleted"} :
          row' = [version |-> row.version + 1, state |-> s]
    /\ UNCHANGED <<catalog, cached, made, disposed, schema, pc, req, served, overlapped>>

Alter ==
    /\ catalog < MaxAlters
    /\ catalog' = catalog + 1
    /\ UNCHANGED <<row, cached, made, disposed, schema, pc, req, served, overlapped>>

Done == (\A r \in Requests : pc[r] = "idle") /\ UNCHANGED vars

Handle(r) ==
    \/ ReadConnection(r) \/ TakeEngine(r) \/ FindSchema(r) \/ MissSchema(r)
    \/ FetchSchema(r) \/ StoreSchema(r) \/ Answer(r)

Next == (\E r \in Requests : Handle(r)) \/ Age \/ Edit \/ Alter \/ Done

Spec == Init /\ [][Next]_vars

-----------------------------------------------------------------------------
Engine == [version : 0..MaxEdits, number : Nat]
Seen   == (0..MaxEdits) \X (0..MaxAlters)

\* Shapes of the caches and of the requests.
TypeOK ==
    /\ row \in [version : 0..MaxEdits, state : {"usable", "broken", "deleted"}]
    /\ catalog \in 0..MaxAlters
    /\ made \subseteq Engine /\ disposed \subseteq made /\ cached \in made \cup {None}
    /\ schema \in [columns : Seen, young : BOOLEAN] \cup {None}
    /\ pc \in [Requests -> {"idle", "read", "engined", "missed", "fetched", "fielded"}]
    /\ req \in [Requests -> [kind : {"query", "open"}, version : 0..MaxEdits, engine : Engine \cup {None},
                             fields : Seen \cup {None}, began : Seen \cup {None}]]
    /\ served \in 0..MaxRequests /\ overlapped \subseteq Requests

\* engine_for: a request works on the connection as it read it, though another request may have
\* read an edit meanwhile and replaced the engine under the same name.
OwnEngine == \A r \in Requests : req[r].engine # None => req[r].engine.version = req[r].version

\* engine_for: however requests of different versions take turns, every engine but the one
\* that is kept has been disposed of, and that one has not.
OneEngineKept == disposed = made \ {cached}

\* Both: what _engines and _engine_keys are kept for.
EnginesOfTheirRequests == OwnEngine /\ OneEngineKept

ReReads(r) ==
    pc[r] = "fielded" /\ req[r].kind = "open"
        => req[r].fields[1] = req[r].version /\ req[r].fields[2] >= req[r].began[2]

\* api/explore.py:138: "opening a source re-reads it".  Who opens a source is told its columns
\* as they are at some time after the request began.
OpenReReads == \A r \in Requests : ReReads(r)

\* The same for a request that no other one overlapped.
OpenReReadsAlone == \A r \in Requests \ overlapped : ReReads(r)

\* live.py:45: "One pooled engine per connection, rebuilt when its URL or options change".
EnginesOnlyForEdits == \A d, e \in made : d.version = e.version => d = e
=============================================================================
