---------------------------- MODULE AgentProviders ----------------------------
(* The table of AI providers (services/agent_provider_service.py) under requests that overlap:
   each one reads, may deactivate every provider, and commits its own row.

   The database is SQLite by default, where one transaction writes at a time, and a
   transaction begins with its first write; on PostgreSQL a writer waits only for the rows
   that it changes and that were there when its statement began (READ COMMITTED). *)
EXTENDS Naturals, FiniteSets

CONSTANTS
    Requests,
    Ids,            \* one for every provider that is ever created: a bound
    None,
    SingleWriter,   \* BOOLEAN: SQLite
    MaxRequests     \* bound

\* assumed of every instance, by the module that makes it
AgentProvidersAssumption == SingleWriter \in BOOLEAN /\ MaxRequests \in Nat

VARIABLES
    table,    \* the committed rows: id -> is_active
    used,     \* the ids that were given out
    pc, req,  \* per request: where it stands, and its locals
    frozen,   \* per request: the rows its UPDATE deactivated and not yet committed
    served
vars == <<table, used, pc, req, frozen, served>>

Existing == DOMAIN table
Active(t) == {i \in DOMAIN t : t[i]}
Fresh == [op |-> "none", id |-> None, activate |-> FALSE, seen |-> {}, was |-> FALSE]

Init ==
    /\ table = [i \in {} |-> TRUE] /\ used = {}
    /\ pc = [r \in Requests |-> "idle"]
    /\ req = [r \in Requests |-> Fresh]
    /\ frozen = [r \in Requests |-> {}]
    /\ served = 0

Goes(r, from, to) == pc[r] = from /\ pc' = [pc EXCEPT ![r] = to]
Begins(r, to) == served < MaxRequests /\ served' = served + 1 /\ Goes(r, "idle", to)

(* create_provider: list_providers, and whether the new one is to be active. *)
List(r) ==
    /\ Begins(r, "read")
    /\ \E wanted \in BOOLEAN :
          req' = [req EXCEPT ![r] = [Fresh EXCEPT !.op = "create", !.activate = wanted \/ Existing = {}]]
    /\ UNCHANGED <<table, used, frozen>>

(* set_active and update_provider: db.get; an unknown id is a 404. *)
Get(r) ==
    /\ Begins(r, "read")
    /\ \E i \in Existing, op \in {"activate", "update"} :
          req' = [req EXCEPT ![r] = [Fresh EXCEPT !.op = op, !.id = i, !.activate = op = "activate",
                                                  !.was = table[i]]]
    /\ UNCHANGED <<table, used, frozen>>

(* UPDATE agent_providers SET is_active = false: sent, then granted. *)
SendUpdate(r) ==
    /\ req[r].activate
    /\ Goes(r, "read", "sent")
    /\ req' = [req EXCEPT ![r].seen = Existing]
    /\ UNCHANGED <<table, used, frozen, served>>

Writers(r) == {q \in Requests \ {r} : pc[q] = "frozen"}

(* May r change the given rows, and in SQLite anything at all? *)
Free(r, rows) == \A q \in Writers(r) : ~SingleWriter /\ frozen[q] \cap rows = {}

\* Mutated form: the update is committed by itself.
DeactivateAtOnce(r) ==
    /\ Goes(r, "sent", "frozen")
    /\ Free(r, req[r].seen)
    /\ table' = [i \in Existing |-> FALSE]
    /\ UNCHANGED <<used, req, frozen, served>>

Deactivate(r) ==
    /\ Goes(r, "sent", "frozen")
    /\ Free(r, req[r].seen)
    /\ frozen' = [frozen EXCEPT ![r] = IF SingleWriter THEN Existing ELSE req[r].seen \cap Existing]
    /\ UNCHANGED <<table, used, req, served>>

(* What the rows are once r's update is committed with its own row. *)
Settled(r, rows, own, value) ==
    [i \in rows |-> IF i = own THEN value ELSE IF i \in frozen[r] THEN FALSE ELSE table[i]]

Ready(r) == pc[r] = IF req[r].activate THEN "frozen" ELSE "read"

Ends(r) ==
    /\ pc' = [pc EXCEPT ![r] = "idle"]
    /\ req' = [req EXCEPT ![r] = Fresh]
    /\ frozen' = [frozen EXCEPT ![r] = {}]
    /\ UNCHANGED served

CommitCreate(r) ==
    /\ Ready(r) /\ req[r].op = "create" /\ Free(r, {})
    /\ \E i \in Ids \ used :
          /\ used' = used \cup {i}
          /\ table' = Settled(r, Existing \cup {i}, i, req[r].activate)
    /\ Ends(r)

(* The flush finds no row if the provider was deleted since: Rollback. *)
CommitActivate(r) ==
    /\ Ready(r) /\ req[r].op = "activate" /\ req[r].id \in Existing
    /\ table' = Settled(r, Existing, req[r].id, TRUE)
    /\ Ends(r) /\ UNCHANGED used

\* update_provider writes the columns that changed, and is_active is not among them.
ActiveKept(r) == table[req[r].id]

CommitUpdate(r) ==
    /\ Ready(r) /\ req[r].op = "update" /\ req[r].id \in Existing /\ Free(r, {req[r].id})
    /\ table' = [table EXCEPT ![req[r].id] = ActiveKept(r)]
    /\ Ends(r) /\ UNCHANGED used

(* A name that is taken or missing, a row that is gone, "database is locked", a client
   that goes away: the session is closed and nothing is written. *)
Rollback(r) ==
    /\ pc[r] # "idle"
    /\ Ends(r) /\ UNCHANGED <<table, used>>

Delete(r) ==
    /\ served < MaxRequests /\ served' = served + 1
    /\ pc[r] = "idle"
    /\ \E i \in Existing :
          /\ Free(r, {i})
          /\ table' = [j \in Existing \ {i} |-> table[j]]
    /\ UNCHANGED <<used, pc, req, frozen>>

Idle == (\A r \in Requests : pc[r] = "idle") /\ UNCHANGED vars

Next ==
    \/ \E r \in Requests :
          \/ List(r) \/ Get(r) \/ SendUpdate(r) \/ Deactivate(r) \/ Rollback(r)
          \/ CommitCreate(r) \/ CommitActivate(r) \/ CommitUpdate(r) \/ Delete(r)
    \/ Idle

Spec == Init /\ [][Next]_vars

-----------------------------------------------------------------------------
\* Shapes of the table and of the requests; only writers that wait for their commit hold rows.
TypeOK ==
    /\ used \subseteq Ids /\ Existing \subseteq used
    /\ table \in [Existing -> BOOLEAN]
    /\ pc \in [Requests -> {"idle", "read", "sent", "frozen"}]
    /\ req \in [Requests -> [op : {"none", "create", "activate", "update"}, id : Ids \cup {None},
                             activate : BOOLEAN, seen : SUBSET Ids, was : BOOLEAN]]
    /\ frozen \in [Requests -> SUBSET Ids]
    /\ \A r \in Requests : frozen[r] # {} => pc[r] = "frozen"
    /\ served \in 0..MaxRequests

\* models/agent_provider.py:25: "Only one provider is active (used by the agent) at a time".
\* However creations, activations and updates overlap, no two rows are active.
OneActive == \A i, j \in Active(table) : i = j

\* A request that deactivates and then fails, or commits late, never leaves the agent without
\* a provider: only the deletion of the active one does.
ActiveOnlyDeleted ==
    [][\A i \in Active(table) : Active(table') = {} => i \notin DOMAIN table']_vars

\* agent_provider_service.py:57: "If this is the first provider, make it active by default".
\* A provider that enters an empty table is active.
FirstIsActive ==
    [][Existing = {} => \A i \in DOMAIN table' : table'[i]]_vars
=============================================================================
