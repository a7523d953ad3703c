----------------------------- MODULE MCConfigured -----------------------------
(* Instances for TLC of what users and plugins configure while others use it: the connections
   that Explore queries, the mapping of its drill, the agent's providers, and the engines of
   plugins.  They share no state in the code, so a behaviour is one of them, and the others stay
   as they began. *)
EXTENDS ExploreLive

CONSTANTS
    Sources, Torn, Base, Computed, DetailRows, MaxSaves,
    Clients, Ids, SingleWriter, MaxChanges,
    Plugins, NodePlugins, MaxCalls, MaxNodeCalls

VARIABLES
    part,
    file, tmp, saving, saves, kept, ask,
    table, used, client, change, frozen, changes,
    ENGINES, shelf, loaded, infos, app, todo, hook, calls, node

drillVars  == <<file, tmp, saving, saves, kept, ask>>
agentVars  == <<table, used, client, change, frozen, changes>>
engineVars == <<ENGINES, shelf, loaded, infos, app, todo, hook, calls, node>>
configuredVars == <<part, vars, drillVars, agentVars, engineVars>>

Detail == INSTANCE Drill
Agents == INSTANCE AgentProviders
    WITH Requests <- Clients, MaxRequests <- MaxChanges, pc <- client, req <- change, served <- changes
\* Many plugins whose engines no node runs, and few whose nodes run.
Loading == INSTANCE EngineRegistry WITH Nodes <- FALSE
Running == INSTANCE EngineRegistry WITH Nodes <- TRUE, Plugins <- NodePlugins, MaxCalls <- MaxNodeCalls

ASSUME ConfiguredAssumption ==
    /\ Detail!DrillAssumption /\ Agents!AgentProvidersAssumption
    /\ Loading!RegistryAssumption /\ Running!RegistryAssumption

ConfiguredInit ==
    /\ part \in {"live", "drill", "agents", "loading", "running"}
    /\ Init /\ Detail!Init /\ Agents!Init /\ Loading!Init

ConfiguredNext ==
    /\ UNCHANGED part
    /\ \/ part = "live" /\ Next /\ UNCHANGED <<drillVars, agentVars, engineVars>>
       \/ part = "drill" /\ Detail!Next /\ UNCHANGED <<vars, agentVars, engineVars>>
       \/ part = "agents" /\ Agents!Next /\ UNCHANGED <<vars, drillVars, engineVars>>
       \/ part = "loading" /\ Loading!Next /\ UNCHANGED <<vars, drillVars, agentVars>>
       \/ part = "running" /\ Running!Next /\ UNCHANGED <<vars, drillVars, agentVars>>

Configured == ConfiguredInit /\ [][ConfiguredNext]_configuredVars

\* drill.py: the rows that are shown are those of the point, on the columns that are mapped, all of
\* them or as many as the panel takes, and the mapping is the one that was last saved, whenever the
\* process ended.
DrillsToThePoint == Detail!SettingsKept /\ Detail!NothingBesides /\ Detail!NothingMissing

\* agent_provider_service.py: on SQLite never are two providers active, and only the deletion of
\* the active one leaves the agent without.
OneActiveUntilDeleted == []Agents!OneActive /\ Agents!ActiveOnlyDeleted

\* registry.py: an engine is that of the last plugin that overrides it, or else of the first, and
\* every plugin is listed once.
EnginesOfTheirPlugins == part = "loading" => Loading!WinnerIsRight /\ Loading!ListedOnce

\* registry.py: resolve_params; executor.py: the processor branch.  A node runs with what was
\* filled in, 0 and False included, and on no engine whose package is missing.
NodesRunAsFilledIn == Running!RunsAsFilledIn /\ Running!UnavailableSaid
=============================================================================
