---------------------------- MODULE EngineRegistry ----------------------------
(* The registry of engines, templates and examples (engine/registry.py), the plugins that fill it
   at startup, and what the executor makes of an engine when it runs a processor node.

   A plugin's hook is any sequence of registrations that may stop anywhere.  An engine declares
   at most one parameter, under a key of its own or one that nodes have anyway ("core").  The
   built-in engines are represented by pandas. *)
EXTENDS Naturals, Sequences

CONSTANTS
    Plugins, None,
    Nodes,      \* are processor nodes run (or only plugins loaded)?
    MaxCalls    \* bound

VARIABLES
    ENGINES,    \* name -> EngineSpec, or None
    shelf,      \* the templates and examples: kind -> who registered the one name of it, or None
    loaded,     \* _PLUGINS_LOADED
    infos,      \* _LOADED_PLUGINS
    app,        \* where startup is
    todo, hook, \* the entry points to come, and the plugin whose hook runs
    calls,      \* history: the engine registrations, in order
    node        \* the processor node that was run last
vars == <<ENGINES, shelf, loaded, infos, app, todo, hook, calls, node>>

Names == {"pandas", "mine"}
Kinds == {"template", "example"}
Owners == Plugins \cup {"builtin"}

Params == [key : {"own", "core"}, type : {"string", "boolean"}, required : BOOLEAN, default : {"unset", "set"}]
NoParam == [key |-> "own", type |-> "string", required |-> FALSE, default |-> "unset"]
Specs == [by : Owners, available : BOOLEAN, output : {"frame", "file"}, target : BOOLEAN, param : Params]
Pandas == [by |-> "builtin", available |-> TRUE, output |-> "frame", target |-> FALSE, param |-> NoParam]

\* assumed of every instance, by the module that makes it
RegistryAssumption ==
    MaxCalls \in Nat /\ Nodes \in BOOLEAN /\ "builtin" \notin Plugins /\ None \notin Plugins \cup Specs

\* What plugins declare: everything at its default, or one thing that is not.
Declared(by) ==
    LET S == [Pandas EXCEPT !.by = by]
    IN  {S} \cup IF ~Nodes THEN {} ELSE
        {[S EXCEPT !.available = FALSE], [S EXCEPT !.output = "file"], [S EXCEPT !.target = TRUE]}
          \cup {[S EXCEPT !.param = q] : q \in Params}

\* What a node holds under a key: a value may be 0, "no" is False.
Fields == {"unset", "blank", "zero", "no", "text"}
NoNode == [engine |-> None, spec |-> None, field |-> "unset", target |-> FALSE, given |-> "unset", end |-> "none"]

Init ==
    /\ ENGINES = [e \in Names |-> IF e = "pandas" THEN Pandas ELSE None]
    /\ shelf = [k \in Kinds |-> None]
    /\ loaded = FALSE /\ infos = <<>>
    /\ app = "starting" /\ todo = {} /\ hook = None
    /\ calls = <<>>
    /\ node = NoNode

-----------------------------------------------------------------------------
(* load_plugins: at startup, and again whenever a project is made from an example. *)
LoadPlugins ==
    /\ app \in {"starting", "up"}
    /\ loaded' = TRUE
    /\ IF loaded THEN app' = "up" /\ UNCHANGED todo ELSE app' = "loading" /\ todo' = Plugins
    /\ UNCHANGED <<ENGINES, shelf, infos, hook, calls, node>>

Hook(p) ==
    /\ app = "loading" /\ hook = None /\ p \in todo
    /\ hook' = p /\ todo' = todo \ {p}
    /\ UNCHANGED <<ENGINES, shelf, loaded, infos, app, calls, node>>

Called(e, override) == calls' = Append(calls, [engine |-> e, by |-> hook, override |-> override])

\* Mutated form: the last registration wins.
RegisterOver(e, spec, override) ==
    /\ Called(e, override)
    /\ ENGINES' = [ENGINES EXCEPT ![e] = spec]
    /\ UNCHANGED <<shelf, loaded, infos, app, todo, hook, node>>

(* register_engine: a duplicate is ignored unless it overrides. *)
RegisterEngine(e, spec, override) ==
    /\ Called(e, override)
    /\ ENGINES' = IF ENGINES[e] # None /\ ~override THEN ENGINES ELSE [ENGINES EXCEPT ![e] = spec]
    /\ UNCHANGED <<shelf, loaded, infos, app, todo, hook, node>>

(* register_template, register_example *)
RegisterOther(k) ==
    /\ shelf' = [shelf EXCEPT ![k] = IF @ = None THEN hook ELSE @]
    /\ UNCHANGED <<ENGINES, loaded, infos, app, todo, hook, calls, node>>

(* The hook returns, or raises: an unknown kind of template does, and a flow without nodes. *)
HookEnds(ok) ==
    /\ infos' = Append(infos, [name |-> hook, loaded |-> ok])
    /\ hook' = None
    /\ UNCHANGED <<ENGINES, shelf, loaded, app, todo, calls, node>>

(* The hook raises what is no Exception: SystemExit. *)
HookExits == app' = "down" /\ hook' = None /\ UNCHANGED <<ENGINES, shelf, loaded, infos, todo, calls, node>>

InHook ==
    /\ hook # None
    /\ \/ /\ Len(calls) < MaxCalls
          /\ \E e \in Names, spec \in Declared(hook), override \in BOOLEAN : RegisterEngine(e, spec, override)
       \/ \E k \in Kinds : RegisterOther(k)
       \/ \E ok \in BOOLEAN : HookEnds(ok)
       \/ HookExits

LoadDone ==
    /\ app = "loading" /\ hook = None /\ todo = {}
    /\ app' = "up"
    /\ UNCHANGED <<ENGINES, shelf, loaded, infos, todo, hook, calls, node>>

-----------------------------------------------------------------------------
(* A processor node: get_engine_spec, resolve_params, missing_required, and what is done with
   the answer of run. *)
SpecOf(e) == IF ENGINES[e] = None THEN ENGINES["pandas"] ELSE ENGINES[e]

\* Mutated form: every value that is false is replaced by the default.
ResolvedFalsy(param, field) ==
    LET v == IF field \in {"unset", "blank", "zero", "no"} THEN param.default ELSE field
    IN  IF param.type = "boolean" THEN IF v \in {"unset", "blank", "zero", "no"} THEN "no" ELSE "yes" ELSE v

Resolved(param, field) ==
    LET v == IF field \in {"unset", "blank"} THEN param.default ELSE field
    IN  IF param.type = "boolean" THEN IF v \in {"unset", "blank", "zero", "no"} THEN "no" ELSE "yes" ELSE v

Missing(param, given) == param.required /\ given \in {"unset", "blank"}

End(spec, given, target) ==
    IF ~spec.available THEN "unavailable"
    ELSE IF spec.target /\ ~target THEN "needs a target"
    ELSE IF Missing(spec.param, given) THEN "needs a value"
    ELSE IF spec.output = "file" THEN "not a frame" ELSE "ran"

RunNode ==
    /\ app = "up" /\ Nodes
    /\ \E e \in Names, field \in Fields, target \in BOOLEAN :
          LET spec == SpecOf(e)
              given == Resolved(spec.param, IF spec.param.key = "core" THEN "text" ELSE field)
          IN  node' = [engine |-> e, spec |-> spec, field |-> field, target |-> target, given |-> given,
                       end |-> End(spec, given, target)]
    /\ UNCHANGED <<ENGINES, shelf, loaded, infos, app, todo, hook, calls>>

Down == app = "down" /\ UNCHANGED vars

Next == LoadPlugins \/ (\E p \in Plugins : Hook(p)) \/ InHook \/ LoadDone \/ RunNode \/ Down

Spec == Init /\ [][Next]_vars

-----------------------------------------------------------------------------
TypeOK ==
    /\ ENGINES \in [Names -> Specs \cup {None}]
    /\ ENGINES["pandas"] # None
    /\ shelf \in [Kinds -> Owners \cup {None}]
    /\ loaded \in BOOLEAN
    /\ infos \in Seq([name : Plugins, loaded : BOOLEAN])
    /\ app \in {"starting", "loading", "up", "down"}
    /\ todo \subseteq Plugins /\ hook \in Plugins \cup {None}
    /\ hook # None => app = "loading" /\ hook \notin todo
    /\ app = "up" => loaded

(* An engine belongs to the last plugin that asked to override it, otherwise to the first that
   registered it, whichever of them failed later.  registry.py: register_engine. *)
WinnerIsRight ==
    \A e \in Names :
        LET overrides == {i \in DOMAIN calls : calls[i].engine = e /\ calls[i].override}
            firsts == {i \in DOMAIN calls : calls[i].engine = e /\ \A j \in 1..(i - 1) : calls[j].engine # e}
        IN  IF overrides # {} THEN \E i \in overrides : ENGINES[e].by = calls[i].by /\ \A j \in overrides : j <= i
            ELSE IF e = "pandas" THEN ENGINES[e] = Pandas
            ELSE IF firsts = {} THEN ENGINES[e] = None
            ELSE \E i \in firsts : ENGINES[e].by = calls[i].by

(* When the application is up, every plugin is listed exactly once, loaded or failed, however
   often it is asked to load them.  registry.py: load_plugins. *)
ListedOnce ==
    app = "up" => \A p \in Plugins : \E i \in DOMAIN infos :
                      \A j \in DOMAIN infos : infos[j].name = p <=> j = i

(* A node runs with what the user filled in, 0 and False included, and is told to fill in a
   parameter exactly where a required one has neither a value nor a default.
   registry.py: resolve_params, missing_required; PLUGINS.md:133. *)
RunsAsFilledIn ==
    LET q == node.spec.param
        filled == node.field \notin {"unset", "blank"}
    IN  node.end # "none" /\ q.key = "own" =>
            /\ node.end = "needs a value" => q.required /\ ~filled /\ q.default = "unset"
            /\ node.end = "ran" /\ q.type = "string" => /\ filled => node.given = node.field
                                                        /\ ~filled => node.given = q.default
                                                        /\ q.required => node.given # "unset"
            /\ node.end = "ran" /\ q.type = "boolean" /\ node.field \in {"zero", "no"} => node.given = "no"

(* An engine whose package is missing is named as unavailable and not run.
   executor.py:1187, PLUGINS.md:89. *)
UnavailableSaid == node.end # "none" /\ ~node.spec.available => node.end = "unavailable"

(* registry.py:267: "A failing plugin is logged and skipped"; PLUGINS.md:72. *)
FailedIsSkipped ==
    \A i \in DOMAIN infos : ~infos[i].loaded =>
        /\ \A e \in Names : ENGINES[e] = None \/ ENGINES[e].by # infos[i].name
        /\ \A k \in Kinds : shelf[k] # infos[i].name

(* registry.py:268: "it must never take the application down". *)
NeverDown == app # "down"

(* registry.py:44: "An engine MAY stream its result straight here (and declare
   output_mode="file") instead of returning a frame". *)
FileOutputTaken == node.end # "not a frame"

(* registry.py:92: "Unknown keys in node_data are ignored, so params never collide with core node
   fields." *)
NoCollision == node.end = "ran" /\ node.spec.param.type = "string" /\ node.field = "unset" => node.given = node.spec.param.default
=============================================================================
