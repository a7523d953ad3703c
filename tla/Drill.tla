--------------------------------- MODULE Drill ---------------------------------
(* Drill-through (explore/drill.py): the settings file, and the detail rows behind a point of
   a chart over cached data.

   A column of the detail table has the name of the field it is mapped to, a config is the set
   of fields it maps, and WHERE is evaluated in SQL's logic of three values.  The request
   handlers run in one event loop: a save is interrupted by nothing but the end of the process. *)
EXTENDS Naturals, FiniteSets

CONSTANTS
    Sources, None, Torn,
    Base, Computed,     \* the columns of a source, and the fields a chart computes from them
    DetailRows,         \* the most rows that the panel shows
    MaxSaves            \* bound

VARIABLES
    file,       \* .explore_drill.json: source -> config, or Torn
    tmp,        \* its .tmp
    saving, saves,
    kept,       \* history: what was saved and acknowledged
    ask         \* the drill request under way, or its answer
vars == <<file, tmp, saving, saves, kept, ask>>

Configs == (SUBSET Base) \ {{}}
Values == {1, 2}
Cell == Values \cup {None}
Settings == [Sources -> Configs \cup {None}]

Lists == {{}, {1}, {1, 2}, {1, None}}
Ranges == {{}, {1}, {1, 2}}    \* as the values within; {} is half open
Filters == [fid : Base \cup Computed, type : {"one of", "not in"}, value : Lists]
           \cup [fid : Base \cup Computed, type : {"range", "other"}, value : Ranges]
\* Points of charts with up to two dimensions.
Points == UNION {[D -> Cell] : D \in {E \in SUBSET (Base \cup Computed) : Cardinality(E) <= 2}}

\* assumed of every instance, by the module that makes it
DrillAssumption ==
    /\ Base \cap Computed = {} /\ DetailRows \in Nat /\ MaxSaves \in Nat
    /\ None \notin Values \cup Filters /\ Torn \notin Settings

NoAsk == [pc |-> "idle"]

Init ==
    /\ file = [k \in Sources |-> None]
    /\ tmp = None /\ saving = None /\ saves = 0
    /\ kept = file
    /\ ask = NoAsk

-----------------------------------------------------------------------------
(* _read: a missing or unreadable file is {}. *)
Read == IF file = Torn THEN [k \in Sources |-> None] ELSE file

(* set_config: a config without a connection, a table or a key is refused. *)
Save ==
    /\ saving = None /\ saves < MaxSaves
    /\ saves' = saves + 1
    /\ \E k \in Sources, c \in Configs \cup {None} : saving' = [source |-> k, data |-> [Read EXCEPT ![k] = c]]
    /\ UNCHANGED <<file, tmp, kept, ask>>

Write == tmp' = saving.data /\ UNCHANGED <<file, saving, saves, kept, ask>>

WriteTmp == saving # None /\ tmp # saving.data /\ Write

Replace ==
    /\ saving # None /\ tmp = saving.data
    /\ file' = tmp /\ tmp' = None
    /\ kept' = saving.data
    /\ saving' = None
    /\ UNCHANGED <<saves, ask>>

(* The process ends between two steps of a save, and starts again. *)
Crash ==
    /\ saving # None
    /\ saving' = None /\ ask' = NoAsk
    /\ UNCHANGED <<file, tmp, saves, kept>>

-----------------------------------------------------------------------------
(* run_drill of the API: without a config a 400. *)
Ask ==
    /\ saving = None /\ ask = NoAsk
    /\ \E k \in Sources, row \in Points, filter \in Filters \cup {None} :
          /\ Read[k] # None
          /\ ask' = [pc |-> "asked", config |-> Read[k], row |-> row, filter |-> filter]
    /\ UNCHANGED <<file, tmp, saving, saves, kept>>

(* conditions: source columns only, and filters of the known types. *)
Op(type) == CASE type = "one of" -> "in" [] type = "not in" -> "not_in" [] type = "range" -> "between"

Conditions(row, filter, fields) ==
    {[fid |-> f, op |-> "eq", value |-> {row[f]}] : f \in DOMAIN row \cap fields} \cup
    {[fid |-> g.fid, op |-> Op(g.type), value |-> g.value] :
        g \in {h \in {filter} \ {None} : h.fid \in fields /\ h.type # "other"}}

Unmapped(conds, config) == {c.fid : c \in {d \in conds : d.fid \notin config}}

\* Mutated form: filters that leave values out are passed over.
InclusionsOnly(c) == c.op = "eq" \/ (c.op # "not_in" /\ c.value # {})

\* Empty lists and half-open ranges restrict nothing.
Usable(c) == CASE c.op = "eq" -> TRUE
               [] OTHER -> c.value # {}

Where(conds, config) == {c \in conds : c.fid \in config /\ Usable(c)}

(* The logic of SQL. *)
Not3(t) == CASE t = "true" -> "false" [] t = "false" -> "true" [] OTHER -> "unknown"
Equal3(x, y) == IF x = None \/ y = None THEN "unknown" ELSE IF x = y THEN "true" ELSE "false"
In3(x, list) == IF \E y \in list : Equal3(x, y) = "true" THEN "true"
                ELSE IF \E y \in list : Equal3(x, y) = "unknown" THEN "unknown" ELSE "false"

\* c.is_(null) for a point without a value.
Equals(c, x) == IF c.value = {None} THEN (IF x = None THEN "true" ELSE "false") ELSE In3(x, c.value)

Truth(c, x) ==
    CASE c.op = "eq" -> Equals(c, x)
      [] c.op = "in" -> In3(x, c.value)
      [] c.op = "not_in" -> Not3(In3(x, c.value))
      [] c.op = "between" -> IF x = None THEN "unknown" ELSE IF x \in c.value THEN "true" ELSE "false"

Detail == [Base -> Cell]
Selected(where) == {r \in Detail : \A c \in where : Truth(c, r[c.fid]) = "true"}

\* LIMIT DETAIL_ROWS + 1, without an order: of more rows than that, whichever come.
Fits(rows) == Cardinality(rows) <= DetailRows
Panel(rows) == IF Fits(rows) THEN {rows} ELSE {some \in SUBSET rows : Cardinality(some) = DetailRows}

(* cached_schema, which may have lost a column since the chart was drawn; detail_sql; and the
   query.  Without any condition the request is refused. *)
Answer ==
    /\ ask.pc = "asked"
    /\ \E fields \in {Base} \cup {Base \ {f} : f \in Base} :
          LET conds == Conditions(ask.row, ask.filter, fields)
              where == Where(conds, ask.config)
              selected == IF where = {} THEN {} ELSE Selected(where) IN
          \E rows \in Panel(selected) : ask' = [pc |-> IF where = {} THEN "refused" ELSE "answered",
                  config |-> ask.config, row |-> ask.row, filter |-> ask.filter, fields |-> fields,
                  applied |-> {c.fid : c \in where}, unmapped |-> Unmapped(conds, ask.config),
                  rows |-> rows, truncated |-> ~Fits(selected)]
    /\ UNCHANGED <<file, tmp, saving, saves, kept>>

Close ==
    /\ ask.pc \in {"answered", "refused"}
    /\ ask' = NoAsk
    /\ UNCHANGED <<file, tmp, saving, saves, kept>>

Rest == saving = None /\ ask = NoAsk /\ UNCHANGED vars

Next == Save \/ WriteTmp \/ Replace \/ Crash \/ Ask \/ Answer \/ Close \/ Rest
Spec == Init /\ [][Next]_vars

-----------------------------------------------------------------------------
\* Shapes; what is reported as not mapped is not mapped.
TypeOK ==
    /\ file = Torn \/ file \in Settings
    /\ tmp = None \/ tmp \in Settings
    /\ saving = None \/ saving \in [source : Sources, data : Settings]
    /\ kept \in Settings /\ saves \in 0..MaxSaves
    /\ ask.pc \in {"idle", "asked", "answered", "refused"}
    /\ ask.pc \in {"answered", "refused"} => ask.unmapped \cap ask.config = {} /\ ask.rows \subseteq Detail

\* The settings are those that were last saved, whenever the process ends.
SettingsKept == Read = kept

\* The point's own rows, on the columns that are mapped: no row is shown that differs from the
\* point, or that a filter on a mapped column leaves out.
Passes(g, x) ==
    g.type = "other" \/ g.value = {} \/ (x # None /\ (x \in g.value <=> g.type # "not in"))
Known == ask.config \cap ask.fields
OfThePoint(r) ==
    /\ \A f \in DOMAIN ask.row \cap Known : r[f] = ask.row[f]
    /\ ask.filter # None /\ ask.filter.fid \in Known => Passes(ask.filter, r[ask.filter.fid])

NothingBesides == ask.pc = "answered" => \A r \in ask.rows : OfThePoint(r)

\* And every such row is shown, unless a null is among the values that a filter leaves out, or the
\* panel is full and says so.
NothingMissing ==
    ask.pc = "answered" =>
        /\ ask.truncated => Cardinality(ask.rows) = DetailRows
        /\ ~ask.truncated /\ (ask.filter # None /\ ask.filter.type = "not in" => None \notin ask.filter.value) =>
             \A r \in Detail : OfThePoint(r) => r \in ask.rows

\* CAPABILITIES.md: "Fields without a mapping are listed as not applied -- nothing is guessed".
\* Every dimension of the point, but a column that the source has lost since, is applied or listed.
NothingUnsaid ==
    ask.pc = "answered" => DOMAIN ask.row \ (Base \ ask.fields) \subseteq ask.applied \cup ask.unmapped
=============================================================================
