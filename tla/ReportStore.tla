------------------------------ MODULE ReportStore ------------------------------
(* One report in reports.duckdb (core/report_store.py) and the viewer that shows it
   (reports-app/app.py), which runs in a process of its own.

   DuckDB lets one process write a file or many read it; the threads of the backend share
   its one connection, and each statement commits by itself. *)
EXTENDS Naturals

CONSTANTS
    Writers, Viewers, None,
    WriterTries, ViewerTries,   \* 8 and 6 in the code
    MaxWrites                   \* bound

\* assumed of every instance, by the module that makes it
ReportStoreAssumption ==
    /\ {WriterTries, ViewerTries, MaxWrites} \subseteq Nat \ {0}
    /\ None \notin [of : Nat, updated_at : Nat]

VARIABLES
    data,       \* the report's table: 0, or which CREATE OR REPLACE it is from
    row,        \* its row in _reports: None, or of which table, and updated_at
    created, stamps,    \* how many tables, and rows, were written
    writer,     \* per writer: where it stands, its attempts, its table
    page,       \* per viewer: where it stands, its attempts, the row it read, what it shows
    cache,      \* st.cache_data: updated_at -> table
    begun,
    disturbed   \* history: did two writers overlap, or one break off half way?
vars == <<data, row, created, stamps, writer, page, cache, begun, disturbed>>
stored == <<data, row, created, stamps>>

NoWriter == [pc |-> "idle", op |-> "none", tries |-> 0, table |-> 0]
NoPage == [pc |-> "idle", tries |-> 0, row |-> None, shown |-> 0]

Init ==
    /\ data = 0 /\ row = None /\ created = 0 /\ stamps = 0
    /\ writer = [w \in Writers |-> NoWriter]
    /\ page = [v \in Viewers |-> NoPage]
    /\ cache = [s \in {} |-> 0]
    /\ begun = 0 /\ disturbed = FALSE

Inside == {w \in Writers : writer[w].pc \in {"first", "second"}}
Reading == {v \in Viewers : page[v].pc \in {"meta", "table"}}

-----------------------------------------------------------------------------
(* publish_report, flush_report: _connect_rw. *)
Begin(w) ==
    /\ writer[w].pc = "idle" /\ begun < MaxWrites
    /\ begun' = begun + 1
    /\ \E op \in {"publish", "flush"} :
          writer' = [writer EXCEPT ![w] = [NoWriter EXCEPT !.pc = "trying", !.op = op]]
    /\ UNCHANGED <<stored, page, cache, disturbed>>

Connect(w) ==
    /\ writer[w].pc = "trying" /\ Reading = {}
    /\ writer' = [writer EXCEPT ![w].pc = "first"]
    /\ disturbed' = (disturbed \/ Inside # {})
    /\ UNCHANGED <<stored, page, cache, begun>>

\* Mutated form: the attempts are not counted.
TriedForEver(w) == [writer[w] EXCEPT !.tries = 0]

Tried(w) ==
    LET n == writer[w].tries + 1 IN
    [writer[w] EXCEPT !.tries = n, !.pc = IF n = WriterTries THEN "refused" ELSE "trying"]

(* Somebody reads; after half a second the next attempt is made, or an IOError raised. *)
ConnectFails(w) ==
    /\ writer[w].pc = "trying" /\ Reading # {}
    /\ writer' = [writer EXCEPT ![w] = Tried(w)]
    /\ UNCHANGED <<stored, page, cache, begun, disturbed>>

Refused(w) ==
    /\ writer[w].pc = "refused"
    /\ writer' = [writer EXCEPT ![w] = NoWriter]
    /\ UNCHANGED <<stored, page, cache, begun, disturbed>>

(* CREATE OR REPLACE TABLE, or DROP TABLE. *)
First(w) ==
    /\ writer[w].pc = "first"
    /\ IF writer[w].op = "publish"
       THEN /\ created' = created + 1 /\ data' = created'
            /\ writer' = [writer EXCEPT ![w].pc = "second", ![w].table = created']
       ELSE /\ data' = 0 /\ UNCHANGED created
            /\ writer' = [writer EXCEPT ![w].pc = "second"]
    /\ UNCHANGED <<row, stamps, page, cache, begun, disturbed>>

(* INSERT OR REPLACE INTO _reports, or DELETE FROM _reports; then the connection is closed. *)
Second(w) ==
    /\ writer[w].pc = "second"
    /\ IF writer[w].op = "publish"
       THEN stamps' = stamps + 1 /\ row' = [of |-> writer[w].table, updated_at |-> stamps']
       ELSE row' = None /\ UNCHANGED stamps
    /\ writer' = [writer EXCEPT ![w] = NoWriter]
    /\ UNCHANGED <<data, created, page, cache, begun, disturbed>>

(* A statement fails: publish_report raises, flush_report passes over it. *)
BreakOff(w) ==
    /\ writer[w].pc \in {"first", "second"}
    /\ disturbed' = (disturbed \/ writer[w].pc = "second")
    /\ writer' = [writer EXCEPT ![w] = NoWriter]
    /\ UNCHANGED <<stored, page, cache, begun>>

-----------------------------------------------------------------------------
(* The page is opened, or run again: load_meta. *)
OpenPage(v) ==
    /\ page[v].pc = "idle"
    /\ page' = [page EXCEPT ![v] = [NoPage EXCEPT !.pc = "asking"]]
    /\ UNCHANGED <<stored, writer, cache, begun, disturbed>>

(* _query: connect read_only. *)
Ask(v) ==
    /\ page[v].pc \in {"asking", "loading"} /\ Inside = {}
    /\ page' = [page EXCEPT ![v].pc = IF @ = "asking" THEN "meta" ELSE "table", ![v].tries = 0]
    /\ UNCHANGED <<stored, writer, cache, begun, disturbed>>

\* After the last attempt load_meta has no rows, and load_table raises.
AskedInVain(v) ==
    IF page[v].tries + 1 < ViewerTries THEN [page[v] EXCEPT !.tries = page[v].tries + 1]
    ELSE [page[v] EXCEPT !.tries = 0, !.pc = IF page[v].pc = "asking" THEN "empty" ELSE "error"]

(* The backend writes. *)
AskFails(v) ==
    /\ page[v].pc \in {"asking", "loading"} /\ Inside # {}
    /\ page' = [page EXCEPT ![v] = AskedInVain(v)]
    /\ UNCHANGED <<stored, writer, cache, begun, disturbed>>

(* The rows are read; without any the page says "No reports published yet." *)
ReadMeta(v) ==
    /\ page[v].pc = "meta"
    /\ page' = [page EXCEPT ![v].row = row, ![v].pc = IF row = None THEN "none" ELSE "chosen"]
    /\ UNCHANGED <<stored, writer, cache, begun, disturbed>>

\* Mutated form: the cache is asked for any table of the report.
CachedByName(v) == DOMAIN cache

Cached(v) == {page[v].row.updated_at} \cap DOMAIN cache

(* load_table: st.cache_data, keyed by updated_at. *)
LoadCached(v) ==
    /\ page[v].pc = "chosen"
    /\ \E s \in Cached(v) : page' = [page EXCEPT ![v].pc = "shown", ![v].shown = cache[s]]
    /\ UNCHANGED <<stored, writer, cache, begun, disturbed>>

Load(v) ==
    /\ page[v].pc = "chosen" /\ Cached(v) = {}
    /\ page' = [page EXCEPT ![v].pc = "loading"]
    /\ UNCHANGED <<stored, writer, cache, begun, disturbed>>

ReadTable(v) ==
    /\ page[v].pc = "table"
    /\ IF data = 0
       THEN page' = [page EXCEPT ![v].pc = "error"] /\ UNCHANGED cache
       ELSE /\ page' = [page EXCEPT ![v].pc = "shown", ![v].shown = data]
            /\ cache' = [s \in DOMAIN cache \cup {page[v].row.updated_at} |->
                            IF s = page[v].row.updated_at THEN data ELSE cache[s]]
    /\ UNCHANGED <<stored, writer, begun, disturbed>>

ClosePage(v) ==
    /\ page[v].pc \in {"none", "empty", "error", "shown"}
    /\ page' = [page EXCEPT ![v] = NoPage]
    /\ UNCHANGED <<stored, writer, cache, begun, disturbed>>

(* Refresh data, or five minutes pass. *)
Forget ==
    /\ DOMAIN cache # {} /\ cache' = [s \in {} |-> 0]
    /\ UNCHANGED <<stored, writer, page, begun, disturbed>>

Resting == (\A w \in Writers : writer[w] = NoWriter) /\ (\A v \in Viewers : page[v] = NoPage)
Rest == Resting /\ UNCHANGED vars

Write(w) == Connect(w) \/ ConnectFails(w) \/ Refused(w) \/ First(w) \/ Second(w) \/ BreakOff(w)
View(v) ==
    \/ Ask(v) \/ AskFails(v) \/ ReadMeta(v) \/ LoadCached(v) \/ Load(v) \/ ReadTable(v) \/ ClosePage(v)

Next ==
    \/ \E w \in Writers : Begin(w) \/ Write(w)
    \/ \E v \in Viewers : OpenPage(v) \/ View(v)
    \/ Forget \/ Rest

Spec == Init /\ [][Next]_vars
(* Both are threads of running processes, and no statement takes for ever. *)
FairSpec == Spec /\ (\A w \in Writers : WF_vars(Write(w))) /\ (\A v \in Viewers : WF_vars(View(v)))

-----------------------------------------------------------------------------
Tables == 0..MaxWrites
Row    == [of : 1..MaxWrites, updated_at : 1..MaxWrites]

\* Shapes; nobody writes while the viewer reads.
TypeOK ==
    /\ data \in 0..created /\ row \in Row \cup {None}
    /\ created \in Tables /\ stamps \in 0..created
    /\ writer \in [Writers -> [pc : {"idle", "trying", "refused", "first", "second"},
                               op : {"none", "publish", "flush"}, tries : 0..WriterTries, table : Tables]]
    /\ page \in [Viewers -> [pc : {"idle", "asking", "meta", "none", "empty", "chosen", "loading",
                                   "table", "error", "shown"},
                             tries : 0..ViewerTries, row : Row \cup {None}, shown : Tables]]
    /\ DOMAIN cache \subseteq 1..stamps /\ cache \in [DOMAIN cache -> 1..MaxWrites]
    /\ begun \in 0..MaxWrites /\ disturbed \in BOOLEAN
    /\ Inside = {} \/ Reading = {}

\* app.py:50: keyed by the freshness stamp "so a re-published report invalidates automatically".
\* The table that is shown is no older than the one the row on the page was written for.
NoOlderThanItsRow == \A v \in Viewers : page[v].pc = "shown" => page[v].shown >= page[v].row.of

\* As long as no two writers overlapped and none broke off, a report that is listed has its own
\* table, and one that is not has none, whenever nobody writes.
ListedIfStored ==
    disturbed \/ Inside # {} \/ (row = None /\ data = 0) \/ (row # None /\ row.of = data)

\* A publication or flush ends, and so does a page, however they get in each other's way.
AllEnd ==
    /\ \A w \in Writers : [](writer[w].pc # "idle" => <>(writer[w].pc = "idle"))
    /\ \A v \in Viewers : [](page[v].pc # "idle" => <>(page[v].pc = "idle"))

\* app.py:5: "Never holds the file open, so the SFS backend (the single writer) is never blocked."
NeverBlocked == \A w \in Writers : writer[w].pc # "refused"

\* app.py:63: "No reports published yet." is shown only when there is none.
NoneMeansNone == \A v \in Viewers : page[v].pc = "empty" => row = None
=============================================================================
