------------------------------- MODULE MCStores -------------------------------
(* Instances for TLC of what several runs write and others read at the same time: a file of the
   frame cache, a report, a table of a target database.  They share no state in the code, so a
   behaviour is one of them, and the others stay as they began. *)
EXTENDS SharedCache

CONSTANTS
    Viewers, WriterTries, ViewerTries, MaxReports,
    Dialects, Elsewhere, Chunks, MaxCalls, MaxTimeouts

VARIABLES
    part,
    data, row, created, stamps, publisher, page, cache, begun, disturbed,
    dialect, table, version, late, timeouts, calls, loader, owed, last

reportsVars == <<data, row, created, stamps, publisher, page, cache, begun, disturbed>>
loadVars == <<dialect, table, version, late, timeouts, calls, loader, owed, last>>
storesVars == <<part, vars, reportsVars, loadVars>>

Reports == INSTANCE ReportStore WITH writer <- publisher, MaxWrites <- MaxReports
Load    == INSTANCE FastWrite WITH writer <- loader

ASSUME StoresAssumption == Reports!ReportStoreAssumption /\ Load!FastWriteAssumption

NoLoad == dialect = "other" /\ table = None

StoresInit ==
    /\ part \in {"cache", "reports", "load"}
    /\ Init /\ Reports!Init /\ Load!Init /\ (part # "load" => NoLoad)

StoresNext ==
    /\ UNCHANGED part
    /\ \/ part = "cache" /\ Next /\ UNCHANGED <<reportsVars, loadVars>>
       \/ part = "reports" /\ Reports!Next /\ UNCHANGED <<vars, loadVars>>
       \/ part = "load" /\ Load!Next /\ UNCHANGED <<vars, reportsVars>>

Stores ==
    /\ StoresInit /\ [][StoresNext]_storesVars
    /\ \A w \in Writers : WF_storesVars(part = "reports" /\ Reports!Write(w) /\ UNCHANGED <<part, vars, loadVars>>)
    /\ \A v \in Viewers : WF_storesVars(part = "reports" /\ Reports!View(v) /\ UNCHANGED <<part, vars, loadVars>>)

\* report_store.py, app.py: a page shows a table no older than the row it shows it for, and when
\* no two writers overlapped the reports that are listed are those that are stored.
PagesTellReports == Reports!NoOlderThanItsRow /\ Reports!ListedIfStored

\* Publications, flushes and pages end, however their connections to reports.duckdb collide.
AllEnd == Reports!AllEnd

\* fast_write: where a frame is one transaction it is loaded whole or not at all; in PostgreSQL
\* and Iceberg calls that overlap or break leave what those that committed leave one after the
\* other; and everywhere a replacing call leaves its frame, whatever broke off before it, and
\* beside it only chunks that were under way when it began.
LoadsAreWhole == Load!AllOrNothing /\ Load!InTurn /\ Load!ReplaceRepeats
=============================================================================
