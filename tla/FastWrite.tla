------------------------------- MODULE FastWrite -------------------------------
(* fast_write of engine/executor.py: nodes of one run, of several runs, and of the attempts of
   a retried one load frames into one table of a target database, which other sessions read.

   A table is its committed rows and where its definition is from.  The paths of SQL Server,
   MySQL and Oracle differ in quoting only and are "bulk"; on StarRocks and Doris, "starrocks",
   the same executemany is INSERTs that commit one by one.  "other" is the fallback to to_sql
   on databases that commit each DDL statement (SQLite, Snowflake), "trino" where each INSERT
   commits too.  A call ends when the database is done with it: if its client is gone before,
   whatever is called meanwhile overlaps it. *)
EXTENDS Naturals

CONSTANTS
    Writers, None,
    Dialects,       \* the targets to consider
    Elsewhere,      \* BOOLEAN: does the search path of PostgreSQL begin elsewhere than at public?
    Chunks,         \* chunks of a frame
    MaxCalls, MaxTimeouts   \* bounds

AllDialects == {"postgresql", "clickhouse", "iceberg", "bulk", "starrocks", "other", "trino"}

\* assumed of every instance, by the module that makes it
FastWriteAssumption ==
    /\ Dialects \subseteq AllDialects /\ Elsewhere \in BOOLEAN
    /\ {Chunks, MaxCalls} \subseteq Nat \ {0} /\ MaxTimeouts \in Nat
    /\ None \notin [definition : {"own", "frame"}, rows : SUBSET (Nat \X Nat)]

VARIABLES
    dialect,
    table,      \* what is committed: None, or [definition, rows]
    version,    \* its snapshot, for Iceberg
    late,       \* chunks that got no answer in time, and that the database may still insert
    timeouts, calls,
    writer,     \* per writer: its call of fast_write
    owed,       \* history: the calls that committed since, and with, the last that replaces
    last        \* history: how the last call ended, until another begins
vars == <<dialect, table, version, late, timeouts, calls, writer, owed, last>>

Nothing == [fresh |-> FALSE, emptied |-> FALSE, rows |-> {}]
Idle == [pc |-> "idle", call |-> 0, mode |-> "append", recreate |-> FALSE, sees |-> FALSE,
         lock |-> "none", effect |-> Nothing, sent |-> 0, snapshot |-> 0, alone |-> TRUE, behind |-> {}]

Init ==
    /\ dialect \in Dialects
    /\ table \in {None, [definition |-> "own", rows |-> {}]}
    /\ version = 0 /\ late = {} /\ timeouts = 0 /\ calls = 0
    /\ writer = [w \in Writers |-> Idle]
    /\ owed = {} /\ last = None

Frame(call) == {call} \X (1..Chunks)
\* A call that recreates replaces, unless it found no table to drop and then one to append to.
Replaces(w) ==
    writer[w].mode = "replace" \/ (writer[w].recreate /\ ~writer[w].sees /\ dialect # "iceberg")
Inside == {w \in Writers : writer[w].pc # "idle"}

At(w, pc) == writer[w].pc = pc
Goes(w, r) == writer' = [writer EXCEPT ![w] = r]

(* The frame is normalised to Arrow or pandas, and an engine created. *)
Begin(w) ==
    /\ At(w, "idle") /\ calls < MaxCalls
    /\ calls' = calls + 1
    /\ \E mode \in {"append", "replace"}, recreate \in BOOLEAN :
          writer' = [v \in Writers |->
              IF v = w THEN [Idle EXCEPT !.pc = "open", !.call = calls', !.mode = mode,
                                         !.recreate = recreate, !.alone = Inside = {}, !.behind = late]
              ELSE [writer[v] EXCEPT !.alone = FALSE]]
    /\ last' = None
    /\ UNCHANGED <<dialect, table, version, late, timeouts, owed>>

(* The call ends: rows are returned, the code raises, or the connection breaks.  What is not
   committed is rolled back; what is committed may be so without an answer. *)
Ends(w, how) ==
    /\ Goes(w, Idle)
    /\ last' = [call |-> writer[w].call, replaces |-> Replaces(w), alone |-> writer[w].alone,
                behind |-> writer[w].behind, how |-> how]

Owes(w) == owed' = {writer[w].call} \cup IF Replaces(w) THEN {} ELSE owed

Committed(w) == Owes(w) /\ \E how \in {"returned", "broken"} : Ends(w, how)

Refused(w) == Ends(w, "refused") /\ UNCHANGED <<dialect, table, version, late, timeouts, calls, owed>>

Break(w) ==
    /\ ~At(w, "idle")
    /\ Ends(w, "broken")
    /\ UNCHANGED <<dialect, table, version, late, timeouts, calls, owed>>

Locals == UNCHANGED <<dialect, table, version, late, timeouts, calls, owed, last>>
Writes == UNCHANGED <<dialect, version, late, timeouts, calls, owed, last>>

-----------------------------------------------------------------------------
(* PostgreSQL: one transaction.  DROP, CREATE and TRUNCATE lock the table against everybody,
   COPY against those. *)
Shared(w) == \A v \in Writers \ {w} : writer[v].lock # "exclusive"

Exclusive(w) == \A v \in Writers \ {w} : writer[v].lock = "none"

\* Mutated form: the table is emptied without its lock.
ExclusiveNever(w) == [writer[w] EXCEPT !.lock = "none"]

Locked(w) == [writer[w] EXCEPT !.lock = "exclusive"]

(* DROP TABLE IF EXISTS, for recreate. *)
PgDrop(w) ==
    /\ dialect = "postgresql" /\ At(w, "open")
    /\ IF writer[w].recreate /\ table # None
       THEN Exclusive(w) /\ Goes(w, [Locked(w) EXCEPT !.pc = "look", !.effect.fresh = TRUE])
       ELSE Goes(w, [writer[w] EXCEPT !.pc = "look"])
    /\ Locals

(* _pg_table_exists asks for the schema that was given, or public. *)
PgLook(w) ==
    /\ dialect = "postgresql" /\ At(w, "look")
    /\ LET sees == table # None /\ ~writer[w].effect.fresh /\ ~Elsewhere IN
       Goes(w, [writer[w] EXCEPT !.sees = sees,
                   !.pc = IF ~sees THEN "create" ELSE IF writer[w].mode = "replace" THEN "empty" ELSE "load"])
    /\ Locals

(* CREATE TABLE waits for a transaction that drops or creates the table. *)
PgCreate(w) ==
    /\ dialect = "postgresql" /\ At(w, "create")
    /\ Shared(w)
    /\ IF table # None /\ ~writer[w].effect.fresh
       THEN Refused(w)
       ELSE Goes(w, [Locked(w) EXCEPT !.pc = "load", !.effect.fresh = TRUE]) /\ Locals

PgEmpty(w) ==
    /\ dialect = "postgresql" /\ At(w, "empty")
    /\ Exclusive(w)
    /\ Goes(w, [Locked(w) EXCEPT !.pc = "load", !.effect.emptied = TRUE])
    /\ Locals

(* One chunk of COPY. *)
PgCopy(w) ==
    /\ dialect = "postgresql" /\ At(w, "load") /\ writer[w].sent < Chunks
    /\ Shared(w)
    /\ Goes(w, [writer[w] EXCEPT !.sent = @ + 1, !.effect.rows = @ \cup {<<writer[w].call, writer[w].sent + 1>>},
                                 !.lock = IF @ = "exclusive" THEN @ ELSE "shared"])
    /\ Locals

\* What the table is after a transaction.
Applied(effect) ==
    [definition |-> IF effect.fresh THEN "frame" ELSE table.definition,
     rows |-> effect.rows \cup IF effect.fresh \/ effect.emptied THEN {} ELSE table.rows]

PgCommit(w) ==
    /\ dialect = "postgresql" /\ At(w, "load") /\ writer[w].sent = Chunks
    /\ table' = Applied(writer[w].effect)
    /\ Committed(w)
    /\ UNCHANGED <<dialect, version, late, timeouts, calls>>

-----------------------------------------------------------------------------
(* Iceberg: the table is loaded, and one snapshot committed on top of what was loaded. *)
IcebergLoad(w) ==
    /\ dialect = "iceberg" /\ At(w, "open")
    /\ IF table = None THEN Refused(w)
       ELSE Goes(w, [writer[w] EXCEPT !.pc = "load", !.snapshot = version]) /\ Locals

Unchanged(w) == writer[w].snapshot = version

Snapshot(w) == Frame(writer[w].call) \cup IF writer[w].mode = "replace" THEN {} ELSE table.rows

IcebergCommit(w) ==
    /\ dialect = "iceberg" /\ At(w, "load")
    /\ IF Unchanged(w)
       THEN /\ table' = [table EXCEPT !.rows = Snapshot(w)]
            /\ version' = version + 1
            /\ Committed(w) /\ UNCHANGED <<dialect, late, timeouts, calls>>
       ELSE Refused(w)

-----------------------------------------------------------------------------
(* The others: each statement commits, but for the INSERTs of "bulk" and "other", which are in
   one transaction. *)
Stepwise == dialect \notin {"postgresql", "iceberg"}
Chunked  == dialect \in {"clickhouse", "starrocks", "trino"}
Fallback == dialect \in {"other", "trino"}

New == [definition |-> "frame", rows |-> {}]

(* recreate: a table that exists is dropped. *)
Drop(w) ==
    /\ Stepwise /\ At(w, "open")
    /\ table' = IF writer[w].recreate THEN None ELSE table
    /\ Goes(w, [writer[w] EXCEPT !.pc = "look"])
    /\ Writes

(* has_table, EXISTS TABLE.  ClickHouse truncates in the other branch of that test. *)
Look(w) ==
    /\ Stepwise /\ At(w, "look")
    /\ Goes(w, [writer[w] EXCEPT !.sees = table # None,
                   !.pc = IF table = None THEN "create"
                          ELSE IF Fallback \/ writer[w].mode = "replace" THEN "empty" ELSE "load"])
    /\ Locals

(* to_sql(if_exists="fail") of no rows, or CREATE TABLE. *)
Create(w) ==
    /\ Stepwise /\ At(w, "create")
    /\ IF table # None
       THEN Refused(w)
       ELSE /\ table' = New
            /\ Goes(w, [writer[w] EXCEPT !.pc =
                   IF Fallback \/ (dialect # "clickhouse" /\ writer[w].mode = "replace")
                   THEN "empty" ELSE "load"])
            /\ Writes

Emptied == [table EXCEPT !.rows = {}]

(* TRUNCATE TABLE. *)
Empty(w) ==
    /\ Stepwise /\ ~Fallback /\ At(w, "empty")
    /\ IF table = None
       THEN Refused(w)
       ELSE table' = Emptied /\ Goes(w, [writer[w] EXCEPT !.pc = "load"]) /\ Writes

(* The fallback's to_sql looks again, and for "replace" drops what it finds. *)
FallbackDrop(w) ==
    /\ Fallback /\ At(w, "empty")
    /\ table' = IF writer[w].mode = "replace" THEN None ELSE table
    /\ Goes(w, [writer[w] EXCEPT !.pc = IF table' = None THEN "make" ELSE "load"])
    /\ Writes

(* It makes the table that it did not find, or dropped. *)
FallbackMake(w) ==
    /\ Fallback /\ At(w, "make")
    /\ IF table # None
       THEN Refused(w)
       ELSE table' = New /\ Goes(w, [writer[w] EXCEPT !.pc = "load"]) /\ Writes

(* executemany and its commit, or the INSERTs of to_sql in the transaction it opens. *)
Insert(w) ==
    /\ Stepwise /\ ~Chunked /\ At(w, "load")
    /\ IF table = None
       THEN Refused(w)
       ELSE /\ table' = [table EXCEPT !.rows = @ \cup Frame(writer[w].call)]
            /\ Committed(w)
            /\ UNCHANGED <<dialect, version, late, timeouts, calls>>

NextChunk(w) == <<writer[w].call, writer[w].sent + 1>>

(* One of several requests or INSERTs, committed with its answer. *)
Post(w) ==
    /\ Chunked /\ At(w, "load")
    /\ IF table = None
       THEN Refused(w)
       ELSE /\ table' = [table EXCEPT !.rows = @ \cup {NextChunk(w)}]
            /\ IF writer[w].sent + 1 = Chunks
               THEN Owes(w) /\ Ends(w, "returned")
               ELSE Goes(w, [writer[w] EXCEPT !.sent = @ + 1]) /\ UNCHANGED <<owed, last>>
            /\ UNCHANGED <<dialect, version, late, timeouts, calls>>

(* No answer, from ClickHouse within 600 s: the call raises, and the server goes on. *)
PostTimesOut(w) ==
    /\ Chunked /\ At(w, "load") /\ timeouts < MaxTimeouts
    /\ timeouts' = timeouts + 1
    /\ late' = late \cup {NextChunk(w)}
    /\ Ends(w, "broken")
    /\ UNCHANGED <<dialect, table, version, calls, owed>>

(* The server inserts what it got, or gives up. *)
Lands ==
    \E x \in late :
        /\ late' = late \ {x}
        /\ table' \in {table} \cup IF table = None THEN {} ELSE {[table EXCEPT !.rows = @ \cup {x}]}
        /\ UNCHANGED <<dialect, version, timeouts, calls, writer, owed, last>>

-----------------------------------------------------------------------------
Quiet == Inside = {} /\ late = {} /\ UNCHANGED vars

Next ==
    \/ \E w \in Writers :
          \/ Begin(w) \/ Break(w)
          \/ PgDrop(w) \/ PgLook(w) \/ PgCreate(w) \/ PgEmpty(w) \/ PgCopy(w) \/ PgCommit(w)
          \/ IcebergLoad(w) \/ IcebergCommit(w)
          \/ Drop(w) \/ Look(w) \/ Create(w) \/ Empty(w) \/ FallbackDrop(w) \/ FallbackMake(w)
          \/ Insert(w) \/ Post(w) \/ PostTimesOut(w)
    \/ Lands \/ Quiet

Spec == Init /\ [][Next]_vars

-----------------------------------------------------------------------------
Calls == 1..MaxCalls
Rows == SUBSET (Calls \X (1..Chunks))
Table == [definition : {"own", "frame"}, rows : Rows]

\* Shapes; a table that somebody has locked for himself nobody else has locked.
TypeOK ==
    /\ dialect \in AllDialects /\ table \in Table \cup {None}
    /\ version \in 0..MaxCalls /\ late \in Rows /\ timeouts \in 0..MaxTimeouts /\ calls \in 0..MaxCalls
    /\ writer \in [Writers ->
          [pc : {"idle", "open", "look", "create", "empty", "make", "load"}, call : 0..MaxCalls,
           mode : {"append", "replace"}, recreate : BOOLEAN, sees : BOOLEAN,
           lock : {"none", "shared", "exclusive"}, effect : [fresh : BOOLEAN, emptied : BOOLEAN, rows : Rows],
           sent : 0..Chunks, snapshot : 0..MaxCalls, alone : BOOLEAN, behind : Rows]]
    /\ \A w \in Writers : writer[w].lock = "exclusive" => \A v \in Writers \ {w} : writer[v].lock = "none"
    /\ owed \subseteq Calls
    /\ last = None \/ last \in [call : Calls, replaces : BOOLEAN, alone : BOOLEAN, behind : Rows,
                                how : {"returned", "refused", "broken"}]

\* Where a frame is one transaction or one snapshot, a session that reads the table sees the
\* whole of it or nothing of it, whatever breaks, with or without an answer.
AllOrNothing ==
    ~Chunked /\ table # None =>
        \A c \in Calls : Frame(c) \cap table.rows = {} \/ Frame(c) \subseteq table.rows

\* On PostgreSQL and Iceberg calls that overlap or break leave the table, at every moment, as if
\* those that committed had been made one after the other; one that returned has committed.
InTurn ==
    dialect \in {"postgresql", "iceberg"} =>
        /\ (IF table = None THEN {} ELSE table.rows) = UNION {Frame(c) : c \in owed}
        /\ last # None /\ last.how = "returned" => last.call \in owed

\* A replacing call that overlapped no other leaves its whole frame, on every target and whatever
\* earlier calls left in the table, and with it at most the chunks that were still under way when
\* it began.
ReplaceRepeats ==
    last # None /\ last.how = "returned" /\ last.replaces /\ last.alone =>
        /\ table # None /\ Frame(last.call) \subseteq table.rows
        /\ table.rows \ Frame(last.call) \subseteq last.behind

\* README.md:164: "`fast_write(..., mode="replace")` is safe to repeat".  The same of a call
\* that is repeated after one that failed, with nothing assumed of that one.
ReplaceSafeToRepeat ==
    last # None /\ last.how = "returned" /\ last.replaces /\ last.alone =>
        table # None /\ table.rows = Frame(last.call)

\* CAPABILITIES.md: "mode="replace" empties an existing table but keeps its definition".
DefinitionKept ==
    [][table # None /\ (table' = None \/ table'.definition # table.definition)
          => \E w \in Writers : writer[w].recreate]_vars

\* CAPABILITIES.md: "Missing tables are created automatically".  A call that overlaps no
\* other is not refused: it fails only if the database does.
NotRefused == last # None /\ last.alone => last.how # "refused"
=============================================================================
