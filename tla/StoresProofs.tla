----------------------------- MODULE StoresProofs -----------------------------
(***************************************************************************)
(* Theorems about a file of the frame cache, a report with its viewers,    *)
(* and a table of a target database, for any number of writers, readers    *)
(* and viewers, any number of attempts, chunks, calls and timeouts, and    *)
(* every dialect.  They rest on SharedCacheAssumption and StoresAssumption *)
(* only.                                                                   *)
(***************************************************************************)
EXTENDS MCStores, TLAPS

-----------------------------------------------------------------------------
(* SharedCache: the frame cache. *)

\* What is known of the shapes: the bounds of TypeOK are not needed.
Held == [by : SUBSET Nat, whole : BOOLEAN, key : Nat]
ReaderAt == [kind : {"none", "load", "inspect", "query", "list"},
          pc : {"idle", "found", "open", "read", "measured", "failed"},
          inode : Nat \cup {None}, key : Nat, found : Held \cup {None}]

CacheShapes ==
    /\ clock \in Nat /\ writes \in Nat
    /\ content \in [DOMAIN content -> Held] /\ DOMAIN content \subseteq Nat
    /\ file = None \/ file \in DOMAIN content
    /\ wpc \in [Writers -> Nat \cup {None}]
    /\ winode \in [Writers -> DOMAIN content \cup {None}]
    /\ \A w \in Writers : wpc[w] # None => winode[w] \in DOMAIN content
    /\ reader \in [Readers -> ReaderAt]
    /\ \A x \in Readers : reader[x].pc \in {"open", "read"} => reader[x].found \in Held

\* Every size and time was given out by a write that is over: the next one is new.
KeysAreOld ==
    /\ \A i \in DOMAIN content : content[i].key <= clock
    /\ \A x \in Readers : reader[x].key <= clock
    /\ meta_cache # None => meta_cache.key \in Nat /\ meta_cache.key <= clock

\* As long as the file has the size and time a reader looked up, it holds what the reader found,
\* although the reader may have opened another file in between.
FoundIsOfItsKey ==
    \A x \in Readers :
       reader[x].pc \in {"open", "read"} /\ file # None /\ content[file].key = reader[x].key
           => content[file].by = reader[x].found.by

CacheInv == CacheShapes /\ KeysAreOld /\ FoundIsOfItsKey /\ MetaIsOfItsKey

LEMMA InitCacheInv == Init => CacheInv
<1> SUFFICES ASSUME Init PROVE CacheInv
  OBVIOUS
<1>1. CacheShapes
  BY DEF Init, CacheShapes, Resting, ReaderAt
<1>2. KeysAreOld
  BY DEF Init, KeysAreOld, Resting
<1>3. FoundIsOfItsKey
  BY DEF Init, FoundIsOfItsKey, Resting
<1>4. QED
  BY <1>1, <1>2, <1>3 DEF Init, CacheInv, MetaIsOfItsKey

-----------------------------------------------------------------------------
(* What the steps of writers and clearing do: the file is as it was, is gone, or has a new key. *)

LEMMA WriterSteps ==
    ASSUME CacheInv, (\E w \in Writers : OpenWrite(w) \/ CloseWrite(w) \/ FailWrite(w)) \/ Clear
    PROVE  /\ CacheShapes'
           /\ clock' \in Nat /\ clock' >= clock
           /\ \A i \in DOMAIN content' : content'[i].key <= clock'
           /\ UNCHANGED <<reader, meta_cache>>
           /\ \/ file' = None
              \/ file' = file /\ content'[file'] = content[file]
              \/ content'[file'].key = clock + 1
<1>1. CacheShapes /\ KeysAreOld
  BY DEF CacheInv
<1>2. CASE Clear
  BY <1>1, <1>2 DEF Clear, CacheShapes, KeysAreOld
<1>3. ASSUME NEW w \in Writers, FailWrite(w) PROVE CacheShapes' /\ UNCHANGED <<file, content, clock, reader, meta_cache>>
  BY <1>1, <1>3 DEF FailWrite, files, CacheShapes
<1>4. ASSUME NEW w \in Writers, CloseWrite(w)
      PROVE  /\ CacheShapes' /\ clock' = clock + 1 /\ UNCHANGED <<file, reader, meta_cache>>
             /\ DOMAIN content' = DOMAIN content
             /\ \A i \in DOMAIN content : content'[i] = content[i] \/ content'[i].key = clock + 1
  <2>1. winode[w] \in DOMAIN content /\ clock' = clock + 1
    BY <1>1, <1>4 DEF CloseWrite, CacheShapes
  <2> DEFINE closed == [by |-> content[winode[w]].by, whole |-> TRUE, key |-> clock']
  <2>2. content' = [content EXCEPT ![winode[w]] = closed]
    BY <1>4 DEF CloseWrite
  <2>7. closed \in Held /\ closed.key = clock + 1
    BY <1>1, <2>1 DEF CacheShapes, Held
  <2> HIDE DEF closed
  <2>3. DOMAIN content' = DOMAIN content /\ content' \in [DOMAIN content -> Held]
    BY <1>1, <2>1, <2>2, <2>7 DEF CacheShapes
  <2>4. \A i \in DOMAIN content : content'[i] = content[i] \/ content'[i].key = clock + 1
    BY <1>1, <2>1, <2>2, <2>7 DEF CacheShapes
  <2>5. CacheShapes'
    BY <1>1, <1>4, <2>1, <2>3 DEF CacheShapes, CloseWrite
  <2>6. QED
    BY <1>4, <2>1, <2>3, <2>4, <2>5 DEF CloseWrite
<1>5. ASSUME NEW w \in Writers, OpenWrite(w)
      PROVE  /\ CacheShapes' /\ clock' = clock + 1 /\ UNCHANGED <<reader, meta_cache>>
             /\ file' \in DOMAIN content' /\ content'[file'].key = clock + 1
             /\ \A i \in DOMAIN content' : i # file' => i \in DOMAIN content /\ content'[i] = content[i]
  <2> DEFINE i == IF file = None THEN writes' ELSE file
             new == [by |-> {writes'} \cup Leftover(i), whole |-> FALSE, key |-> clock']
  <2>1. clock' = clock + 1 /\ writes' = writes + 1 /\ i \in Nat
    BY <1>1, <1>5 DEF OpenWrite, CacheShapes
  <2>2. file' = i /\ winode' = [winode EXCEPT ![w] = i] /\ wpc' = [wpc EXCEPT ![w] = writes']
        /\ content' = [j \in DOMAIN content \cup {i} |-> IF j = i THEN new ELSE content[j]]
    BY <1>5 DEF OpenWrite
  <2>3. Leftover(i) \subseteq Nat
    BY <1>1 DEF Leftover, Opened, CacheShapes
  <2>4. new \in Held /\ new.key = clock + 1
    BY <1>1, <2>1, <2>3 DEF Held, CacheShapes
  <2>5. DOMAIN content' = DOMAIN content \cup {i} /\ content' \in [DOMAIN content' -> Held]
    BY <1>1, <2>2, <2>4 DEF CacheShapes
  <2> HIDE DEF i, new
  <2>6. content'[i] = new /\ \A j \in DOMAIN content : j # i => content'[j] = content[j]
    BY <2>2
  <2>7. CacheShapes'
    <3>1. /\ wpc' \in [Writers -> Nat \cup {None}]
          /\ winode' \in [Writers -> DOMAIN content' \cup {None}]
          /\ \A v \in Writers : wpc'[v] # None => winode'[v] \in DOMAIN content'
      BY <1>1, <2>1, <2>2, <2>5 DEF CacheShapes
    <3>2. file' \in DOMAIN content' /\ DOMAIN content' \subseteq Nat
      BY <1>1, <2>1, <2>2, <2>5 DEF CacheShapes
    <3>3. UNCHANGED reader
      BY <1>5 DEF OpenWrite
    <3>4. QED
      BY <1>1, <2>1, <2>5, <3>1, <3>2, <3>3 DEF CacheShapes
  <2>8. QED
    BY <1>5, <2>1, <2>2, <2>4, <2>5, <2>6, <2>7 DEF OpenWrite
<1>6. clock \in Nat /\ \A i \in DOMAIN content : content[i].key \in Nat /\ content[i].key <= clock
  BY <1>1 DEF CacheShapes, Held, KeysAreOld
<1>7. CASE \E w \in Writers : FailWrite(w)
  BY <1>3, <1>6, <1>7
<1>8. CASE \E w \in Writers : CloseWrite(w)
  <2>1. file' = None \/ file' \in DOMAIN content
    BY <1>1, <1>4, <1>8 DEF CacheShapes
  <2>2. QED
    BY <1>4, <1>6, <1>8, <2>1
<1>9. CASE \E w \in Writers : OpenWrite(w)
  BY <1>5, <1>6, <1>9
<1>10. CASE Clear
  BY <1>2, <1>6, <1>10 DEF Clear
<1>11. QED
  BY <1>7, <1>8, <1>9, <1>10

LEMMA WritersKeepCacheInv ==
    ASSUME CacheInv, (\E w \in Writers : OpenWrite(w) \/ CloseWrite(w) \/ FailWrite(w)) \/ Clear
    PROVE  CacheInv'
<1>1. CacheShapes /\ KeysAreOld /\ FoundIsOfItsKey /\ MetaIsOfItsKey
  BY DEF CacheInv
<1>2. /\ CacheShapes'
      /\ clock' \in Nat /\ clock' >= clock
      /\ \A i \in DOMAIN content' : content'[i].key <= clock'
      /\ UNCHANGED <<reader, meta_cache>>
      /\ \/ file' = None
         \/ file' = file /\ content'[file'] = content[file]
         \/ content'[file'].key = clock + 1
  BY WriterSteps
<1>3. clock \in Nat /\ \A x \in Readers : reader[x].key \in Nat /\ reader[x].key <= clock
  BY <1>1 DEF CacheShapes, ReaderAt, KeysAreOld
<1>4. KeysAreOld'
  BY <1>1, <1>2, <1>3 DEF KeysAreOld
<1>5. FoundIsOfItsKey'
  BY <1>1, <1>2, <1>3 DEF FoundIsOfItsKey
<1>6. MetaIsOfItsKey'
  BY <1>1, <1>2, <1>3 DEF MetaIsOfItsKey, KeysAreOld
<1>7. QED
  BY <1>2, <1>4, <1>5, <1>6 DEF CacheInv
-----------------------------------------------------------------------------
(* The steps of readers. *)

LEMMA ReadersKeepCacheInv ==
    ASSUME CacheInv, NEW x \in Readers,
           \/ LookUp(x) \/ OpenFails(x) \/ MetaHit(x) \/ Open(x) \/ Read(x) \/ Keep(x)
           \/ ReadRewritten(x) \/ Shown(x) \/ Raise(x)
    PROVE  CacheInv'
<1>1. CacheShapes /\ KeysAreOld /\ FoundIsOfItsKey /\ MetaIsOfItsKey
  BY DEF CacheInv
<1>2. UNCHANGED <<file, content, clock, writes, wpc, winode>>
  BY DEF LookUp, OpenFails, MetaHit, Open, Read, Keep, ReadRewritten, Shown, Raise, files
<1>3. reader[x] \in ReaderAt /\ Resting \in ReaderAt
  BY <1>1 DEF CacheShapes, ReaderAt, Resting
<1>4. SUFFICES
        /\ reader' = [reader EXCEPT ![x] = reader'[x]] /\ reader'[x] \in ReaderAt
        /\ reader'[x].key <= clock
        /\ reader'[x].pc \in {"open", "read"} =>
              /\ reader'[x].found \in Held
              /\ file # None /\ content[file].key = reader'[x].key => content[file].by = reader'[x].found.by
        /\ \/ UNCHANGED meta_cache
           \/ /\ meta_cache'.key \in Nat /\ meta_cache'.key <= clock
              /\ file # None /\ content[file].key = meta_cache'.key => meta_cache'.by = content[file].by
  <2>1. \A y \in Readers \ {x} : reader'[y] = reader[y]
    BY <1>1, <1>4 DEF CacheShapes
  <2>2. CacheShapes'
    BY <1>1, <1>2, <1>4, <2>1 DEF CacheShapes
  <2>3. KeysAreOld'
    BY <1>1, <1>2, <1>4, <2>1 DEF KeysAreOld
  <2>4. FoundIsOfItsKey'
    BY <1>1, <1>2, <1>4, <2>1 DEF FoundIsOfItsKey
  <2>5. MetaIsOfItsKey'
    BY <1>1, <1>2, <1>4 DEF MetaIsOfItsKey
  <2>6. QED
    BY <2>2, <2>3, <2>4, <2>5 DEF CacheInv
<1>5. reader[x].key \in Nat /\ reader[x].key <= clock /\ clock \in Nat /\ Resting.key = 0 /\ Resting.pc = "idle"
  BY <1>1, <1>3 DEF CacheShapes, ReaderAt, KeysAreOld, Resting
<1>6. CASE OpenFails(x) \/ ReadRewritten(x) \/ Raise(x)
  <2>1. reader' = [reader EXCEPT ![x] = Resting] /\ UNCHANGED meta_cache
    BY <1>6 DEF OpenFails, ReadRewritten, Raise, Sets
  <2>2. reader'[x] = Resting
    BY <1>1, <2>1 DEF CacheShapes
  <2>3. reader' = [reader EXCEPT ![x] = reader'[x]]
    BY <2>1, <2>2
  <2>4. reader'[x].key <= clock /\ reader'[x].pc = "idle"
    BY <1>5, <2>2
  <2>5. QED
    BY <1>3, <2>1, <2>2, <2>3, <2>4
<1>7. CASE LookUp(x)
  <2>1. PICK k \in {"load", "inspect", "query", "list"} :
           reader' = [reader EXCEPT ![x] = [Resting EXCEPT !.kind = k, !.pc = "found", !.key = content[file].key]]
    BY <1>7 DEF LookUp, Sets
  <2>2. content[file].key \in Nat /\ content[file].key <= clock
    BY <1>1, <1>7 DEF LookUp, CacheShapes, Held, KeysAreOld
  <2>3. /\ reader'[x] \in ReaderAt /\ reader'[x].key = content[file].key /\ reader'[x].pc = "found"
        /\ reader' = [reader EXCEPT ![x] = reader'[x]]
    BY <1>1, <1>3, <2>1, <2>2 DEF CacheShapes, ReaderAt, Resting
  <2>4. QED
    BY <1>7, <2>2, <2>3 DEF LookUp
<1>8. CASE MetaHit(x) \/ Shown(x)
  <2>1. /\ reader'[x] \in ReaderAt /\ reader'[x].key <= clock /\ reader'[x].pc \notin {"open", "read"}
        /\ reader' = [reader EXCEPT ![x] = reader'[x]]
    BY <1>1, <1>3, <1>5, <1>8 DEF MetaHit, Shown, Sets, CacheShapes, ReaderAt
  <2>2. QED
    BY <1>8, <2>1 DEF MetaHit, Shown
<1>9. CASE Open(x)
  <2>1. file # None /\ file \in DOMAIN content /\ content[file] \in Held /\ file \in Nat
    BY <1>1, <1>9 DEF Open, Openable, CacheShapes
  <2>2. /\ reader'[x] \in ReaderAt /\ reader'[x].key = reader[x].key /\ reader'[x].found = content[file]
        /\ reader' = [reader EXCEPT ![x] = reader'[x]]
    BY <1>1, <1>3, <1>9, <2>1 DEF Open, Sets, CacheShapes, ReaderAt
  <2>3. QED
    BY <1>5, <1>9, <2>1, <2>2 DEF Open
<1>10. CASE Read(x)
  <2>1. /\ reader'[x] \in ReaderAt /\ reader'[x].key <= clock
        /\ reader' = [reader EXCEPT ![x] = reader'[x]]
        /\ reader'[x].pc \in {"open", "read"} => reader'[x].found = reader[x].found /\ reader'[x].key = reader[x].key
    <3>1. reader' = [reader EXCEPT ![x] = After(x)]
      BY <1>10 DEF Read, Sets
    <3>2. /\ After(x) \in ReaderAt /\ After(x).key <= clock
          /\ After(x).pc \in {"open", "read"} => After(x).found = reader[x].found /\ After(x).key = reader[x].key
      <4>1. reader[x].kind = "list" => After(x) = [reader[x] EXCEPT !.pc = "read", !.inode = None]
        BY DEF After
      <4>2. reader[x].kind = "inspect"
              => After(x) = [reader[x] EXCEPT !.pc = "found", !.kind = "query", !.inode = None]
        BY DEF After
      <4>3. reader[x].kind \notin {"list", "inspect"} => After(x) = Resting
        BY DEF After
      <4>4. CASE reader[x].kind = "list"
        BY <1>3, <1>5, <4>1, <4>4 DEF ReaderAt
      <4>5. CASE reader[x].kind = "inspect"
        BY <1>3, <1>5, <4>2, <4>5 DEF ReaderAt
      <4>6. CASE reader[x].kind \notin {"list", "inspect"}
        BY <1>3, <1>5, <4>3, <4>6
      <4>7. QED
        BY <4>4, <4>5, <4>6
    <3>3. QED
      BY <1>1, <3>1, <3>2 DEF CacheShapes
  <2>2. reader[x].pc = "open" /\ UNCHANGED meta_cache
    BY <1>10 DEF Read
  <2>3. QED
    BY <1>1, <2>1, <2>2 DEF CacheShapes, FoundIsOfItsKey
<1>11. CASE Keep(x)
  <2>1. /\ reader'[x] \in ReaderAt /\ reader'[x].key <= clock /\ reader'[x].pc = "measured"
        /\ reader' = [reader EXCEPT ![x] = reader'[x]]
    BY <1>1, <1>3, <1>5, <1>11 DEF Keep, Sets, CacheShapes, ReaderAt
  <2>2. meta_cache'.key = reader[x].key /\ meta_cache'.by = reader[x].found.by /\ reader[x].pc = "read"
    BY <1>11 DEF Keep, KeyKept
  <2>3. QED
    BY <1>1, <1>5, <2>1, <2>2 DEF FoundIsOfItsKey
<1>12. QED
  BY <1>6, <1>7, <1>8, <1>9, <1>10, <1>11

LEMMA StepCacheInv ==
    ASSUME CacheInv, [Next]_vars
    PROVE  CacheInv'
<1>1. CASE UNCHANGED vars
  BY <1>1 DEF vars, CacheInv, CacheShapes, KeysAreOld, FoundIsOfItsKey, MetaIsOfItsKey
<1>2. QED
  BY <1>1, WritersKeepCacheInv, ReadersKeepCacheInv DEF Next, Step, Stop

-----------------------------------------------------------------------------
(* ReportStore: a report and the pages that show it. *)

\* What is known of the shapes: the bounds of TypeOK are not needed.
RowOf     == [of : Nat, updated_at : Nat]
Publisher == [pc : {"idle", "trying", "refused", "first", "second"},
              op : {"none", "publish", "flush"}, tries : Nat, table : Nat]
Page      == [pc : {"idle", "asking", "meta", "none", "empty", "chosen", "loading", "table", "error", "shown"},
              tries : Nat, row : RowOf \cup {None}, shown : Nat]

ReportShapes ==
    /\ data \in Nat /\ created \in Nat /\ stamps \in Nat /\ row \in RowOf \cup {None}
    /\ publisher \in [Writers -> Publisher] /\ page \in [Viewers -> Page]
    /\ DOMAIN cache \subseteq Nat /\ cache \in [DOMAIN cache -> Nat]

\* There is at most one table, the newest, and it is at least as new as every row that was written;
\* so is what the cache keeps under a row's stamp, and no stamp in the cache is yet to be given.
Known(r) ==
    /\ r.of <= created /\ r.updated_at <= stamps
    /\ r.updated_at \in DOMAIN cache => cache[r.updated_at] >= r.of

HasRow == {"chosen", "loading", "table", "shown"}

NewestTable ==
    /\ data \in {0, created}
    /\ \A s \in DOMAIN cache : s <= stamps
    /\ \A w \in Writers : publisher[w].table <= created
    /\ row # None => Known(row)
    /\ \A v \in Viewers : page[v].pc \in HasRow => page[v].row # None /\ Known(page[v].row)

\* A publication or flush that has done its first statement left the table it is for, or none.
HalfDone(w) ==
    /\ publisher[w].op = "publish" => data = publisher[w].table
    /\ publisher[w].op # "publish" => data = 0

Settled == (row = None /\ data = 0) \/ (row # None /\ row.of = data)

OneWriter ==
    \/ disturbed
    \/ /\ \A w, u \in Reports!Inside : w = u
       /\ \A w \in Writers : publisher[w].pc = "second" => HalfDone(w)
       /\ Settled \/ \E w \in Writers : publisher[w].pc = "second"

ReportsInv == ReportShapes /\ NewestTable /\ Reports!NoOlderThanItsRow /\ OneWriter

LEMMA InitReportsInv == ASSUME Reports!Init PROVE ReportsInv
<1>1. /\ data = 0 /\ row = None /\ created = 0 /\ stamps = 0 /\ DOMAIN cache = {} /\ cache = [s \in {} |-> 0]
      /\ publisher = [w \in Writers |-> Reports!NoWriter] /\ page = [v \in Viewers |-> Reports!NoPage]
  BY DEF Reports!Init
<1>2. ReportShapes
  BY <1>1 DEF ReportShapes, Publisher, Page, Reports!NoWriter, Reports!NoPage
<1>3. NewestTable
  BY <1>1 DEF NewestTable, HasRow, Reports!NoWriter, Reports!NoPage
<1>4. Reports!NoOlderThanItsRow
  BY <1>1 DEF Reports!NoOlderThanItsRow, Reports!NoPage
<1>5. OneWriter
  BY <1>1 DEF OneWriter, Settled, Reports!Inside, Reports!NoWriter
<1>6. QED
  BY <1>2, <1>3, <1>4, <1>5 DEF ReportsInv

LEMMA PublisherKeepsShapes ==
    ASSUME ReportsInv, NEW w \in Writers, Reports!Begin(w) \/ Reports!Write(w)
    PROVE  /\ ReportShapes' /\ NewestTable' /\ Reports!NoOlderThanItsRow'
           /\ publisher' = [publisher EXCEPT ![w] = publisher'[w]]
<1>1. ReportShapes /\ NewestTable /\ Reports!NoOlderThanItsRow
  BY DEF ReportsInv
<1>2. UNCHANGED <<page, cache>>
  BY DEF Reports!Begin, Reports!Write, Reports!Connect, Reports!ConnectFails, Reports!Refused, Reports!First,
         Reports!Second, Reports!BreakOff, Reports!stored
<1>3. publisher[w] \in Publisher /\ Reports!NoWriter \in Publisher /\ Reports!NoWriter.table = 0
  BY <1>1 DEF ReportShapes, Publisher, Reports!NoWriter
<1>4. SUFFICES
        /\ publisher' = [publisher EXCEPT ![w] = publisher'[w]] /\ publisher'[w] \in Publisher
        /\ publisher'[w].table <= created'
        /\ created' \in Nat /\ created' >= created /\ data' \in {0, created'}
        /\ \/ UNCHANGED <<row, stamps>>
           \/ UNCHANGED stamps /\ row' = None
           \/ stamps' = stamps + 1 /\ row' \in RowOf /\ row'.of <= created' /\ row'.updated_at = stamps'
  <2>1. \A u \in Writers \ {w} : publisher'[u] = publisher[u]
    BY <1>1, <1>4 DEF ReportShapes
  <2>2. stamps \in Nat /\ stamps' \in Nat /\ stamps' >= stamps
    BY <1>1, <1>4 DEF ReportShapes
  <2>3. ReportShapes'
    <3>1. row' \in RowOf \cup {None} /\ data' \in Nat
      BY <1>1, <1>4 DEF ReportShapes
    <3>2. publisher' \in [Writers -> Publisher]
      BY <1>1, <1>4 DEF ReportShapes
    <3>3. QED
      BY <1>1, <1>2, <1>4, <2>2, <3>1, <3>2 DEF ReportShapes
  <2>4. ASSUME NEW r \in RowOf, Known(r) PROVE Known(r)'
    BY <1>1, <1>2, <1>4, <2>2, <2>4 DEF ReportShapes, RowOf, Known
  <2>5. row' # None => Known(row)'
    <3>1. CASE UNCHANGED <<row, stamps>>
      BY <1>1, <2>4, <3>1 DEF ReportShapes, NewestTable
    <3>2. CASE stamps' = stamps + 1 /\ row' \in RowOf /\ row'.of <= created' /\ row'.updated_at = stamps'
      <4>1. row'.updated_at \notin DOMAIN cache
        BY <1>1, <2>2, <3>2 DEF NewestTable
      <4>2. QED
        BY <1>2, <2>2, <3>2, <4>1 DEF Known
    <3>3. QED
      BY <1>4, <3>1, <3>2
  <2>6. \A v \in Viewers : page'[v].pc \in HasRow => page'[v].row # None /\ Known(page[v].row)'
    BY <1>1, <1>2, <2>4 DEF ReportShapes, Page, NewestTable
  <2>7. NewestTable'
    <3>1. \A u \in Writers : publisher'[u].table <= created'
      BY <1>1, <1>4, <2>1 DEF ReportShapes, Publisher, NewestTable
    <3>2. \A s \in DOMAIN cache' : s <= stamps'
      BY <1>1, <1>2, <2>2 DEF ReportShapes, NewestTable
    <3>3. QED
      BY <1>2, <1>4, <2>5, <2>6, <3>1, <3>2 DEF NewestTable, HasRow
  <2>8. Reports!NoOlderThanItsRow'
    BY <1>1, <1>2 DEF Reports!NoOlderThanItsRow
  <2>9. QED
    BY <1>4, <2>3, <2>7, <2>8
<1>6. publisher[w].table <= created /\ created \in Nat /\ data \in {0, created}
  BY <1>1 DEF ReportShapes, NewestTable
<1>5. ASSUME NEW p \in Publisher, publisher' = [publisher EXCEPT ![w] = p]
      PROVE  /\ publisher'[w] = p
             /\ publisher' = [publisher EXCEPT ![w] = publisher'[w]] /\ publisher'[w] \in Publisher
  BY <1>1, <1>5 DEF ReportShapes
<1>7. ASSUME Reports!Begin(w) PROVE <1>4!1
  <2>1. PICK op \in {"publish", "flush"} :
           publisher' = [publisher EXCEPT ![w] = [Reports!NoWriter EXCEPT !.pc = "trying", !.op = op]]
    BY <1>7 DEF Reports!Begin
  <2> DEFINE p == [Reports!NoWriter EXCEPT !.pc = "trying", !.op = op]
  <2>2. p \in Publisher /\ p.table = 0
    BY <1>3 DEF Publisher
  <2>3. publisher' = [publisher EXCEPT ![w] = p] /\ UNCHANGED <<data, row, created, stamps>>
    BY <1>7, <2>1 DEF Reports!Begin, Reports!stored
  <2> HIDE DEF p
  <2>4. QED
    <3>1. /\ publisher'[w] \in Publisher /\ publisher' = [publisher EXCEPT ![w] = publisher'[w]]
          /\ publisher'[w].table = 0
      BY <1>5, <2>2, <2>3
    <3>2. QED
      BY <1>6, <2>2, <2>3, <3>1
<1>8. ASSUME Reports!Connect(w) \/ Reports!ConnectFails(w) PROVE <1>4!1
  <2>1. UNCHANGED <<data, row, created, stamps>>
    BY <1>8 DEF Reports!Connect, Reports!ConnectFails, Reports!stored
  <2>2. PICK p \in Publisher : publisher' = [publisher EXCEPT ![w] = p] /\ p.table = publisher[w].table
    <3>1. CASE Reports!Connect(w)
      <4> DEFINE q == [publisher[w] EXCEPT !.pc = "first"]
      <4>1. q \in Publisher /\ q.table = publisher[w].table
        BY <1>3 DEF Publisher
      <4>2. publisher' = [publisher EXCEPT ![w] = q]
        BY <3>1 DEF Reports!Connect
      <4> HIDE DEF q
      <4>3. QED
        BY <4>1, <4>2
    <3>2. CASE Reports!ConnectFails(w)
      <4> DEFINE n == publisher[w].tries + 1
                 next == IF n = WriterTries THEN "refused" ELSE "trying"
                 q == [publisher[w] EXCEPT !.tries = n, !.pc = next]
      <4>1. publisher' = [publisher EXCEPT ![w] = q]
        BY <3>2 DEF Reports!ConnectFails, Reports!Tried
      <4>2. n \in Nat /\ next \in {"refused", "trying"}
        BY <1>3 DEF Publisher
      <4> HIDE DEF n, next
      <4>4. q \in Publisher /\ q.table = publisher[w].table
        BY <1>3, <4>2 DEF Publisher
      <4> HIDE DEF q
      <4>3. QED
        BY <4>1, <4>4
    <3>3. QED
      BY <1>8, <3>1, <3>2
  <2>3. QED
    <3>1. /\ publisher'[w] \in Publisher /\ publisher' = [publisher EXCEPT ![w] = publisher'[w]]
          /\ publisher'[w].table = publisher[w].table
      BY <1>5, <2>1, <2>2
    <3>2. QED
      BY <1>6, <2>1, <2>2, <3>1
<1>9. ASSUME Reports!Refused(w) \/ Reports!BreakOff(w) PROVE <1>4!1
  <2>1. UNCHANGED <<data, row, created, stamps>> /\ publisher' = [publisher EXCEPT ![w] = Reports!NoWriter]
    BY <1>9 DEF Reports!Refused, Reports!BreakOff, Reports!stored
  <2>2. QED
    <3>1. /\ publisher'[w] \in Publisher /\ publisher' = [publisher EXCEPT ![w] = publisher'[w]]
          /\ publisher'[w].table = 0
      BY <1>5, <1>3, <2>1
    <3>2. QED
      BY <1>3, <1>6, <2>1, <3>1
<1>10. ASSUME Reports!First(w) PROVE <1>4!1
  <2>1. UNCHANGED <<row, stamps>>
    BY <1>10 DEF Reports!First
  <2>2. CASE publisher[w].op = "publish"
    <3> DEFINE p == [publisher[w] EXCEPT !.pc = "second", !.table = created']
    <3>1. created' = created + 1 /\ data' = created' /\ publisher' = [publisher EXCEPT ![w] = p]
      <4>1. /\ created' = created + 1 /\ data' = created'
            /\ publisher' = [publisher EXCEPT ![w].pc = "second", ![w].table = created']
        BY <1>10, <2>2 DEF Reports!First
      <4>2. [publisher EXCEPT ![w].pc = "second", ![w].table = created'] = [publisher EXCEPT ![w] = p]
        BY <1>1, <1>3 DEF ReportShapes, Publisher
      <4>3. QED
        BY <4>1, <4>2
    <3>2. p \in Publisher /\ p.table = created'
      <4>1. created' \in Nat
        BY <1>6, <3>1
      <4>2. QED
        BY <1>3, <4>1 DEF Publisher
    <3> HIDE DEF p
    <3>3. QED
      <4>1. /\ publisher'[w] \in Publisher /\ publisher' = [publisher EXCEPT ![w] = publisher'[w]]
            /\ publisher'[w].table = created'
        BY <1>5, <2>1, <3>1, <3>2
      <4>2. QED
        BY <1>6, <2>1, <3>1, <3>2, <4>1
  <2>3. CASE publisher[w].op # "publish"
    <3> DEFINE p == [publisher[w] EXCEPT !.pc = "second"]
    <3>1. created' = created /\ data' = 0 /\ publisher' = [publisher EXCEPT ![w] = p]
      BY <1>10, <2>3 DEF Reports!First
    <3>2. p \in Publisher /\ p.table = publisher[w].table
      BY <1>3 DEF Publisher
    <3> HIDE DEF p
    <3>3. QED
      <4>1. /\ publisher'[w] \in Publisher /\ publisher' = [publisher EXCEPT ![w] = publisher'[w]]
            /\ publisher'[w].table = publisher[w].table
        BY <1>5, <2>1, <3>1, <3>2
      <4>2. QED
        BY <1>6, <2>1, <3>1, <3>2, <4>1
  <2>4. QED
    BY <2>2, <2>3
<1>11. ASSUME Reports!Second(w) PROVE <1>4!1
  <2>1. UNCHANGED <<data, created>> /\ publisher' = [publisher EXCEPT ![w] = Reports!NoWriter]
    BY <1>11 DEF Reports!Second
  <2>2. \/ UNCHANGED stamps /\ row' = None
        \/ stamps' = stamps + 1 /\ row' = [of |-> publisher[w].table, updated_at |-> stamps']
    BY <1>11 DEF Reports!Second
  <2>3. stamps \in Nat /\ publisher[w].table \in Nat
    BY <1>1, <1>3 DEF ReportShapes, Publisher
  <2>4. \/ UNCHANGED stamps /\ row' = None
        \/ stamps' = stamps + 1 /\ row' \in RowOf /\ row'.of <= created' /\ row'.updated_at = stamps'
    BY <1>6, <2>1, <2>2, <2>3 DEF RowOf
  <2>5. QED
    <3>1. /\ publisher'[w] \in Publisher /\ publisher' = [publisher EXCEPT ![w] = publisher'[w]]
          /\ publisher'[w].table = 0
      BY <1>5, <1>3, <2>1, <2>4
    <3>2. QED
      BY <1>3, <1>6, <2>1, <2>4, <3>1
<1>12. QED
  BY <1>7, <1>8, <1>9, <1>10, <1>11 DEF Reports!Write

LEMMA PublisherKeepsOneWriter ==
    ASSUME ReportsInv, NEW w \in Writers, Reports!Begin(w) \/ Reports!Write(w)
    PROVE  OneWriter'
<1>1. ReportShapes /\ OneWriter /\ StoresAssumption
  BY StoresAssumption DEF ReportsInv
<1>2. publisher' \in [Writers -> Publisher] /\ \A u \in Writers \ {w} : publisher'[u] = publisher[u]
  BY <1>1, PublisherKeepsShapes DEF ReportShapes
<1>3. publisher[w] \in Publisher
  BY <1>1 DEF ReportShapes
<1> USE DEF Reports!Inside
<1>4. CASE Reports!Begin(w) \/ Reports!ConnectFails(w) \/ Reports!Refused(w)
  <2>1. UNCHANGED <<data, row, disturbed>> /\ publisher[w].pc \notin {"first", "second"}
    BY <1>4 DEF Reports!Begin, Reports!ConnectFails, Reports!Refused, Reports!stored
  <2>2. publisher'[w].pc \notin {"first", "second"}
    <3>1. CASE Reports!Begin(w)
      BY <1>1, <3>1 DEF Reports!Begin, Reports!NoWriter, ReportShapes
    <3>2. CASE Reports!ConnectFails(w)
      <4> DEFINE n == publisher[w].tries + 1
                 next == IF n = WriterTries THEN "refused" ELSE "trying"
      <4>1. publisher'[w] = [publisher[w] EXCEPT !.tries = n, !.pc = next]
        BY <1>1, <3>2 DEF Reports!ConnectFails, Reports!Tried, ReportShapes
      <4>2. next \in {"refused", "trying"}
        OBVIOUS
      <4> HIDE DEF n, next
      <4>3. QED
        BY <1>3, <4>1, <4>2 DEF Publisher
    <3>3. CASE Reports!Refused(w)
      BY <1>1, <3>3 DEF Reports!Refused, Reports!NoWriter, ReportShapes
    <3>4. QED
      BY <1>4, <3>1, <3>2, <3>3
  <2>3. QED
    BY <1>1, <1>2, <2>1, <2>2 DEF OneWriter, HalfDone, Settled
<1>5. CASE Reports!Connect(w)
  <2>1. UNCHANGED <<data, row>> /\ publisher[w].pc = "trying" /\ disturbed' = (disturbed \/ Reports!Inside # {})
    BY <1>5 DEF Reports!Connect, Reports!stored
  <2>2. publisher'[w].pc = "first"
    BY <1>1, <1>3, <1>5 DEF Reports!Connect, ReportShapes, Publisher
  <2>3. CASE disturbed \/ Reports!Inside # {}
    BY <2>1, <2>3 DEF OneWriter
  <2>4. CASE ~disturbed /\ Reports!Inside = {}
    BY <1>1, <1>2, <2>1, <2>2, <2>4 DEF OneWriter, HalfDone, Settled
  <2>5. QED
    BY <2>3, <2>4
<1>6. CASE Reports!First(w)
  <2>1. UNCHANGED <<row, disturbed>> /\ publisher[w].pc = "first"
    BY <1>6 DEF Reports!First
  <2>2. publisher'[w].pc = "second" /\ publisher'[w].op = publisher[w].op
    BY <1>1, <1>3, <1>6 DEF Reports!First, ReportShapes, Publisher
  <2>3. /\ publisher[w].op = "publish" => data' = publisher'[w].table
        /\ publisher[w].op # "publish" => data' = 0
    BY <1>1, <1>3, <1>6 DEF Reports!First, ReportShapes, Publisher
  <2>4. CASE disturbed
    BY <2>1, <2>4 DEF OneWriter
  <2>5. CASE ~disturbed
    <3>1. HalfDone(w)'
      BY <2>2, <2>3 DEF HalfDone
    <3>2. \A u \in Writers \ {w} : publisher[u].pc \notin {"first", "second"}
      BY <1>1, <2>1, <2>5 DEF OneWriter
    <3>3. QED
      BY <1>2, <2>2, <3>1, <3>2 DEF OneWriter
  <2>6. QED
    BY <2>4, <2>5
<1>7. CASE Reports!Second(w)
  <2>1. UNCHANGED <<data, disturbed>> /\ publisher[w].pc = "second"
    BY <1>7 DEF Reports!Second
  <2>2. publisher'[w].pc = "idle"
    BY <1>1, <1>7 DEF Reports!Second, Reports!NoWriter, ReportShapes
  <2>3. CASE disturbed
    BY <2>1, <2>3 DEF OneWriter
  <2>4. CASE ~disturbed
    <3>1. HalfDone(w) /\ \A u \in Writers \ {w} : publisher[u].pc \notin {"first", "second"}
      BY <1>1, <2>1, <2>4 DEF OneWriter
    <3>2. Settled'
      <4>1. CASE publisher[w].op = "publish"
        <5>1. row' = [of |-> publisher[w].table, updated_at |-> stamps + 1] /\ data = publisher[w].table
          BY <1>7, <3>1, <4>1 DEF Reports!Second, HalfDone
        <5>2. row' \in RowOf
          BY <1>1, <1>3, <5>1 DEF ReportShapes, Publisher, RowOf
        <5>3. row' # None
          BY <1>1, <5>2 DEF StoresAssumption, Reports!ReportStoreAssumption, RowOf
        <5>4. QED
          BY <2>1, <5>1, <5>3 DEF Settled
      <4>2. CASE publisher[w].op # "publish"
        BY <1>7, <2>1, <3>1, <4>2 DEF Reports!Second, HalfDone, Settled
      <4>3. QED
        BY <4>1, <4>2
    <3>3. QED
      BY <1>2, <2>2, <3>1, <3>2 DEF OneWriter
  <2>5. QED
    BY <2>3, <2>4
<1>8. CASE Reports!BreakOff(w)
  <2>1. UNCHANGED <<data, row>> /\ disturbed' = (disturbed \/ publisher[w].pc = "second")
    BY <1>8 DEF Reports!BreakOff, Reports!stored
  <2>2. publisher'[w].pc = "idle"
    BY <1>1, <1>8 DEF Reports!BreakOff, Reports!NoWriter, ReportShapes
  <2>3. CASE disturbed \/ publisher[w].pc = "second"
    BY <2>1, <2>3 DEF OneWriter
  <2>4. CASE ~disturbed /\ publisher[w].pc # "second"
    BY <1>1, <1>2, <2>1, <2>2, <2>4 DEF OneWriter, HalfDone, Settled
  <2>5. QED
    BY <2>3, <2>4
<1>9. QED
  BY <1>4, <1>5, <1>6, <1>7, <1>8 DEF Reports!Write

-----------------------------------------------------------------------------
(* What a viewer does. *)

LEMMA PageKeepsReportsInv ==
    ASSUME ReportsInv, NEW v \in Viewers, Reports!OpenPage(v) \/ Reports!View(v)
    PROVE  ReportsInv'
<1>1. ReportShapes /\ NewestTable /\ Reports!NoOlderThanItsRow /\ OneWriter
  BY DEF ReportsInv
<1>2. UNCHANGED <<data, row, created, stamps, publisher, disturbed>>
  BY DEF Reports!OpenPage, Reports!View, Reports!Ask, Reports!AskFails, Reports!ReadMeta, Reports!LoadCached,
         Reports!Load, Reports!ReadTable, Reports!ClosePage, Reports!stored
<1>3. page[v] \in Page /\ Reports!NoPage \in Page /\ Reports!NoPage.pc = "idle"
  BY <1>1 DEF ReportShapes, Page, Reports!NoPage
<1>4. SUFFICES
        /\ page' = [page EXCEPT ![v] = page'[v]] /\ page'[v] \in Page
        /\ page'[v].pc \in HasRow => page'[v].row # None /\ Known(page'[v].row)
        /\ page'[v].pc = "shown" => page'[v].shown >= page'[v].row.of
        /\ \/ UNCHANGED cache
           \/ /\ data # 0 /\ page[v].row \in RowOf /\ page[v].row.updated_at <= stamps
              /\ cache' = [s \in DOMAIN cache \cup {page[v].row.updated_at} |->
                              IF s = page[v].row.updated_at THEN data ELSE cache[s]]
  <2>1. \A u \in Viewers \ {v} : page'[u] = page[u]
    BY <1>1, <1>4 DEF ReportShapes
  <2>2. /\ \A s \in DOMAIN cache' : s \in Nat /\ s <= stamps
        /\ cache' \in [DOMAIN cache' -> Nat]
        /\ \A s \in DOMAIN cache' : cache'[s] = created \/ (s \in DOMAIN cache /\ cache'[s] = cache[s])
    <3>1. CASE UNCHANGED cache
      BY <1>1, <3>1 DEF ReportShapes, NewestTable
    <3>2. CASE /\ data # 0 /\ page[v].row \in RowOf /\ page[v].row.updated_at <= stamps
               /\ cache' = [s \in DOMAIN cache \cup {page[v].row.updated_at} |->
                              IF s = page[v].row.updated_at THEN data ELSE cache[s]]
      <4>1. data = created /\ data \in Nat /\ page[v].row.updated_at \in Nat
        BY <1>1, <3>2 DEF ReportShapes, NewestTable, RowOf
      <4>2. QED
        BY <1>1, <3>2, <4>1 DEF ReportShapes, NewestTable
    <3>3. QED
      BY <1>4, <3>1, <3>2
  <2>3. ReportShapes'
    <3>1. page' \in [Viewers -> Page]
      BY <1>1, <1>4 DEF ReportShapes
    <3>2. QED
      BY <1>1, <1>2, <2>2, <3>1 DEF ReportShapes
  <2>4. ASSUME NEW r \in RowOf, Known(r) PROVE Known(r)'
    <3>1. r.updated_at \in DOMAIN cache' => cache'[r.updated_at] >= r.of
      BY <1>1, <2>2, <2>4 DEF ReportShapes, RowOf, Known
    <3>2. QED
      BY <1>2, <2>4, <3>1 DEF Known
  <2>5. \A u \in Viewers : page'[u].pc \in HasRow => page'[u].row # None /\ Known(page[u].row)'
    <3>1. ASSUME NEW u \in Viewers, page'[u].pc \in HasRow PROVE page'[u].row # None /\ Known(page'[u].row)
      BY <1>1, <1>4, <2>1, <3>1 DEF NewestTable
    <3>2. ASSUME NEW u \in Viewers, page'[u].pc \in HasRow PROVE page'[u].row \in RowOf
      BY <2>3, <3>1, <3>2 DEF ReportShapes, Page
    <3>3. ASSUME NEW u \in Viewers, page'[u].pc \in HasRow PROVE Known(page[u].row)'
      <4>1. PICK r \in RowOf : r = page'[u].row /\ Known(r)
        BY <3>1, <3>2, <3>3
      <4>2. Known(r)'
        BY <2>4, <4>1
      <4>3. QED
        BY <4>1, <4>2 DEF Known
    <3>4. QED
      BY <3>1, <3>3
  <2>6. NewestTable'
    <3>1. row' # None => Known(row)'
      <4>1. SUFFICES ASSUME row # None PROVE Known(row)'
        BY <1>2
      <4>2. PICK r \in RowOf : r = row /\ Known(r)
        BY <1>1, <4>1 DEF ReportShapes, NewestTable
      <4>3. Known(r)'
        BY <2>4, <4>2
      <4>4. QED
        BY <1>2, <4>2, <4>3 DEF Known
    <3>2. QED
      BY <1>1, <1>2, <2>2, <2>5, <3>1 DEF NewestTable, HasRow
  <2>7. Reports!NoOlderThanItsRow'
    BY <1>1, <1>4, <2>1 DEF Reports!NoOlderThanItsRow
  <2>8. OneWriter'
    BY <1>1, <1>2 DEF OneWriter, HalfDone, Settled, Reports!Inside
  <2>9. QED
    BY <2>3, <2>6, <2>7, <2>8 DEF ReportsInv
<1>5. ASSUME NEW q \in Page, page' = [page EXCEPT ![v] = q]
      PROVE  page'[v] = q /\ page' = [page EXCEPT ![v] = page'[v]] /\ page'[v] \in Page
  BY <1>1, <1>5 DEF ReportShapes
<1>6. ASSUME NEW q \in Page, page' = [page EXCEPT ![v] = q], UNCHANGED cache,
             \/ q.pc \notin HasRow
             \/ /\ q.row # None /\ Known(q.row)
                /\ q.pc = "shown" => q.shown >= q.row.of
      PROVE  <1>4!1
  <2>1. page'[v] = q /\ page' = [page EXCEPT ![v] = page'[v]] /\ page'[v] \in Page
    BY <1>5, <1>6
  <2>2. QED
    BY <1>6, <2>1 DEF HasRow
<1>7. CASE Reports!OpenPage(v)
  <2> DEFINE q == [Reports!NoPage EXCEPT !.pc = "asking"]
  <2>1. page' = [page EXCEPT ![v] = q] /\ UNCHANGED cache
    BY <1>7 DEF Reports!OpenPage
  <2>2. q \in Page /\ q.pc \notin HasRow
    BY <1>3 DEF Page, HasRow
  <2> HIDE DEF q
  <2>3. QED
    BY <1>6, <2>1, <2>2
<1>8. CASE Reports!Ask(v)
  <2> DEFINE next == IF page[v].pc = "asking" THEN "meta" ELSE "table"
             q == [page[v] EXCEPT !.pc = next, !.tries = 0]
  <2>1. UNCHANGED cache /\ page' = [page EXCEPT ![v] = q]
    <3>1. /\ UNCHANGED cache
          /\ page' = [page EXCEPT ![v].pc = IF @ = "asking" THEN "meta" ELSE "table", ![v].tries = 0]
      BY <1>8 DEF Reports!Ask
    <3>2. page' = [page EXCEPT ![v].pc = next, ![v].tries = 0]
      BY <3>1
    <3> HIDE DEF next
    <3>3. QED
      BY <1>1, <1>3, <3>1, <3>2 DEF ReportShapes, Page
  <2>2. \/ page[v].pc = "asking" /\ next = "meta"
        \/ page[v].pc = "loading" /\ next = "table"
    BY <1>8 DEF Reports!Ask
  <2> HIDE DEF next
  <2>3. q \in Page /\ q.row = page[v].row /\ q.pc = next
    BY <1>3, <2>2 DEF Page
  <2> HIDE DEF q
  <2>4. q.pc \notin HasRow \/ (q.pc # "shown" /\ page[v].pc \in HasRow)
    BY <2>2, <2>3 DEF HasRow
  <2>5. QED
    BY <1>1, <1>6, <2>1, <2>3, <2>4 DEF NewestTable
<1>9. CASE Reports!AskFails(v)
  <2>1. PICK q \in Page : page' = [page EXCEPT ![v] = q] /\ q.row = page[v].row
                          /\ (q.pc \notin HasRow \/ (q.pc # "shown" /\ page[v].pc \in HasRow))
    <3> DEFINE q == Reports!AskedInVain(v)
               last_pc == IF page[v].pc = "asking" THEN "empty" ELSE "error"
    <3>1. page[v].pc \in {"asking", "loading"} /\ page' = [page EXCEPT ![v] = q]
      BY <1>9 DEF Reports!AskFails
    <3>2. page[v].tries + 1 \in Nat /\ last_pc \in {"empty", "error"}
      BY <1>3 DEF Page
    <3>3. \/ q = [page[v] EXCEPT !.tries = page[v].tries + 1]
          \/ q = [page[v] EXCEPT !.tries = 0, !.pc = last_pc]
      BY DEF Reports!AskedInVain
    <3> HIDE DEF q, last_pc
    <3>4. q \in Page /\ q.row = page[v].row /\ q.pc \in {page[v].pc, last_pc}
      <4>1. CASE q = [page[v] EXCEPT !.tries = page[v].tries + 1]
        BY <1>3, <3>2, <4>1 DEF Page
      <4>2. CASE q = [page[v] EXCEPT !.tries = 0, !.pc = last_pc]
        BY <1>3, <3>2, <4>2 DEF Page
      <4>3. QED
        BY <3>3, <4>1, <4>2
    <3>5. QED
      BY <3>1, <3>2, <3>4 DEF HasRow
  <2>2. UNCHANGED cache
    BY <1>9 DEF Reports!AskFails
  <2>3. QED
    BY <1>1, <1>6, <2>1, <2>2 DEF NewestTable
<1>10. CASE Reports!ReadMeta(v)
  <2> DEFINE next == IF row = None THEN "none" ELSE "chosen"
             q == [page[v] EXCEPT !.row = row, !.pc = next]
  <2>1. UNCHANGED cache /\ page' = [page EXCEPT ![v] = q]
    <3>1. UNCHANGED cache /\ page' = [page EXCEPT ![v].row = row, ![v].pc = next]
      BY <1>10 DEF Reports!ReadMeta
    <3> HIDE DEF next
    <3>2. QED
      BY <1>1, <1>3, <3>1 DEF ReportShapes, Page
  <2>2. next = "none" \/ (next = "chosen" /\ row # None)
    OBVIOUS
  <2> HIDE DEF next
  <2>3. q \in Page /\ q.row = row /\ q.pc = next
    BY <1>1, <1>3, <2>2 DEF ReportShapes, Page
  <2> HIDE DEF q
  <2>4. QED
    BY <1>1, <1>6, <2>1, <2>2, <2>3 DEF NewestTable, HasRow
<1>11. CASE Reports!LoadCached(v)
  <2>1. PICK s \in Reports!Cached(v) : page' = [page EXCEPT ![v].pc = "shown", ![v].shown = cache[s]]
    BY <1>11 DEF Reports!LoadCached
  <2>2. s = page[v].row.updated_at /\ s \in DOMAIN cache /\ page[v].pc = "chosen" /\ UNCHANGED cache
    BY <1>11, <2>1 DEF Reports!LoadCached, Reports!Cached
  <2>3. page[v].row # None /\ Known(page[v].row) /\ cache[s] \in Nat
    BY <1>1, <2>2 DEF ReportShapes, NewestTable, HasRow
  <2> DEFINE q == [page[v] EXCEPT !.pc = "shown", !.shown = cache[s]]
  <2>4. page' = [page EXCEPT ![v] = q]
    BY <1>1, <1>3, <2>1 DEF ReportShapes, Page
  <2>5. q \in Page /\ q.row = page[v].row /\ q.shown = cache[s]
    BY <1>3, <2>3 DEF Page
  <2> HIDE DEF q
  <2>6. QED
    BY <1>6, <2>2, <2>3, <2>4, <2>5 DEF Known
<1>12. CASE Reports!Load(v)
  <2> DEFINE q == [page[v] EXCEPT !.pc = "loading"]
  <2>1. page' = [page EXCEPT ![v] = q] /\ UNCHANGED cache /\ page[v].pc = "chosen"
    BY <1>12 DEF Reports!Load
  <2>2. q \in Page /\ q.row = page[v].row /\ q.pc = "loading"
    BY <1>3 DEF Page
  <2> HIDE DEF q
  <2>3. QED
    BY <1>1, <1>6, <2>1, <2>2 DEF NewestTable, HasRow
<1>13. CASE Reports!ReadTable(v)
  <2>1. page[v].pc = "table" /\ page[v].row # None /\ Known(page[v].row)
    BY <1>1, <1>13 DEF Reports!ReadTable, NewestTable, HasRow
  <2>2. CASE data = 0
    <3> DEFINE q == [page[v] EXCEPT !.pc = "error"]
    <3>1. page' = [page EXCEPT ![v] = q] /\ UNCHANGED cache
      BY <1>13, <2>2 DEF Reports!ReadTable
    <3>2. q \in Page /\ q.pc \notin HasRow
      BY <1>3 DEF Page, HasRow
    <3> HIDE DEF q
    <3>3. QED
      BY <1>6, <3>1, <3>2
  <2>3. CASE data # 0
    <3> DEFINE q == [page[v] EXCEPT !.pc = "shown", !.shown = data]
    <3>1. page' = [page EXCEPT ![v].pc = "shown", ![v].shown = data]
      BY <1>13, <2>3 DEF Reports!ReadTable
    <3>2. page' = [page EXCEPT ![v] = q]
      BY <1>1, <1>3, <3>1 DEF ReportShapes, Page
    <3>3. q \in Page /\ q.row = page[v].row /\ q.shown = data
      BY <1>1, <1>3 DEF ReportShapes, Page
    <3> HIDE DEF q
    <3>4. page'[v] = q /\ page' = [page EXCEPT ![v] = page'[v]] /\ page'[v] \in Page
      BY <1>5, <3>2, <3>3
    <3>5. /\ page[v].row \in RowOf /\ page[v].row.updated_at <= stamps
          /\ data = created /\ page[v].row.of <= created
      BY <1>1, <1>3, <2>1, <2>3 DEF ReportShapes, Page, NewestTable, Known
    <3>6. cache' = [s \in DOMAIN cache \cup {page[v].row.updated_at} |->
                      IF s = page[v].row.updated_at THEN data ELSE cache[s]]
      BY <1>13, <2>3 DEF Reports!ReadTable
    <3>7. data >= q.row.of /\ q.row # None /\ Known(q.row)
      BY <1>1, <2>1, <3>3, <3>5 DEF ReportShapes, RowOf
    <3>8. QED
      BY <2>3, <3>3, <3>4, <3>5, <3>6, <3>7
  <2>4. QED
    BY <2>2, <2>3
<1>14. CASE Reports!ClosePage(v)
  <2>1. page' = [page EXCEPT ![v] = Reports!NoPage] /\ UNCHANGED cache
    BY <1>14 DEF Reports!ClosePage
  <2>2. QED
    BY <1>3, <1>6, <2>1 DEF HasRow
<1>15. QED
  BY <1>7, <1>8, <1>9, <1>10, <1>11, <1>12, <1>13, <1>14 DEF Reports!View

LEMMA StepReportsInv ==
    ASSUME ReportsInv, [Reports!Next]_reportsVars
    PROVE  ReportsInv'
<1>1. CASE UNCHANGED reportsVars
  BY <1>1 DEF reportsVars, ReportsInv, ReportShapes, NewestTable, Known, Reports!NoOlderThanItsRow, OneWriter,
              HalfDone, Settled, Reports!Inside
<1>2. CASE \E w \in Writers : Reports!Begin(w) \/ Reports!Write(w)
  BY <1>2, PublisherKeepsShapes, PublisherKeepsOneWriter DEF ReportsInv
<1>3. CASE \E v \in Viewers : Reports!OpenPage(v) \/ Reports!View(v)
  BY <1>3, PageKeepsReportsInv
<1>4. CASE Reports!Forget
  <2>1. UNCHANGED <<data, row, created, stamps, publisher, page, disturbed>> /\ cache' = [s \in {} |-> 0]
    BY <1>4 DEF Reports!Forget, Reports!stored
  <2>2. DOMAIN cache' = {} /\ cache' \in [DOMAIN cache' -> Nat]
    BY <2>1
  <2>3. ReportShapes' /\ Reports!NoOlderThanItsRow'
    BY <2>1, <2>2 DEF ReportsInv, ReportShapes, Reports!NoOlderThanItsRow
  <2>4. NewestTable' /\ OneWriter'
    BY <2>1, <2>2 DEF ReportsInv, NewestTable, HasRow, Known, OneWriter, HalfDone, Settled, Reports!Inside
  <2>5. QED
    BY <2>3, <2>4 DEF ReportsInv
<1>5. CASE Reports!Rest
  BY <1>1, <1>5 DEF Reports!Rest, Reports!vars, Reports!stored, reportsVars
<1>6. QED
  BY <1>1, <1>2, <1>3, <1>4, <1>5 DEF Reports!Next

LEMMA ReportsInvTells == ReportsInv => PagesTellReports
  BY DEF ReportsInv, OneWriter, Settled, PagesTellReports, Reports!ListedIfStored, Reports!Inside

-----------------------------------------------------------------------------
(* FastWrite: a table of a target database. *)

\* The first n chunks of a call.
Sent(c, n) == {c} \X (1..n)

RowSets == SUBSET (Nat \X Nat)
Tables  == [definition : {"own", "frame"}, rows : RowSets]
Effect  == [fresh : BOOLEAN, emptied : BOOLEAN, rows : RowSets]
Call    == [pc : {"idle", "open", "look", "create", "empty", "make", "load"}, call : Nat,
            mode : {"append", "replace"}, recreate : BOOLEAN, sees : BOOLEAN,
            lock : {"none", "shared", "exclusive"}, effect : Effect,
            sent : Nat, snapshot : Nat, alone : BOOLEAN, behind : RowSets]

LoadShapes ==
    /\ dialect \in Load!AllDialects /\ table \in Tables \cup {None}
    /\ version \in Nat /\ calls \in Nat /\ late \in RowSets
    /\ loader \in [Writers -> Call]
    /\ \A w \in Writers : loader[w].pc # "load" => loader[w].sent = 0

\* A call that began alone is still alone, and so is the last that ended if it was; meanwhile no
\* more chunks are under way than when it began.
AloneIsAlone ==
    /\ ~Load!Chunked => late = {}
    /\ \A w \in Writers : loader[w].pc # "idle" /\ loader[w].alone =>
          /\ \A v \in Writers \ {w} : loader[v].pc = "idle"
          /\ late \subseteq loader[w].behind
    /\ last # None /\ last.alone =>
          /\ \A v \in Writers : loader[v].pc = "idle"
          /\ last.how = "returned" => late \subseteq last.behind

Whole(rows) == \A c \in Nat : \A i, j \in 1..Chunks : <<c, i>> \in rows => <<c, j>> \in rows

WholeFrames == ~Load!Chunked /\ table # None => Whole(table.rows)

\* PostgreSQL: what the transaction of a call has done so far.
InTransaction(r) ==
    /\ r.effect.rows = Sent(r.call, r.sent)
    /\ r.sent > 0 => r.lock # "none"
    /\ r.lock = "shared" => table # None
    /\ r.effect.fresh \/ r.effect.emptied => r.lock = "exclusive"
    /\ r.sees => ~r.effect.fresh
    /\ r.effect.emptied => r.mode = "replace"
    /\ r.effect.fresh /\ ~r.recreate => table = None
    /\ r.pc \in {"idle", "open"} => ~r.effect.fresh
    /\ r.pc \in {"idle", "open", "look", "create"} => ~r.sees /\ ~r.effect.emptied
    /\ r.pc = "empty" => r.sees /\ r.mode = "replace" /\ table # None
    /\ r.pc = "load" => \/ r.effect.fresh
                        \/ r.sees /\ table # None /\ (r.mode = "replace" => r.effect.emptied)

Locks == \A w, v \in Writers : w # v /\ loader[w].lock = "exclusive" => loader[v].lock = "none"

PostgresInv == dialect = "postgresql" => Locks /\ \A w \in Writers : InTransaction(loader[w])

IcebergInv == dialect = "iceberg" => \A w \in Writers : loader[w].pc = "load" => table # None

\* What is in a table is what a call has sent so far, and otherwise only what is in "others".
HoldsOnly(t, call, sent, others) ==
    t # None /\ Sent(call, sent) \subseteq t.rows /\ t.rows \ Sent(call, sent) \subseteq others

\* A call that loads, or has made the table that it will load.
Filling(r) == r.pc = "load" \/ (r.pc = "empty" /\ ~r.sees)

\* The others: when a replacing call that is alone loads, the table holds what it sent, and chunks
\* that were under way when it began.
StepwiseInv ==
    Load!Stepwise =>
        \A w \in Writers :
            /\ ~Load!Chunked => loader[w].sent = 0
            /\ Filling(loader[w]) /\ Load!Replaces(w) /\ loader[w].alone
               => HoldsOnly(table, loader[w].call, loader[w].sent, loader[w].behind)

LoadInv ==
    /\ LoadShapes /\ AloneIsAlone /\ WholeFrames /\ PostgresInv /\ IcebergInv /\ StepwiseInv
    /\ Load!InTurn /\ Load!ReplaceRepeats

LEMMA ChunksSent ==
    ASSUME NEW c \in Nat
    PROVE  /\ Sent(c, 0) = {}
           /\ \A n \in Nat : Sent(c, n) \in RowSets /\ Sent(c, n) \cup {<<c, n + 1>>} = Sent(c, n + 1)
<1>1. Sent(c, 0) = {}
  BY DEF Sent
<1>2. ASSUME NEW n \in Nat PROVE Sent(c, n) \in RowSets
  BY DEF Sent, RowSets
<1>3. ASSUME NEW n \in Nat PROVE Sent(c, n) \cup {<<c, n + 1>>} = Sent(c, n + 1)
  <2>1. 1..(n + 1) = (1..n) \cup {n + 1}
    OBVIOUS
  <2>2. QED
    BY <2>1 DEF Sent
<1>4. QED
  BY <1>1, <1>2, <1>3

LEMMA WholeSets ==
    /\ Whole({})
    /\ \A c : Whole(Load!Frame(c))
    /\ \A A, B : Whole(A) /\ Whole(B) => Whole(A \cup B)
  BY DEF Whole, Load!Frame

\* The rows of the calls in S.
Rows(S) == UNION {Load!Frame(c) : c \in S}

LEMMA RowsOfMore == \A S, c : Rows({c} \cup S) = Load!Frame(c) \cup Rows(S) /\ Rows({c}) = Load!Frame(c)
  BY DEF Rows

LEMMA IdleInTransaction == InTransaction(Load!Idle) /\ InTransaction(Load!Idle)'
<1>1. Sent(0, 0) = {}
  BY ChunksSent
<1>2. /\ Load!Idle.call = 0 /\ Load!Idle.sent = 0 /\ Load!Idle.effect = Load!Nothing /\ Load!Idle.pc = "idle"
      /\ Load!Idle.sees = FALSE /\ Load!Idle.lock = "none"
  BY DEF Load!Idle
<1>3. Load!Nothing.rows = {} /\ Load!Nothing.fresh = FALSE /\ Load!Nothing.emptied = FALSE
  BY DEF Load!Nothing
<1>4. QED
  BY <1>1, <1>2, <1>3 DEF InTransaction

LEMMA InitLoadInv == ASSUME Load!Init PROVE LoadInv
<1>1. /\ dialect \in Load!AllDialects /\ table \in {None, [definition |-> "own", rows |-> {}]}
      /\ version = 0 /\ late = {} /\ timeouts = 0 /\ calls = 0
      /\ loader = [w \in Writers |-> Load!Idle] /\ owed = {} /\ last = None
  BY StoresAssumption DEF Load!Init, StoresAssumption, Load!FastWriteAssumption
<1>2. {} \in RowSets
  BY DEF RowSets
<1>3. Load!Idle \in Call /\ Load!Idle.sent = 0 /\ Load!Idle.pc = "idle" /\ Load!Idle.lock = "none"
  BY <1>2 DEF Load!Idle, Load!Nothing, Call, Effect
<1>4. table \in Tables \cup {None} /\ (table # None => table.rows = {})
  BY <1>1, <1>2 DEF Tables
<1>5. \A w \in Writers : loader[w] = Load!Idle
  BY <1>1
<1>6. InTransaction(Load!Idle)
  BY IdleInTransaction
<1>7. LoadShapes
  BY <1>1, <1>2, <1>3, <1>4 DEF LoadShapes
<1>8. AloneIsAlone
  BY <1>1, <1>3, <1>5 DEF AloneIsAlone
<1>9. WholeFrames
  BY <1>4, WholeSets DEF WholeFrames
<1>10. PostgresInv
  BY <1>3, <1>5, <1>6 DEF PostgresInv, Locks
<1>11. IcebergInv /\ StepwiseInv
  BY <1>3, <1>5 DEF IcebergInv, StepwiseInv, Filling
<1>12. Load!InTurn
  BY <1>1, <1>4 DEF Load!InTurn
<1>13. Load!ReplaceRepeats
  BY <1>1 DEF Load!ReplaceRepeats
<1>14. QED
  BY <1>7, <1>8, <1>9, <1>10, <1>11, <1>12, <1>13 DEF LoadInv

\* A call that is begun: nothing of it is in the table, and those under way are alone no longer.
LEMMA BeginKeepsLoadInv ==
    ASSUME LoadInv, NEW w \in Writers, Load!Begin(w)
    PROVE  LoadInv'
<1>1. /\ LoadShapes /\ AloneIsAlone /\ WholeFrames /\ PostgresInv /\ IcebergInv /\ StepwiseInv
      /\ Load!InTurn /\ Load!ReplaceRepeats
  BY DEF LoadInv
<1>2. /\ loader[w].pc = "idle" /\ calls' = calls + 1 /\ last' = None
      /\ UNCHANGED <<dialect, table, version, late, owed>>
  BY DEF Load!Begin, Load!At
<1> DEFINE alone == Load!Inside = {}
           no == FALSE
<1>3. PICK mode \in {"append", "replace"}, recreate \in BOOLEAN :
         loader' = [v \in Writers |->
              IF v = w THEN [Load!Idle EXCEPT !.pc = "open", !.call = calls', !.mode = mode,
                                 !.recreate = recreate, !.alone = alone, !.behind = late]
              ELSE [loader[v] EXCEPT !.alone = no]]
  BY DEF Load!Begin
<1> DEFINE b == [Load!Idle EXCEPT !.pc = "open", !.call = calls', !.mode = mode,
                                 !.recreate = recreate, !.alone = alone, !.behind = late]
<1>4. no = FALSE /\ no \in BOOLEAN /\ alone \in BOOLEAN /\ late \in RowSets /\ calls' \in Nat
  BY <1>1, <1>2 DEF LoadShapes
<1>5. Load!Idle \in Call /\ Load!Idle.sent = 0 /\ Load!Idle.lock = "none" /\ Load!Idle.effect = Load!Nothing
      /\ Load!Idle.sees = FALSE
  BY DEF Load!Idle, Load!Nothing, Call, Effect, RowSets
<1>6. alone => \A v \in Writers : loader[v].pc = "idle"
  BY DEF Load!Inside
<1> HIDE DEF alone, no
<1>8. b \in Call /\ b.pc = "open" /\ b.sent = 0 /\ b.lock = "none" /\ b.effect = Load!Nothing
      /\ b.sees = FALSE /\ b.call = calls' /\ b.alone = alone /\ b.behind = late
  BY <1>4, <1>5 DEF Call
<1>9. loader'[w] = b /\ \A v \in Writers \ {w} : loader'[v] = [loader[v] EXCEPT !.alone = no]
  BY <1>3
<1>10. loader' = [v \in Writers |-> loader'[v]]
  BY <1>3
<1> HIDE DEF b
<1>11. \A v \in Writers \ {w} :
         /\ loader'[v] \in Call /\ loader'[v].alone = no
         /\ loader'[v].pc = loader[v].pc /\ loader'[v].sent = loader[v].sent /\ loader'[v].lock = loader[v].lock
         /\ loader'[v].effect = loader[v].effect /\ loader'[v].call = loader[v].call
         /\ loader'[v].sees = loader[v].sees /\ loader'[v].mode = loader[v].mode
         /\ loader'[v].recreate = loader[v].recreate
  <2> DEFINE Joined(r) == [r EXCEPT !.alone = no]
  <2>1. \A r \in Call :
          /\ Joined(r) \in Call /\ Joined(r).alone = no
          /\ Joined(r).pc = r.pc /\ Joined(r).sent = r.sent /\ Joined(r).lock = r.lock
          /\ Joined(r).effect = r.effect /\ Joined(r).call = r.call /\ Joined(r).sees = r.sees
          /\ Joined(r).mode = r.mode /\ Joined(r).recreate = r.recreate
    BY <1>4 DEF Call
  <2>2. \A v \in Writers \ {w} : loader[v] \in Call /\ loader'[v] = Joined(loader[v])
    BY <1>1, <1>9 DEF LoadShapes
  <2> HIDE DEF Joined
  <2>3. QED
    BY <2>1, <2>2
<1>12. LoadShapes'
  <2>1. loader' \in [Writers -> Call]
    BY <1>8, <1>9, <1>10, <1>11
  <2>2. QED
    BY <1>1, <1>2, <1>4, <1>8, <1>9, <1>11, <2>1 DEF LoadShapes
<1>13. AloneIsAlone'
  <2>1. alone => \A v \in Writers \ {w} : loader'[v].pc = "idle"
    BY <1>6, <1>11
  <2>2. QED
    BY <1>1, <1>2, <1>4, <1>8, <1>9, <1>11, <2>1 DEF AloneIsAlone, Load!Chunked
<1>14. WholeFrames' /\ Load!InTurn'
  BY <1>1, <1>2 DEF WholeFrames, Load!InTurn, Load!Chunked
<1>15. PostgresInv'
  <2>1. SUFFICES ASSUME dialect = "postgresql" PROVE Locks' /\ \A v \in Writers : InTransaction(loader[v])'
    BY <1>2 DEF PostgresInv
  <2>2. Locks'
    BY <1>1, <1>8, <1>9, <1>11, <2>1 DEF PostgresInv, Locks
  <2>3. InTransaction(loader[w])'
    <3>1. Sent(calls', 0) = {}
      BY <1>4, ChunksSent
    <3>2. Load!Nothing.rows = {} /\ Load!Nothing.fresh = FALSE /\ Load!Nothing.emptied = FALSE
      BY DEF Load!Nothing
    <3>3. QED
      BY <1>8, <1>9, <3>1, <3>2 DEF InTransaction
  <2>4. ASSUME NEW v \in Writers \ {w} PROVE InTransaction(loader[v])'
    BY <1>1, <1>2, <1>11, <2>1, <2>4 DEF PostgresInv, InTransaction
  <2>5. QED
    BY <2>2, <2>3, <2>4
<1>16. IcebergInv' /\ StepwiseInv'
  BY <1>1, <1>2, <1>4, <1>8, <1>9, <1>11 DEF IcebergInv, StepwiseInv, Filling, Load!Stepwise, Load!Chunked
<1>17. Load!ReplaceRepeats'
  BY <1>2 DEF Load!ReplaceRepeats
<1>18. QED
  BY <1>12, <1>13, <1>14, <1>15, <1>16, <1>17 DEF LoadInv

\* What holds of every target when a call goes on.
LEMMA MoveKeeps ==
    ASSUME LoadInv, NEW w \in Writers, NEW q \in Call,
           loader[w].pc # "idle", loader' = [loader EXCEPT ![w] = q], q.pc # "idle",
           q.alone = loader[w].alone, q.behind = loader[w].behind, q.pc # "load" => q.sent = 0,
           table' \in Tables \cup {None}, UNCHANGED <<dialect, version, late, calls, owed, last>>
    PROVE  /\ LoadShapes' /\ AloneIsAlone' /\ Load!ReplaceRepeats'
           /\ loader'[w] = q /\ \A v \in Writers \ {w} : loader'[v] = loader[v]
           /\ \A v \in Writers \ {w} : ~(loader[v].pc # "idle" /\ loader[v].alone)
<1>1. LoadShapes /\ AloneIsAlone
  BY DEF LoadInv
<1>2. /\ loader'[w] = q /\ \A v \in Writers \ {w} : loader'[v] = loader[v]
      /\ loader' \in [Writers -> Call]
  BY <1>1 DEF LoadShapes
<1>3. LoadShapes'
  BY <1>1, <1>2 DEF LoadShapes
<1>4. \A v \in Writers \ {w} : ~(loader[v].pc # "idle" /\ loader[v].alone)
  BY <1>1 DEF AloneIsAlone
<1>5. ~(last # None /\ last.alone)
  BY <1>1 DEF AloneIsAlone
<1>6. AloneIsAlone'
  BY <1>1, <1>2, <1>4, <1>5 DEF AloneIsAlone, Load!Chunked
<1>7. Load!ReplaceRepeats'
  BY <1>5 DEF Load!ReplaceRepeats
<1>8. QED
  BY <1>2, <1>3, <1>4, <1>6, <1>7

\* What holds of every target when a call ends.
LEMMA EndKeeps ==
    ASSUME LoadInv, NEW w \in Writers, NEW how,
           loader[w].pc # "idle", Load!Ends(w, how),
           table' \in Tables \cup {None}, version' \in Nat, UNCHANGED <<dialect, calls>>,
           late' = late \/ (late' \in RowSets /\ Load!Chunked /\ how # "returned"),
           how = "returned" /\ Load!Replaces(w) /\ loader[w].alone
              => HoldsOnly(table', loader[w].call, Chunks, loader[w].behind)
    PROVE  /\ LoadShapes' /\ AloneIsAlone' /\ Load!ReplaceRepeats'
           /\ loader'[w] = Load!Idle /\ \A v \in Writers \ {w} : loader'[v] = loader[v]
           /\ \A v \in Writers \ {w} : ~(loader[v].pc # "idle" /\ loader[v].alone)
<1>1. LoadShapes /\ AloneIsAlone
  BY DEF LoadInv
<1>2. Load!Idle \in Call /\ Load!Idle.pc = "idle" /\ Load!Idle.sent = 0
  BY DEF Load!Idle, Load!Nothing, Call, Effect, RowSets
<1>3. loader' = [loader EXCEPT ![w] = Load!Idle]
  BY DEF Load!Ends, Load!Goes
<1> DEFINE replaces == Load!Replaces(w)
<1>4. /\ last'.call = loader[w].call /\ last'.replaces = replaces /\ last'.alone = loader[w].alone
      /\ last'.behind = loader[w].behind /\ last'.how = how
  <2>1. last' = [call |-> loader[w].call, replaces |-> replaces, alone |-> loader[w].alone,
                 behind |-> loader[w].behind, how |-> how]
    BY DEF Load!Ends
  <2> HIDE DEF replaces
  <2>2. QED
    BY <2>1
<1>5. /\ loader'[w] = Load!Idle /\ \A v \in Writers \ {w} : loader'[v] = loader[v]
      /\ loader' \in [Writers -> Call]
  BY <1>1, <1>2, <1>3 DEF LoadShapes
<1>6. LoadShapes'
  <2>1. late' \in RowSets
    BY <1>1 DEF LoadShapes
  <2>2. QED
    BY <1>1, <1>2, <1>5, <2>1 DEF LoadShapes
<1>7. \A v \in Writers \ {w} : ~(loader[v].pc # "idle" /\ loader[v].alone)
  BY <1>1 DEF AloneIsAlone
<1>8. AloneIsAlone'
  <2>1. ~Load!Chunked' => late' = {}
    BY <1>1 DEF AloneIsAlone, Load!Chunked
  <2>2. \A v \in Writers : ~(loader'[v].pc # "idle" /\ loader'[v].alone)
    BY <1>2, <1>5, <1>7
  <2>3. last'.alone => \A v \in Writers : loader'[v].pc = "idle"
    BY <1>1, <1>2, <1>4, <1>5 DEF AloneIsAlone
  <2>4. last'.alone /\ last'.how = "returned" => late' \subseteq last'.behind
    BY <1>1, <1>4 DEF AloneIsAlone
  <2>5. QED
    BY <2>1, <2>2, <2>3, <2>4 DEF AloneIsAlone
<1>9. Load!ReplaceRepeats'
  <2>1. SUFFICES ASSUME last'.how = "returned", last'.replaces, last'.alone
                 PROVE  HoldsOnly(table', last'.call, Chunks, last'.behind)
    BY DEF Load!ReplaceRepeats, Load!Frame, HoldsOnly, Sent
  <2>2. how = "returned" /\ replaces /\ loader[w].alone
    BY <1>4, <2>1
  <2>3. QED
    BY <1>4, <2>2
<1>10. QED
  BY <1>5, <1>6, <1>7, <1>8, <1>9

\* A call that is refused or breaks leaves the table as it is, and gives up its locks.
LEMMA UnreturnedKeepsLoadInv ==
    ASSUME LoadInv, NEW w \in Writers, NEW how,
           loader[w].pc # "idle", Load!Ends(w, how), how # "returned",
           UNCHANGED <<dialect, table, version, calls, owed>>,
           late' = late \/ (late' \in RowSets /\ Load!Chunked)
    PROVE  LoadInv'
<1>1. /\ LoadShapes /\ WholeFrames /\ PostgresInv /\ IcebergInv /\ StepwiseInv /\ Load!InTurn
  BY DEF LoadInv
<1>2. table' \in Tables \cup {None} /\ version' \in Nat /\ last'.how = how
  BY <1>1 DEF LoadShapes, Load!Ends
<1>3. /\ LoadShapes' /\ AloneIsAlone' /\ Load!ReplaceRepeats'
      /\ loader'[w] = Load!Idle /\ \A v \in Writers \ {w} : loader'[v] = loader[v]
      /\ \A v \in Writers \ {w} : ~(loader[v].pc # "idle" /\ loader[v].alone)
  BY <1>2, EndKeeps
<1>4. Load!Idle.pc = "idle" /\ Load!Idle.lock = "none" /\ Load!Idle.sent = 0
  BY DEF Load!Idle
<1>5. WholeFrames' /\ Load!InTurn'
  BY <1>1, <1>2 DEF WholeFrames, Load!InTurn, Load!Chunked
<1>6. PostgresInv'
  <2>1. SUFFICES ASSUME dialect = "postgresql" PROVE Locks' /\ \A v \in Writers : InTransaction(loader[v])'
    BY DEF PostgresInv
  <2>2. Locks'
    BY <1>1, <1>3, <1>4, <2>1 DEF PostgresInv, Locks
  <2>3. InTransaction(loader[w])'
    BY <1>3, IdleInTransaction DEF InTransaction
  <2>4. ASSUME NEW v \in Writers \ {w} PROVE InTransaction(loader[v])'
    BY <1>1, <1>3, <2>1, <2>4 DEF PostgresInv, InTransaction
  <2>5. QED
    BY <2>2, <2>3, <2>4
<1>7. IcebergInv'
  BY <1>1, <1>3, <1>4 DEF IcebergInv
<1>8. StepwiseInv'
  BY <1>1, <1>3, <1>4 DEF StepwiseInv, HoldsOnly, Filling, Load!Stepwise, Load!Chunked, Load!Replaces
<1>9. QED
  BY <1>3, <1>5, <1>6, <1>7, <1>8 DEF LoadInv

LEMMA BreakKeepsLoadInv ==
    ASSUME LoadInv, NEW w \in Writers, Load!Break(w) \/ (loader[w].pc # "idle" /\ Load!Refused(w))
    PROVE  LoadInv'
  BY UnreturnedKeepsLoadInv DEF Load!Break, Load!Refused, Load!At

-----------------------------------------------------------------------------
(* PostgreSQL. *)

\* The lock that a transaction has nobody's excludes.
LEMMA LocksExclude ==
    ASSUME LoadInv, dialect = "postgresql", NEW w \in Writers
    PROVE  /\ loader[w].lock = "exclusive" => Load!Exclusive(w)
           /\ loader[w].lock = "shared" => Load!Shared(w)
  BY DEF LoadInv, PostgresInv, Locks, Load!Exclusive, Load!Shared

\* A call whose transaction goes on, with a lock that nobody's excludes.
LEMMA TransactionGoesOn ==
    ASSUME LoadInv, NEW w \in Writers, NEW q \in Call, dialect = "postgresql",
           loader[w].pc # "idle", loader' = [loader EXCEPT ![w] = q], q.pc # "idle",
           q.alone = loader[w].alone, q.behind = loader[w].behind, q.pc # "load" => q.sent = 0,
           UNCHANGED <<dialect, table, version, late, calls, owed, last>>,
           InTransaction(q),
           q.lock = "exclusive" => Load!Exclusive(w), q.lock = "shared" => Load!Shared(w)
    PROVE  LoadInv'
<1>1. /\ LoadShapes /\ WholeFrames /\ PostgresInv /\ Load!InTurn
  BY DEF LoadInv
<1>2. /\ LoadShapes' /\ AloneIsAlone' /\ Load!ReplaceRepeats'
      /\ loader'[w] = q /\ \A v \in Writers \ {w} : loader'[v] = loader[v]
  <2>1. table' \in Tables \cup {None}
    BY <1>1 DEF LoadShapes
  <2>2. QED
    BY <2>1, MoveKeeps
<1>3. WholeFrames' /\ Load!InTurn'
  BY <1>1 DEF WholeFrames, Load!InTurn, Load!Chunked
<1>4. Locks'
  BY <1>1, <1>2 DEF PostgresInv, Locks, Load!Exclusive, Load!Shared, LoadShapes, Call
<1>5. \A v \in Writers : InTransaction(loader[v])'
  <2>1. InTransaction(loader[w])'
    BY <1>2 DEF InTransaction
  <2>2. ASSUME NEW v \in Writers \ {w} PROVE InTransaction(loader[v])'
    BY <1>1, <1>2, <2>2 DEF PostgresInv, InTransaction
  <2>3. QED
    BY <2>1, <2>2
<1>6. PostgresInv' /\ IcebergInv' /\ StepwiseInv'
  BY <1>4, <1>5 DEF PostgresInv, IcebergInv, StepwiseInv, Load!Stepwise
<1>7. QED
  BY <1>2, <1>3, <1>6 DEF LoadInv

\* DROP, CREATE and TRUNCATE: the lock is taken, and the table dropped, created or emptied for all
\* the transaction sees.
LEMMA Altered ==
    ASSUME NEW r \in Call, NEW pc \in {"look", "load"}
    PROVE  LET q == [[r EXCEPT !.lock = "exclusive"] EXCEPT !.pc = pc, !.effect.fresh = TRUE]
               p == [[r EXCEPT !.lock = "exclusive"] EXCEPT !.pc = pc, !.effect.emptied = TRUE]
           IN  /\ q \in Call /\ q.pc = pc /\ q.lock = "exclusive"
               /\ q.effect.fresh = TRUE /\ q.effect.emptied = r.effect.emptied /\ q.effect.rows = r.effect.rows
               /\ q.call = r.call /\ q.mode = r.mode /\ q.recreate = r.recreate /\ q.sees = r.sees
               /\ q.sent = r.sent /\ q.alone = r.alone /\ q.behind = r.behind
               /\ p \in Call /\ p.pc = pc /\ p.lock = "exclusive"
               /\ p.effect.fresh = r.effect.fresh /\ p.effect.emptied = TRUE /\ p.effect.rows = r.effect.rows
               /\ p.call = r.call /\ p.mode = r.mode /\ p.recreate = r.recreate /\ p.sees = r.sees
               /\ p.sent = r.sent /\ p.alone = r.alone /\ p.behind = r.behind
<1> DEFINE yes == TRUE
           a == [r EXCEPT !.lock = "exclusive"]
           b == [a EXCEPT !.pc = pc]
           e == [b.effect EXCEPT !.fresh = yes]
           d == [b.effect EXCEPT !.emptied = yes]
           q == [b EXCEPT !.effect = e]
           p == [b EXCEPT !.effect = d]
<1>1. yes \in BOOLEAN /\ yes = TRUE
  OBVIOUS
<1>2. SUFFICES
           /\ q \in Call /\ q.pc = pc /\ q.lock = "exclusive"
               /\ q.effect.fresh = yes /\ q.effect.emptied = r.effect.emptied /\ q.effect.rows = r.effect.rows
               /\ q.call = r.call /\ q.mode = r.mode /\ q.recreate = r.recreate /\ q.sees = r.sees
               /\ q.sent = r.sent /\ q.alone = r.alone /\ q.behind = r.behind
               /\ p \in Call /\ p.pc = pc /\ p.lock = "exclusive"
               /\ p.effect.fresh = r.effect.fresh /\ p.effect.emptied = yes /\ p.effect.rows = r.effect.rows
               /\ p.call = r.call /\ p.mode = r.mode /\ p.recreate = r.recreate /\ p.sees = r.sees
               /\ p.sent = r.sent /\ p.alone = r.alone /\ p.behind = r.behind
  BY Zenon
<1> HIDE DEF yes
<1>3. b \in Call /\ b.pc = pc /\ b.lock = "exclusive" /\ b.effect = r.effect /\ r.effect \in Effect
      /\ b.call = r.call /\ b.mode = r.mode /\ b.recreate = r.recreate /\ b.sees = r.sees
      /\ b.sent = r.sent /\ b.alone = r.alone /\ b.behind = r.behind
  BY DEF Call
<1> HIDE DEF b
<1>4. /\ e \in Effect /\ e.fresh = yes /\ e.emptied = r.effect.emptied /\ e.rows = r.effect.rows
      /\ d \in Effect /\ d.fresh = r.effect.fresh /\ d.emptied = yes /\ d.rows = r.effect.rows
  BY <1>1, <1>3 DEF Effect
<1> HIDE DEF d, e
<1>5. q \in Call /\ q.pc = pc /\ q.lock = "exclusive" /\ q.effect = e
      /\ q.call = r.call /\ q.mode = r.mode /\ q.recreate = r.recreate /\ q.sees = r.sees
      /\ q.sent = r.sent /\ q.alone = r.alone /\ q.behind = r.behind
  BY <1>3, <1>4 DEF Call
<1>6. p \in Call /\ p.pc = pc /\ p.lock = "exclusive" /\ p.effect = d
      /\ p.call = r.call /\ p.mode = r.mode /\ p.recreate = r.recreate /\ p.sees = r.sees
      /\ p.sent = r.sent /\ p.alone = r.alone /\ p.behind = r.behind
  BY <1>3, <1>4 DEF Call
<1> HIDE DEF p, q
<1>7. QED
  BY <1>4, <1>5, <1>6

LEMMA PgDropKeepsLoadInv ==
    ASSUME LoadInv, NEW w \in Writers, Load!PgDrop(w)
    PROVE  LoadInv'
<1>1. /\ loader[w] \in Call /\ loader[w].sent = 0 /\ InTransaction(loader[w])
      /\ dialect = "postgresql" /\ loader[w].pc = "open"
      /\ UNCHANGED <<dialect, table, version, late, calls, owed, last>>
  BY DEF LoadInv, LoadShapes, PostgresInv, Load!PgDrop, Load!At, Load!Locals
<1>2. CASE loader[w].recreate /\ table # None
  <2> DEFINE q == [[loader[w] EXCEPT !.lock = "exclusive"] EXCEPT !.pc = "look", !.effect.fresh = TRUE]
  <2>1. loader' = [loader EXCEPT ![w] = q] /\ Load!Exclusive(w)
    BY <1>2 DEF Load!PgDrop, Load!Goes, Load!Locked
  <2>2. /\ q \in Call /\ q.pc = "look" /\ q.lock = "exclusive"
        /\ q.effect.fresh = TRUE /\ q.effect.emptied = loader[w].effect.emptied
        /\ q.effect.rows = loader[w].effect.rows
        /\ q.call = loader[w].call /\ q.mode = loader[w].mode /\ q.recreate = loader[w].recreate
        /\ q.sees = loader[w].sees /\ q.sent = loader[w].sent
        /\ q.alone = loader[w].alone /\ q.behind = loader[w].behind
    BY <1>1, Altered
  <2> HIDE DEF q
  <2>3. InTransaction(q)
    BY <1>1, <1>2, <2>2 DEF InTransaction
  <2>4. QED
    BY <1>1, <2>1, <2>2, <2>3, TransactionGoesOn
<1>3. CASE ~(loader[w].recreate /\ table # None)
  <2> DEFINE q == [loader[w] EXCEPT !.pc = "look"]
  <2>1. loader' = [loader EXCEPT ![w] = q]
    BY <1>3 DEF Load!PgDrop, Load!Goes
  <2>2. /\ q \in Call /\ q.pc = "look" /\ q.lock = loader[w].lock /\ q.effect = loader[w].effect
        /\ q.call = loader[w].call /\ q.mode = loader[w].mode /\ q.recreate = loader[w].recreate
        /\ q.sees = loader[w].sees /\ q.sent = loader[w].sent
        /\ q.alone = loader[w].alone /\ q.behind = loader[w].behind
    BY <1>1 DEF Call
  <2> HIDE DEF q
  <2>3. InTransaction(q)
    BY <1>1, <2>2 DEF InTransaction
  <2>4. (q.lock = "exclusive" => Load!Exclusive(w)) /\ (q.lock = "shared" => Load!Shared(w))
    BY <1>1, <2>2, LocksExclude
  <2>5. QED
    BY <1>1, <2>1, <2>2, <2>3, <2>4, TransactionGoesOn
<1>4. QED
  BY <1>2, <1>3

LEMMA PgLookKeepsLoadInv ==
    ASSUME LoadInv, NEW w \in Writers, Load!PgLook(w)
    PROVE  LoadInv'
<1>1. /\ loader[w] \in Call /\ loader[w].sent = 0 /\ InTransaction(loader[w])
      /\ dialect = "postgresql" /\ loader[w].pc = "look"
      /\ UNCHANGED <<dialect, table, version, late, calls, owed, last>>
  BY DEF LoadInv, LoadShapes, PostgresInv, Load!PgLook, Load!At, Load!Locals
<1> DEFINE sees == table # None /\ ~loader[w].effect.fresh /\ ~Elsewhere
           next == IF ~sees THEN "create" ELSE IF loader[w].mode = "replace" THEN "empty" ELSE "load"
           q == [loader[w] EXCEPT !.sees = sees, !.pc = next]
<1>2. loader' = [loader EXCEPT ![w] = q]
  BY DEF Load!PgLook, Load!Goes
<1>3. /\ sees \in BOOLEAN
      /\ sees => table # None /\ ~loader[w].effect.fresh
      /\ next \in {"create", "empty", "load"}
      /\ next = "create" => ~sees
      /\ next = "empty" => sees /\ loader[w].mode = "replace"
      /\ next = "load" => sees /\ loader[w].mode # "replace"
  OBVIOUS
<1> HIDE DEF sees, next
<1>4. /\ q \in Call /\ q.pc = next /\ q.lock = loader[w].lock /\ q.effect = loader[w].effect
      /\ q.call = loader[w].call /\ q.mode = loader[w].mode /\ q.recreate = loader[w].recreate
      /\ q.sees = sees /\ q.sent = loader[w].sent
      /\ q.alone = loader[w].alone /\ q.behind = loader[w].behind
  BY <1>1, <1>3 DEF Call
<1> HIDE DEF q
<1>5. InTransaction(q)
  BY <1>1, <1>3, <1>4 DEF InTransaction
<1>6. (q.lock = "exclusive" => Load!Exclusive(w)) /\ (q.lock = "shared" => Load!Shared(w))
  BY <1>1, <1>4, LocksExclude
<1>7. q.pc # "idle"
  BY <1>3, <1>4
<1>8. QED
  BY <1>1, <1>2, <1>4, <1>5, <1>6, <1>7, TransactionGoesOn

LEMMA PgCreateKeepsLoadInv ==
    ASSUME LoadInv, NEW w \in Writers, Load!PgCreate(w)
    PROVE  LoadInv'
<1>1. /\ loader[w] \in Call /\ loader[w].sent = 0 /\ InTransaction(loader[w])
      /\ dialect = "postgresql" /\ loader[w].pc = "create" /\ Load!Shared(w)
  BY DEF LoadInv, LoadShapes, PostgresInv, Load!PgCreate, Load!At
<1>2. CASE table # None /\ ~loader[w].effect.fresh
  BY <1>1, <1>2, BreakKeepsLoadInv DEF Load!PgCreate
<1>3. CASE table = None \/ loader[w].effect.fresh
  <2> DEFINE q == [[loader[w] EXCEPT !.lock = "exclusive"] EXCEPT !.pc = "load", !.effect.fresh = TRUE]
  <2>1. loader' = [loader EXCEPT ![w] = q] /\ UNCHANGED <<dialect, table, version, late, calls, owed, last>>
    BY <1>3 DEF Load!PgCreate, Load!Goes, Load!Locked, Load!Locals
  <2>2. /\ q \in Call /\ q.pc = "load" /\ q.lock = "exclusive"
        /\ q.effect.fresh = TRUE /\ q.effect.emptied = loader[w].effect.emptied
        /\ q.effect.rows = loader[w].effect.rows
        /\ q.call = loader[w].call /\ q.mode = loader[w].mode /\ q.recreate = loader[w].recreate
        /\ q.sees = loader[w].sees /\ q.sent = loader[w].sent
        /\ q.alone = loader[w].alone /\ q.behind = loader[w].behind
    BY <1>1, Altered
  <2> HIDE DEF q
  <2>3. InTransaction(q)
    BY <1>1, <1>3, <2>2 DEF InTransaction
  <2>4. Load!Exclusive(w)
    <3>1. CASE loader[w].effect.fresh
      BY <1>1, <3>1, LocksExclude DEF InTransaction
    <3>2. CASE table = None
      <4>1. \A v \in Writers : InTransaction(loader[v]) /\ loader[v] \in Call
        BY <1>1 DEF LoadInv, PostgresInv, LoadShapes
      <4>2. QED
        BY <1>1, <3>2, <4>1 DEF Load!Exclusive, Load!Shared, InTransaction, Call
    <3>3. QED
      BY <1>3, <3>1, <3>2
  <2>5. QED
    BY <1>1, <2>1, <2>2, <2>3, <2>4, TransactionGoesOn
<1>4. QED
  BY <1>2, <1>3

LEMMA PgEmptyKeepsLoadInv ==
    ASSUME LoadInv, NEW w \in Writers, Load!PgEmpty(w)
    PROVE  LoadInv'
<1>1. /\ loader[w] \in Call /\ loader[w].sent = 0 /\ InTransaction(loader[w])
      /\ dialect = "postgresql" /\ loader[w].pc = "empty" /\ Load!Exclusive(w)
      /\ UNCHANGED <<dialect, table, version, late, calls, owed, last>>
  BY DEF LoadInv, LoadShapes, PostgresInv, Load!PgEmpty, Load!At, Load!Locals
<1> DEFINE p == [[loader[w] EXCEPT !.lock = "exclusive"] EXCEPT !.pc = "load", !.effect.emptied = TRUE]
<1>2. loader' = [loader EXCEPT ![w] = p]
  BY DEF Load!PgEmpty, Load!Goes, Load!Locked
<1>3. /\ p \in Call /\ p.pc = "load" /\ p.lock = "exclusive"
      /\ p.effect.fresh = loader[w].effect.fresh /\ p.effect.emptied = TRUE
      /\ p.effect.rows = loader[w].effect.rows
      /\ p.call = loader[w].call /\ p.mode = loader[w].mode /\ p.recreate = loader[w].recreate
      /\ p.sees = loader[w].sees /\ p.sent = loader[w].sent
      /\ p.alone = loader[w].alone /\ p.behind = loader[w].behind
  BY <1>1, Altered
<1> HIDE DEF p
<1>4. InTransaction(p)
  BY <1>1, <1>3 DEF InTransaction
<1>5. QED
  BY <1>1, <1>2, <1>3, <1>4, TransactionGoesOn

LEMMA PgCopyKeepsLoadInv ==
    ASSUME LoadInv, NEW w \in Writers, Load!PgCopy(w)
    PROVE  LoadInv'
<1>1. /\ loader[w] \in Call /\ InTransaction(loader[w])
      /\ dialect = "postgresql" /\ loader[w].pc = "load" /\ Load!Shared(w)
      /\ UNCHANGED <<dialect, table, version, late, calls, owed, last>>
  BY DEF LoadInv, LoadShapes, PostgresInv, Load!PgCopy, Load!At, Load!Locals
<1> DEFINE n == loader[w].sent + 1
           rows == loader[w].effect.rows \cup {<<loader[w].call, loader[w].sent + 1>>}
           lock == IF loader[w].lock = "exclusive" THEN loader[w].lock ELSE "shared"
           e == [loader[w].effect EXCEPT !.rows = rows]
           q == [loader[w] EXCEPT !.sent = n, !.effect = e, !.lock = lock]
<1>2. loader[w].sent \in Nat /\ loader[w].call \in Nat /\ loader[w].effect \in Effect /\ n \in Nat /\ n > 0
  BY <1>1 DEF Call
<1>3. rows \in RowSets /\ rows = Sent(loader[w].call, n)
  BY <1>1, <1>2, ChunksSent DEF InTransaction
<1>4. lock \in {"exclusive", "shared"} /\ (lock = "exclusive" <=> loader[w].lock = "exclusive")
  OBVIOUS
<1>5. loader' = [loader EXCEPT ![w] = q]
  <2>1. loader' = [loader EXCEPT ![w] = [loader[w] EXCEPT !.sent = n,
             !.effect.rows = @ \cup {<<loader[w].call, loader[w].sent + 1>>}, !.lock = IF @ = "exclusive" THEN @ ELSE "shared"]]
    BY DEF Load!PgCopy, Load!Goes
  <2>2. [loader[w] EXCEPT !.sent = n,
             !.effect.rows = @ \cup {<<loader[w].call, loader[w].sent + 1>>},
             !.lock = IF @ = "exclusive" THEN @ ELSE "shared"] = q
    <3> HIDE DEF n
    <3>1. [loader[w] EXCEPT !.sent = n].effect = loader[w].effect
      BY <1>1 DEF Call
    <3>2. [loader[w] EXCEPT !.sent = n, !.effect = e].lock = loader[w].lock
      BY <1>1 DEF Call
    <3>3. QED
      BY <3>1, <3>2
  <2>3. QED
    BY <2>1, <2>2
<1> HIDE DEF n, rows, lock
<1>6. e \in Effect /\ e.rows = rows /\ e.fresh = loader[w].effect.fresh /\ e.emptied = loader[w].effect.emptied
  BY <1>2, <1>3 DEF Effect
<1> HIDE DEF e
<1>7. /\ q \in Call /\ q.pc = "load" /\ q.lock = lock /\ q.effect = e
      /\ q.call = loader[w].call /\ q.mode = loader[w].mode /\ q.recreate = loader[w].recreate
      /\ q.sees = loader[w].sees /\ q.sent = n
      /\ q.alone = loader[w].alone /\ q.behind = loader[w].behind
  BY <1>1, <1>2, <1>4, <1>6 DEF Call
<1> HIDE DEF q
<1>8. InTransaction(q)
  BY <1>1, <1>2, <1>3, <1>4, <1>6, <1>7 DEF InTransaction
<1>9. q.lock = "exclusive" => Load!Exclusive(w)
  BY <1>1, <1>4, <1>7, LocksExclude
<1>10. QED
  BY <1>1, <1>5, <1>7, <1>8, <1>9, TransactionGoesOn

\* The transaction is committed: the rows of the call come to those of the calls before it, or
\* instead of them if it replaces.
LEMMA PgCommitKeepsLoadInv ==
    ASSUME LoadInv, NEW w \in Writers, Load!PgCommit(w)
    PROVE  LoadInv'
<1> DEFINE r == loader[w]
           old == IF r.effect.fresh \/ r.effect.emptied THEN {} ELSE table.rows
           definition == IF r.effect.fresh THEN "frame" ELSE table.definition
<1>1. /\ LoadShapes /\ WholeFrames /\ PostgresInv /\ Load!InTurn /\ StoresAssumption
      /\ r \in Call /\ r.effect \in Effect /\ InTransaction(r) /\ dialect = "postgresql"
  BY StoresAssumption DEF LoadInv, LoadShapes, PostgresInv, Load!PgCommit, Call
<1>2. /\ r.pc = "load" /\ r.sent = Chunks /\ Load!Committed(w)
      /\ UNCHANGED <<dialect, version, late, timeouts, calls>>
      /\ table' = [definition |-> definition, rows |-> r.effect.rows \cup old]
  BY DEF Load!PgCommit, Load!At, Load!Applied
<1>0. PICK how \in {"returned", "broken"} : Load!Ends(w, how)
  BY <1>2 DEF Load!Committed
<1>3. r.effect.rows = Load!Frame(r.call) /\ r.effect.rows \in RowSets /\ Chunks \in Nat /\ Chunks > 0
  <2>1. Chunks \in Nat /\ Chunks > 0
    BY <1>1 DEF StoresAssumption, Load!FastWriteAssumption
  <2>2. r.effect.rows = Load!Frame(r.call)
    BY <1>1, <1>2 DEF InTransaction, Sent, Load!Frame
  <2>3. QED
    BY <1>1, <2>1, <2>2 DEF Effect
<1>4. \/ /\ r.effect.fresh \/ r.effect.emptied
         /\ Load!Replaces(w) \/ table = None
      \/ ~r.effect.fresh /\ ~r.effect.emptied /\ table # None /\ ~Load!Replaces(w)
  BY <1>1, <1>2 DEF InTransaction, Load!Replaces, Call
<1>5. /\ old \in RowSets /\ definition \in {"own", "frame"}
      /\ old = {} \/ (table # None /\ old = table.rows)
  <2>1. table # None => table.rows \in RowSets /\ table.definition \in {"own", "frame"}
    BY <1>1 DEF LoadShapes, Tables
  <2>2. {} \in RowSets
    BY DEF RowSets
  <2>3. r.effect.fresh \/ table # None
    BY <1>1, <1>2 DEF InTransaction
  <2>4. CASE r.effect.fresh \/ r.effect.emptied
    BY <2>1, <2>2, <2>3, <2>4
  <2>5. CASE ~(r.effect.fresh \/ r.effect.emptied)
    BY <2>1, <2>3, <2>5
  <2>6. QED
    BY <2>4, <2>5
<1>6. Load!Replaces(w) => old = {}
  BY <1>4
<1>7. old = IF Load!Replaces(w) \/ table = None THEN {} ELSE table.rows
  BY <1>4
<1> HIDE DEF old, definition
<1>8. table' \in Tables /\ table' # None /\ table'.rows = Load!Frame(r.call) \cup old
  <2>1. table' \in Tables /\ table'.rows = Load!Frame(r.call) \cup old
    BY <1>2, <1>3, <1>5 DEF Tables, RowSets
  <2>2. QED
    BY <1>1, <2>1 DEF StoresAssumption, Load!FastWriteAssumption, Tables, RowSets
<1>9. /\ LoadShapes' /\ AloneIsAlone' /\ Load!ReplaceRepeats'
      /\ loader'[w] = Load!Idle /\ \A v \in Writers \ {w} : loader'[v] = loader[v]
  <2>1. table' \in Tables \cup {None} /\ version' \in Nat /\ UNCHANGED <<dialect, calls>> /\ late' = late
    BY <1>1, <1>2, <1>8 DEF LoadShapes
  <2>2. Load!Replaces(w) => HoldsOnly(table', loader[w].call, Chunks, loader[w].behind)
    BY <1>6, <1>8 DEF HoldsOnly, Sent, Load!Frame
  <2>3. QED
    BY <1>0, <1>2, <2>1, <2>2, EndKeeps
<1>10. Load!InTurn'
  <2>1. (IF table = None THEN {} ELSE table.rows) = Rows(owed)
    BY <1>1 DEF Load!InTurn, Rows
  <2>2. owed' = {r.call} \cup IF Load!Replaces(w) THEN {} ELSE owed
    BY <1>2 DEF Load!Committed, Load!Owes
  <2>3. Rows(owed') = Load!Frame(r.call) \cup old
    <3>1. CASE Load!Replaces(w)
      <4>1. owed' = {r.call}
        BY <2>2, <3>1
      <4>2. QED
        BY <1>6, <3>1, <4>1, RowsOfMore
    <3>2. CASE ~Load!Replaces(w)
      <4>1. owed' = {r.call} \cup owed
        BY <2>2, <3>2
      <4>2. old = Rows(owed)
        BY <1>7, <2>1, <3>2
      <4>3. QED
        BY <4>1, <4>2, RowsOfMore
    <3>3. QED
      BY <3>1, <3>2
  <2>4. table'.rows = Rows(owed')
    BY <1>8, <2>3
  <2>5. last'.call \in owed'
    BY <1>0, <2>2 DEF Load!Ends
  <2>6. QED
    BY <1>8, <2>4, <2>5 DEF Load!InTurn, Rows, Load!Frame
<1>11. WholeFrames'
  <2>1. Whole(old) /\ Whole(Load!Frame(r.call))
    BY <1>1, <1>5, WholeSets DEF WholeFrames, Load!Chunked
  <2>2. Whole(Load!Frame(r.call) \cup old)
    BY <2>1, WholeSets
  <2>3. QED
    BY <1>8, <2>2 DEF WholeFrames, Whole
<1>12. PostgresInv'
  <2>1. Locks'
    BY <1>1, <1>9 DEF PostgresInv, Locks, Load!Idle
  <2>2. InTransaction(loader[w])'
    BY <1>9, IdleInTransaction DEF InTransaction
  <2>3. ASSUME NEW v \in Writers \ {w} PROVE InTransaction(loader[v])'
    <3>1. loader[v].lock # "exclusive"
      BY <1>1, <1>2, <1>3, <2>3 DEF PostgresInv, Locks, InTransaction
    <3>2. InTransaction(loader[v]) /\ ~loader[v].effect.fresh
      BY <1>1, <2>3, <3>1 DEF PostgresInv, InTransaction
    <3>3. QED
      BY <1>8, <1>9, <2>3, <3>2 DEF InTransaction
  <2>4. QED
    BY <2>1, <2>2, <2>3 DEF PostgresInv
<1>13. IcebergInv' /\ StepwiseInv'
  BY <1>1, <1>2 DEF IcebergInv, StepwiseInv, Load!Stepwise
<1>14. QED
  BY <1>9, <1>10, <1>11, <1>12, <1>13 DEF LoadInv

-----------------------------------------------------------------------------
(* Iceberg. *)

LEMMA IcebergLoadKeepsLoadInv ==
    ASSUME LoadInv, NEW w \in Writers, Load!IcebergLoad(w)
    PROVE  LoadInv'
<1>1. /\ LoadShapes /\ WholeFrames /\ IcebergInv /\ Load!InTurn /\ loader[w] \in Call
      /\ dialect = "iceberg" /\ loader[w].pc = "open"
  BY DEF LoadInv, LoadShapes, Load!IcebergLoad, Load!At
<1>2. CASE table = None
  BY <1>1, <1>2, BreakKeepsLoadInv DEF Load!IcebergLoad
<1>3. CASE table # None
  <2> DEFINE q == [loader[w] EXCEPT !.pc = "load", !.snapshot = version]
  <2>1. loader' = [loader EXCEPT ![w] = q] /\ UNCHANGED <<dialect, table, version, late, calls, owed, last>>
    BY <1>3 DEF Load!IcebergLoad, Load!Goes, Load!Locals
  <2>2. q \in Call /\ q.pc = "load" /\ q.alone = loader[w].alone /\ q.behind = loader[w].behind
    BY <1>1 DEF LoadShapes, Call
  <2> HIDE DEF q
  <2>3. LoadShapes' /\ AloneIsAlone' /\ Load!ReplaceRepeats'
    <3>1. table' \in Tables \cup {None}
      BY <1>1, <2>1 DEF LoadShapes
    <3>2. QED
      BY <1>1, <2>1, <2>2, <3>1, MoveKeeps
  <2>4. WholeFrames' /\ Load!InTurn'
    BY <1>1, <2>1 DEF WholeFrames, Load!InTurn, Load!Chunked
  <2>5. PostgresInv' /\ IcebergInv' /\ StepwiseInv'
    BY <1>1, <1>3, <2>1 DEF PostgresInv, IcebergInv, StepwiseInv, Load!Stepwise
  <2>6. QED
    BY <2>3, <2>4, <2>5 DEF LoadInv
<1>4. QED
  BY <1>2, <1>3

LEMMA IcebergCommitKeepsLoadInv ==
    ASSUME LoadInv, NEW w \in Writers, Load!IcebergCommit(w)
    PROVE  LoadInv'
<1>1. /\ LoadShapes /\ WholeFrames /\ IcebergInv /\ Load!InTurn /\ loader[w] \in Call /\ StoresAssumption
      /\ dialect = "iceberg" /\ loader[w].pc = "load"
  BY StoresAssumption DEF LoadInv, LoadShapes, Load!IcebergCommit, Load!At
<1>2. CASE ~Load!Unchanged(w)
  BY <1>1, <1>2, BreakKeepsLoadInv DEF Load!IcebergCommit
<1>3. CASE Load!Unchanged(w)
  <2> DEFINE r == loader[w]
             old == IF r.mode = "replace" THEN {} ELSE table.rows
  <2>1. /\ table' = [table EXCEPT !.rows = Load!Frame(r.call) \cup old] /\ version' = version + 1
        /\ Load!Committed(w) /\ UNCHANGED <<dialect, late, timeouts, calls>>
    BY <1>3 DEF Load!IcebergCommit, Load!Snapshot
  <2>0. PICK how \in {"returned", "broken"} : Load!Ends(w, how)
    BY <2>1 DEF Load!Committed
  <2>2. table # None /\ table \in Tables /\ table.rows \in RowSets /\ r.call \in Nat
    BY <1>1 DEF LoadShapes, IcebergInv, Tables, Call
  <2>3. Load!Frame(r.call) \cup old \in RowSets
    <3>1. Load!Frame(r.call) \in RowSets
      BY <2>2 DEF Load!Frame, RowSets
    <3>2. QED
      BY <2>2, <3>1 DEF RowSets
  <2>4. Load!Replaces(w) <=> r.mode = "replace"
    BY <1>1 DEF Load!Replaces
  <2>5. Whole(old)
    BY <1>1, <2>2, WholeSets DEF WholeFrames, Load!Chunked
  <2>6. old = IF Load!Replaces(w) THEN {} ELSE table.rows
    BY <2>4
  <2> HIDE DEF old
  <2>7. table' \in Tables /\ table'.rows = Load!Frame(r.call) \cup old
    BY <2>1, <2>2, <2>3 DEF Tables
  <2>8. table' # None
    BY <1>1, <2>7 DEF StoresAssumption, Load!FastWriteAssumption, Tables, RowSets
  <2>9. LoadShapes' /\ AloneIsAlone' /\ Load!ReplaceRepeats'
    <3>1. table' \in Tables \cup {None} /\ version' \in Nat /\ UNCHANGED <<dialect, calls>> /\ late' = late
      BY <1>1, <2>1, <2>7 DEF LoadShapes
    <3>2. Load!Replaces(w) => HoldsOnly(table', loader[w].call, Chunks, loader[w].behind)
      BY <2>6, <2>7, <2>8 DEF HoldsOnly, Sent, Load!Frame
    <3>3. QED
      BY <1>1, <2>0, <2>1, <3>1, <3>2, EndKeeps
  <2>10. Load!InTurn'
    <3>1. table.rows = Rows(owed)
      BY <1>1, <2>2 DEF Load!InTurn, Rows
    <3>2. owed' = {r.call} \cup IF Load!Replaces(w) THEN {} ELSE owed
      BY <2>1 DEF Load!Committed, Load!Owes
    <3>3. Rows(owed') = Load!Frame(r.call) \cup old
      <4>1. CASE Load!Replaces(w)
        <5>1. owed' = {r.call} /\ old = {}
          BY <2>6, <3>2, <4>1
        <5>2. QED
          BY <5>1, RowsOfMore
      <4>2. CASE ~Load!Replaces(w)
        <5>1. owed' = {r.call} \cup owed /\ old = Rows(owed)
          BY <2>6, <3>1, <3>2, <4>2
        <5>2. QED
          BY <5>1, RowsOfMore
      <4>3. QED
        BY <4>1, <4>2
    <3>4. table'.rows = Rows(owed')
      BY <2>7, <3>3
    <3>5. last'.call \in owed'
      BY <2>0, <3>2 DEF Load!Ends
    <3>6. QED
      BY <2>8, <3>4, <3>5 DEF Load!InTurn, Rows, Load!Frame
  <2>11. WholeFrames'
    <3>1. Whole(Load!Frame(r.call) \cup old)
      BY <2>5, WholeSets
    <3>2. QED
      BY <2>7, <3>1 DEF WholeFrames, Whole
  <2>12. PostgresInv' /\ IcebergInv' /\ StepwiseInv'
    BY <1>1, <2>1, <2>8 DEF PostgresInv, IcebergInv, StepwiseInv, Load!Stepwise
  <2>13. QED
    BY <2>9, <2>10, <2>11, <2>12 DEF LoadInv
<1>4. QED
  BY <1>2, <1>3

-----------------------------------------------------------------------------
(* The targets on which each statement commits. *)

\* A call that goes on: the table holds whole frames, and what a replacing call sent if it is alone.
LEMMA StatementGoesOn ==
    ASSUME LoadInv, NEW w \in Writers, NEW q \in Call, Load!Stepwise,
           loader[w].pc # "idle", loader' = [loader EXCEPT ![w] = q], q.pc # "idle",
           q.alone = loader[w].alone, q.behind = loader[w].behind, q.pc # "load" => q.sent = 0,
           table' \in Tables \cup {None}, UNCHANGED <<dialect, version, late, calls, owed, last>>,
           ~Load!Chunked => q.sent = 0,
           ~Load!Chunked /\ table' # None => Whole(table'.rows),
           Filling(q) /\ (q.mode = "replace" \/ (q.recreate /\ ~q.sees)) /\ q.alone
             => HoldsOnly(table', q.call, q.sent, q.behind)
    PROVE  LoadInv'
<1>1. /\ LoadShapes' /\ AloneIsAlone' /\ Load!ReplaceRepeats'
      /\ loader'[w] = q /\ \A v \in Writers \ {w} : loader'[v] = loader[v]
      /\ \A v \in Writers \ {w} : ~(loader[v].pc # "idle" /\ loader[v].alone)
  BY MoveKeeps
<1>2. WholeFrames'
  BY DEF WholeFrames, Whole, Load!Chunked
<1>3. dialect' \notin {"postgresql", "iceberg"}
  BY DEF Load!Stepwise
<1>4. Load!InTurn' /\ PostgresInv' /\ IcebergInv'
  BY <1>3 DEF Load!InTurn, PostgresInv, IcebergInv
<1>5. StepwiseInv'
  <2>1. SUFFICES ASSUME NEW v \in Writers
                 PROVE  /\ ~Load!Chunked => loader'[v].sent = 0
                        /\ Filling(loader'[v]) /\ Load!Replaces(v)' /\ loader'[v].alone
                           => HoldsOnly(table', loader'[v].call, loader'[v].sent, loader'[v].behind)
    BY DEF StepwiseInv, HoldsOnly, Sent, Load!Chunked, Filling
  <2>2. CASE v = w
    BY <1>1, <2>2 DEF Load!Replaces
  <2>3. CASE v # w
    BY <1>1, <2>3 DEF LoadInv, StepwiseInv, Filling
  <2>4. QED
    BY <2>2, <2>3
<1>6. QED
  BY <1>1, <1>2, <1>4, <1>5 DEF LoadInv

\* A call whose last statement committed, with or without an answer.
LEMMA StatementReturns ==
    ASSUME LoadInv, NEW w \in Writers, Load!Stepwise, NEW how,
           loader[w].pc # "idle", Load!Ends(w, how),
           table' \in Tables, UNCHANGED <<dialect, version, late, calls>>,
           ~Load!Chunked => Whole(table'.rows),
           Load!Replaces(w) /\ loader[w].alone
             => HoldsOnly(table', loader[w].call, Chunks, loader[w].behind)
    PROVE  LoadInv'
<1>1. table' # None /\ version' \in Nat /\ late' = late /\ table' \in Tables \cup {None}
  BY StoresAssumption DEF LoadInv, LoadShapes, StoresAssumption, Load!FastWriteAssumption, Tables, RowSets
<1>2. /\ LoadShapes' /\ AloneIsAlone' /\ Load!ReplaceRepeats'
      /\ loader'[w] = Load!Idle /\ \A v \in Writers \ {w} : loader'[v] = loader[v]
      /\ \A v \in Writers \ {w} : ~(loader[v].pc # "idle" /\ loader[v].alone)
  BY <1>1, EndKeeps
<1>3. WholeFrames'
  BY DEF WholeFrames, Whole, Load!Chunked
<1>4. dialect' \notin {"postgresql", "iceberg"}
  BY DEF Load!Stepwise
<1>5. Load!InTurn' /\ PostgresInv' /\ IcebergInv'
  BY <1>4 DEF Load!InTurn, PostgresInv, IcebergInv
<1>6. StepwiseInv'
  <2>1. Load!Idle.pc = "idle" /\ Load!Idle.sent = 0
    BY DEF Load!Idle
  <2>2. ASSUME NEW v \in Writers
        PROVE  /\ ~Load!Chunked => loader'[v].sent = 0
               /\ ~(loader'[v].pc # "idle" /\ loader'[v].alone)
    BY <1>2, <2>1 DEF LoadInv, StepwiseInv
  <2>3. QED
    BY <2>2 DEF StepwiseInv, Load!Chunked, Filling
<1>7. QED
  BY <1>2, <1>3, <1>5, <1>6 DEF LoadInv

LEMMA DropKeepsLoadInv ==
    ASSUME LoadInv, NEW w \in Writers, Load!Drop(w)
    PROVE  LoadInv'
<1>1. /\ LoadShapes /\ WholeFrames /\ loader[w] \in Call /\ loader[w].pc = "open" /\ loader[w].sent = 0
      /\ Load!Stepwise /\ UNCHANGED <<dialect, version, late, calls, owed, last>>
  BY DEF LoadInv, LoadShapes, Load!Drop, Load!At, Load!Writes
<1>2. table' = None \/ table' = table
  BY DEF Load!Drop
<1> DEFINE q == [loader[w] EXCEPT !.pc = "look"]
<1>3. loader' = [loader EXCEPT ![w] = q]
  BY DEF Load!Drop, Load!Goes
<1>4. q \in Call /\ q.pc = "look" /\ q.alone = loader[w].alone /\ q.behind = loader[w].behind /\ q.sent = 0
  BY <1>1 DEF Call
<1> HIDE DEF q
<1>5. table' \in Tables \cup {None} /\ (~Load!Chunked /\ table' # None => Whole(table'.rows))
  BY <1>1, <1>2 DEF LoadShapes, WholeFrames
<1>6. QED
  BY <1>1, <1>3, <1>4, <1>5, StatementGoesOn DEF Filling

LEMMA LookKeepsLoadInv ==
    ASSUME LoadInv, NEW w \in Writers, Load!Look(w)
    PROVE  LoadInv'
<1>1. /\ LoadShapes /\ WholeFrames /\ loader[w] \in Call /\ loader[w].pc = "look" /\ loader[w].sent = 0
      /\ Load!Stepwise /\ UNCHANGED <<dialect, table, version, late, calls, owed, last>>
  BY DEF LoadInv, LoadShapes, Load!Look, Load!At, Load!Locals
<1> DEFINE sees == table # None
           next == IF table = None THEN "create"
                   ELSE IF Load!Fallback \/ loader[w].mode = "replace" THEN "empty" ELSE "load"
           q == [loader[w] EXCEPT !.sees = sees, !.pc = next]
<1>2. loader' = [loader EXCEPT ![w] = q]
  BY DEF Load!Look, Load!Goes
<1>3. sees \in BOOLEAN /\ next \in {"create", "empty", "load"}
      /\ (next = "load" => sees /\ loader[w].mode # "replace") /\ (next = "empty" => sees)
  OBVIOUS
<1> HIDE DEF sees, next
<1>4. /\ q \in Call /\ q.pc = next /\ q.mode = loader[w].mode /\ q.sees = sees /\ q.sent = 0
      /\ q.alone = loader[w].alone /\ q.behind = loader[w].behind
  BY <1>1, <1>3 DEF Call
<1> HIDE DEF q
<1>5. table' \in Tables \cup {None} /\ (~Load!Chunked /\ table' # None => Whole(table'.rows))
  BY <1>1 DEF LoadShapes, WholeFrames
<1>6. ~(Filling(q) /\ (q.mode = "replace" \/ (q.recreate /\ ~q.sees))) /\ q.pc # "idle"
  BY <1>3, <1>4 DEF Filling
<1>7. QED
  BY <1>1, <1>2, <1>4, <1>5, <1>6, StatementGoesOn

\* A statement that leaves an empty table of the frame's or the table's own definition.
LEMMA EmptyTable ==
    /\ \A d \in {"own", "frame"} : [definition |-> d, rows |-> {}] \in Tables
    /\ Whole({}) /\ \A c \in Nat : Sent(c, 0) = {}
  BY WholeSets, ChunksSent DEF Tables, RowSets

\* A call that may load an empty table next.
LEMMA EmptyTableGoesOn ==
    ASSUME LoadInv, NEW w \in Writers, Load!Stepwise, loader[w].pc # "idle", loader[w].sent = 0,
           NEW next \in {"empty", "load"}, loader' = [loader EXCEPT ![w] = [loader[w] EXCEPT !.pc = next]],
           NEW d \in {"own", "frame"}, table' = [definition |-> d, rows |-> {}],
           UNCHANGED <<dialect, version, late, calls, owed, last>>
    PROVE  LoadInv'
<1> DEFINE q == [loader[w] EXCEPT !.pc = next]
<1>1. /\ q \in Call /\ q.pc = next /\ q.sent = 0 /\ q.call \in Nat
      /\ q.alone = loader[w].alone /\ q.behind = loader[w].behind
  BY DEF LoadInv, LoadShapes, Call
<1> HIDE DEF q
<1>2. table' \in Tables /\ table'.rows = {} /\ Whole(table'.rows)
  BY EmptyTable
<1>3. HoldsOnly(table', q.call, q.sent, q.behind)
  BY <1>1, <1>2, EmptyTable, StoresAssumption
     DEF HoldsOnly, StoresAssumption, Load!FastWriteAssumption, Tables, RowSets
<1>4. QED
  BY <1>1, <1>2, <1>3, StatementGoesOn DEF q

LEMMA CreateKeepsLoadInv ==
    ASSUME LoadInv, NEW w \in Writers, Load!Create(w)
    PROVE  LoadInv'
<1>1. loader[w] \in Call /\ loader[w].pc = "create" /\ loader[w].sent = 0 /\ Load!Stepwise
  BY DEF LoadInv, LoadShapes, Load!Create, Load!At
<1>2. CASE table # None
  BY <1>1, <1>2, BreakKeepsLoadInv DEF Load!Create
<1>3. CASE table = None
  <2> DEFINE next == IF Load!Fallback \/ (dialect # "clickhouse" /\ loader[w].mode = "replace")
                     THEN "empty" ELSE "load"
  <2>1. /\ table' = [definition |-> "frame", rows |-> {}]
        /\ loader' = [loader EXCEPT ![w] = [loader[w] EXCEPT !.pc = next]]
        /\ UNCHANGED <<dialect, version, late, calls, owed, last>>
    BY <1>3 DEF Load!Create, Load!Goes, Load!Writes, Load!New
  <2>2. next \in {"empty", "load"}
    OBVIOUS
  <2> HIDE DEF next
  <2>3. QED
    BY <1>1, <2>1, <2>2, EmptyTableGoesOn
<1>4. QED
  BY <1>2, <1>3

LEMMA EmptyKeepsLoadInv ==
    ASSUME LoadInv, NEW w \in Writers, Load!Empty(w)
    PROVE  LoadInv'
<1>1. /\ LoadShapes /\ loader[w] \in Call /\ loader[w].pc = "empty" /\ loader[w].sent = 0 /\ Load!Stepwise
  BY DEF LoadInv, LoadShapes, Load!Empty, Load!At
<1>2. CASE table = None
  BY <1>1, <1>2, BreakKeepsLoadInv DEF Load!Empty
<1>3. CASE table # None
  <2>1. /\ loader' = [loader EXCEPT ![w] = [loader[w] EXCEPT !.pc = "load"]]
        /\ UNCHANGED <<dialect, version, late, calls, owed, last>>
        /\ table' = [table EXCEPT !.rows = {}]
    BY <1>3 DEF Load!Empty, Load!Goes, Load!Writes, Load!Emptied
  <2>2. PICK d \in {"own", "frame"} : table' = [definition |-> d, rows |-> {}]
    BY <1>1, <1>3, <2>1 DEF LoadShapes, Tables
  <2>3. QED
    BY <1>1, <2>1, <2>2, EmptyTableGoesOn
<1>4. QED
  BY <1>2, <1>3

LEMMA FallbackDropKeepsLoadInv ==
    ASSUME LoadInv, NEW w \in Writers, Load!FallbackDrop(w)
    PROVE  LoadInv'
<1>1. /\ LoadShapes /\ WholeFrames /\ loader[w] \in Call /\ loader[w].pc = "empty" /\ loader[w].sent = 0
      /\ Load!Stepwise /\ dialect \in {"other", "trino"}
      /\ UNCHANGED <<dialect, version, late, calls, owed, last>>
  BY DEF LoadInv, LoadShapes, Load!FallbackDrop, Load!At, Load!Writes, Load!Fallback, Load!Stepwise
<1>2. table' = None \/ (table' = table /\ loader[w].mode # "replace")
  BY DEF Load!FallbackDrop
<1> DEFINE next == IF table' = None THEN "make" ELSE "load"
           q == [loader[w] EXCEPT !.pc = next]
<1>3. loader' = [loader EXCEPT ![w] = q] /\ next \in {"make", "load"} /\ (next = "load" => table' # None)
  BY DEF Load!FallbackDrop, Load!Goes
<1> HIDE DEF next
<1>4. /\ q \in Call /\ q.pc = next /\ q.alone = loader[w].alone /\ q.behind = loader[w].behind /\ q.sent = 0
      /\ q.mode = loader[w].mode /\ q.recreate = loader[w].recreate /\ q.sees = loader[w].sees
      /\ q.call = loader[w].call
  BY <1>1, <1>3 DEF Call
<1> HIDE DEF q
<1>5. table' \in Tables \cup {None} /\ (~Load!Chunked /\ table' # None => Whole(table'.rows))
  BY <1>1, <1>2 DEF LoadShapes, WholeFrames
<1>6. ASSUME Filling(q), q.mode = "replace" \/ (q.recreate /\ ~q.sees), q.alone
      PROVE  HoldsOnly(table', q.call, q.sent, q.behind)
  <2>1. table # None /\ table' = table /\ q.mode # "replace" /\ q.recreate /\ ~q.sees
    BY <1>2, <1>3, <1>4, <1>6 DEF Filling
  <2>2. HoldsOnly(table, loader[w].call, 0, loader[w].behind)
    BY <1>1, <1>4, <1>6, <2>1 DEF LoadInv, StepwiseInv, Filling, Load!Replaces
  <2>3. QED
    BY <1>4, <2>1, <2>2
<1>7. QED
  BY <1>1, <1>3, <1>4, <1>5, <1>6, StatementGoesOn

LEMMA FallbackMakeKeepsLoadInv ==
    ASSUME LoadInv, NEW w \in Writers, Load!FallbackMake(w)
    PROVE  LoadInv'
<1>1. loader[w] \in Call /\ loader[w].pc = "make" /\ loader[w].sent = 0 /\ Load!Stepwise
  BY DEF LoadInv, LoadShapes, Load!FallbackMake, Load!At, Load!Fallback, Load!Stepwise
<1>2. CASE table # None
  BY <1>1, <1>2, BreakKeepsLoadInv DEF Load!FallbackMake
<1>3. CASE table = None
  <2>1. /\ table' = [definition |-> "frame", rows |-> {}]
        /\ loader' = [loader EXCEPT ![w] = [loader[w] EXCEPT !.pc = "load"]]
        /\ UNCHANGED <<dialect, version, late, calls, owed, last>>
    BY <1>3 DEF Load!FallbackMake, Load!Goes, Load!Writes, Load!New
  <2>2. QED
    BY <1>1, <2>1, EmptyTableGoesOn
<1>4. QED
  BY <1>2, <1>3

LEMMA InsertKeepsLoadInv ==
    ASSUME LoadInv, NEW w \in Writers, Load!Insert(w)
    PROVE  LoadInv'
<1>1. /\ LoadShapes /\ WholeFrames /\ StepwiseInv /\ loader[w] \in Call /\ loader[w].pc = "load"
      /\ ~Load!Chunked /\ Load!Stepwise /\ loader[w].call \in Nat
  BY DEF LoadInv, LoadShapes, Load!Insert, Load!At, Call
<1>2. CASE table = None
  BY <1>1, <1>2, BreakKeepsLoadInv DEF Load!Insert
<1>3. CASE table # None
  <2> DEFINE frame == Load!Frame(loader[w].call)
  <2>1. /\ table' = [table EXCEPT !.rows = table.rows \cup frame]
        /\ Load!Committed(w) /\ UNCHANGED <<dialect, version, late, calls>>
    BY <1>3 DEF Load!Insert
  <2>2. PICK how \in {"returned", "broken"} : Load!Ends(w, how)
    BY <2>1 DEF Load!Committed
  <2>3. frame \in RowSets /\ Whole(frame) /\ frame = Sent(loader[w].call, Chunks)
    <3>1. Chunks \in Nat
      BY StoresAssumption DEF StoresAssumption, Load!FastWriteAssumption
    <3>2. Whole(frame)
      BY WholeSets
    <3>3. QED
      BY <1>1, <3>1, <3>2 DEF Load!Frame, RowSets, Sent
  <2>4. /\ table \in Tables /\ table.rows \cup frame \in RowSets /\ Whole(table.rows)
    BY <1>1, <1>3, <2>3 DEF LoadShapes, Tables, RowSets, WholeFrames
  <2>5. Load!Replaces(w) /\ loader[w].alone => table.rows \subseteq loader[w].behind
    <3>1. loader[w].sent = 0 /\ Filling(loader[w])
      BY <1>1 DEF StepwiseInv, Filling
    <3>2. QED
      BY <1>1, <3>1, EmptyTable DEF StepwiseInv, HoldsOnly
  <2> HIDE DEF frame
  <2>6. table' \in Tables /\ table'.rows = table.rows \cup frame
    BY <2>1, <2>4 DEF Tables
  <2>7. Whole(table'.rows)
    BY <2>3, <2>4, <2>6, WholeSets
  <2>8. table' # None
    BY <2>6, StoresAssumption DEF StoresAssumption, Load!FastWriteAssumption, Tables, RowSets
  <2>9. Load!Replaces(w) /\ loader[w].alone => HoldsOnly(table', loader[w].call, Chunks, loader[w].behind)
    BY <2>3, <2>5, <2>6, <2>8 DEF HoldsOnly
  <2>10. QED
    BY <1>1, <2>1, <2>2, <2>6, <2>7, <2>9, StatementReturns
<1>4. QED
  BY <1>2, <1>3

LEMMA PostKeepsLoadInv ==
    ASSUME LoadInv, NEW w \in Writers, Load!Post(w)
    PROVE  LoadInv'
<1>1. /\ LoadShapes /\ StepwiseInv /\ loader[w] \in Call /\ loader[w].pc = "load"
      /\ Load!Chunked /\ Load!Stepwise /\ loader[w].call \in Nat /\ loader[w].sent \in Nat
  BY DEF LoadInv, LoadShapes, Load!Post, Load!At, Load!Stepwise, Load!Chunked, Call
<1>2. CASE table = None
  BY <1>1, <1>2, BreakKeepsLoadInv DEF Load!Post
<1>3. CASE table # None
  <2> DEFINE n == loader[w].sent + 1
             rows == table.rows \cup {<<loader[w].call, n>>}
  <2>1. table' = [table EXCEPT !.rows = rows] /\ UNCHANGED <<dialect, version, late, calls>>
    BY <1>3 DEF Load!Post, Load!NextChunk
  <2>2. n \in Nat /\ table \in Tables /\ rows \in RowSets
    BY <1>1, <1>3 DEF LoadShapes, Tables, RowSets
  <2>3. table' \in Tables /\ table'.rows = rows
    BY <2>1, <2>2 DEF Tables
  <2>4. table' # None
    BY <2>3, StoresAssumption DEF StoresAssumption, Load!FastWriteAssumption, Tables, RowSets
  <2>5. Load!Replaces(w) /\ loader[w].alone => HoldsOnly(table', loader[w].call, n, loader[w].behind)
    <3>1. Filling(loader[w])
      BY <1>1 DEF Filling
    <3>2. Sent(loader[w].call, loader[w].sent) \cup {<<loader[w].call, n>>} = Sent(loader[w].call, n)
      BY <1>1, ChunksSent
    <3>3. QED
      BY <1>1, <2>3, <2>4, <3>1, <3>2 DEF StepwiseInv, HoldsOnly
  <2>6. CASE n = Chunks
    <3>1. Load!Ends(w, "returned")
      BY <1>3, <2>6 DEF Load!Post
    <3>2. QED
      BY <1>1, <2>1, <2>3, <2>5, <2>6, <3>1, StatementReturns
  <2>7. CASE n # Chunks
    <3> DEFINE q == [loader[w] EXCEPT !.sent = n]
    <3>1. loader' = [loader EXCEPT ![w] = q] /\ UNCHANGED <<owed, last>>
      BY <1>3, <2>7 DEF Load!Post, Load!Goes
    <3> HIDE DEF n
    <3>2. /\ q \in Call /\ q.pc = "load" /\ q.sent = n /\ q.call = loader[w].call
          /\ q.mode = loader[w].mode /\ q.recreate = loader[w].recreate /\ q.sees = loader[w].sees
          /\ q.alone = loader[w].alone /\ q.behind = loader[w].behind
      BY <1>1, <2>2 DEF Call
    <3> HIDE DEF q
    <3>3. (q.mode = "replace" \/ (q.recreate /\ ~q.sees)) => Load!Replaces(w)
      BY <1>1, <3>2 DEF Load!Replaces, Load!Stepwise
    <3>4. QED
      BY <1>1, <2>1, <2>3, <2>4, <2>5, <3>1, <3>2, <3>3, StatementGoesOn
  <2>8. QED
    BY <2>6, <2>7
<1>4. QED
  BY <1>2, <1>3

LEMMA PostTimesOutKeepsLoadInv ==
    ASSUME LoadInv, NEW w \in Writers, Load!PostTimesOut(w)
    PROVE  LoadInv'
<1>1. /\ Load!Chunked /\ loader[w].pc # "idle" /\ Load!Ends(w, "broken")
      /\ late' = late \cup {<<loader[w].call, loader[w].sent + 1>>}
      /\ UNCHANGED <<dialect, table, version, calls, owed>>
  BY DEF Load!PostTimesOut, Load!At, Load!NextChunk
<1>2. late' \in RowSets
  BY <1>1 DEF LoadInv, LoadShapes, Call, RowSets
<1>3. QED
  BY <1>1, <1>2, UnreturnedKeepsLoadInv

LEMMA LandsKeepsLoadInv ==
    ASSUME LoadInv, Load!Lands
    PROVE  LoadInv'
<1>1. PICK x \in late :
         /\ late' = late \ {x}
         /\ table' = table \/ (table # None /\ table' = [table EXCEPT !.rows = table.rows \cup {x}])
         /\ UNCHANGED <<dialect, version, timeouts, calls, loader, owed, last>>
  BY DEF Load!Lands
<1>2. /\ LoadShapes /\ AloneIsAlone /\ StepwiseInv /\ Load!ReplaceRepeats
      /\ Load!Chunked /\ dialect \notin {"postgresql", "iceberg"}
  BY <1>1 DEF LoadInv, AloneIsAlone, Load!Chunked
\* The table is as it was, or has the chunk besides.
<1>3. /\ table' \in Tables \cup {None}
      /\ table # None => /\ table' # None /\ table.rows \subseteq table'.rows
                         /\ table'.rows \subseteq table.rows \cup {x}
  <2>1. CASE table' = table
    BY <1>2, <2>1 DEF LoadShapes
  <2>2. CASE table # None /\ table' = [table EXCEPT !.rows = table.rows \cup {x}]
    <3>1. table \in Tables /\ table.rows \cup {x} \in RowSets
      BY <1>1, <1>2, <2>2 DEF LoadShapes, Tables, RowSets
    <3>2. table' \in Tables /\ table'.rows = table.rows \cup {x}
      BY <2>2, <3>1 DEF Tables
    <3>3. table' # None
      BY <3>2, StoresAssumption DEF StoresAssumption, Load!FastWriteAssumption, Tables, RowSets
    <3>4. QED
      BY <3>2, <3>3
  <2>3. QED
    BY <1>1, <2>1, <2>2
<1>4. LoadShapes'
  <2>1. late' \in RowSets
    BY <1>1, <1>2 DEF LoadShapes, RowSets
  <2>2. QED
    BY <1>1, <1>2, <1>3, <2>1 DEF LoadShapes
<1>5. AloneIsAlone'
  BY <1>1, <1>2 DEF AloneIsAlone, Load!Chunked
<1>6. WholeFrames' /\ PostgresInv' /\ IcebergInv' /\ Load!InTurn'
  BY <1>1, <1>2 DEF WholeFrames, PostgresInv, IcebergInv, Load!InTurn, Load!Chunked
<1>7. StepwiseInv'
  <2>1. SUFFICES ASSUME Load!Stepwise, NEW w \in Writers
                 PROVE  /\ ~Load!Chunked => loader[w].sent = 0
                        /\ Filling(loader[w]) /\ Load!Replaces(w) /\ loader[w].alone
                           => HoldsOnly(table', loader[w].call, loader[w].sent, loader[w].behind)
    BY <1>1 DEF StepwiseInv, HoldsOnly, Sent, Filling, Load!Chunked, Load!Stepwise, Load!Replaces
  <2>2. ASSUME Filling(loader[w]), Load!Replaces(w), loader[w].alone
        PROVE  HoldsOnly(table', loader[w].call, loader[w].sent, loader[w].behind)
    <3>1. x \in loader[w].behind
      BY <1>1, <1>2, <2>2 DEF AloneIsAlone, Filling
    <3>2. HoldsOnly(table, loader[w].call, loader[w].sent, loader[w].behind)
      BY <1>2, <2>1, <2>2 DEF StepwiseInv
    <3>3. QED
      BY <1>3, <3>1, <3>2 DEF HoldsOnly
  <2>3. QED
    BY <1>2, <2>2
<1>8. Load!ReplaceRepeats'
  <2>1. SUFFICES ASSUME last # None, last.how = "returned", last.replaces, last.alone
                 PROVE  /\ table' # None /\ Load!Frame(last.call) \subseteq table'.rows
                        /\ table'.rows \ Load!Frame(last.call) \subseteq last.behind
    BY <1>1 DEF Load!ReplaceRepeats, Load!Frame
  <2>2. x \in last.behind
    BY <1>1, <1>2, <2>1 DEF AloneIsAlone
  <2>3. QED
    BY <1>2, <1>3, <2>1, <2>2 DEF Load!ReplaceRepeats
<1>9. QED
  BY <1>4, <1>5, <1>6, <1>7, <1>8 DEF LoadInv

LEMMA StepLoadInv ==
    ASSUME LoadInv, [Load!Next]_loadVars
    PROVE  LoadInv'
<1>1. CASE UNCHANGED loadVars
  <2>1. UNCHANGED <<dialect, table, version, late, timeouts, calls, loader, owed, last>>
    BY <1>1 DEF loadVars
  <2>2. LoadShapes' /\ AloneIsAlone' /\ WholeFrames'
    BY <2>1 DEF LoadInv, LoadShapes, AloneIsAlone, WholeFrames, Load!Chunked
  <2>3. PostgresInv' /\ IcebergInv'
    BY <2>1 DEF LoadInv, PostgresInv, Locks, InTransaction, IcebergInv
  <2>4. StepwiseInv'
    BY <2>1 DEF LoadInv, StepwiseInv, HoldsOnly, Filling, Load!Stepwise, Load!Chunked, Load!Replaces
  <2>5. Load!InTurn' /\ Load!ReplaceRepeats'
    BY <2>1 DEF LoadInv, Load!InTurn, Load!ReplaceRepeats
  <2>6. QED
    BY <2>2, <2>3, <2>4, <2>5 DEF LoadInv
<1>2. ASSUME NEW w \in Writers,
             \/ Load!PgDrop(w) \/ Load!PgLook(w) \/ Load!PgCreate(w) \/ Load!PgEmpty(w) \/ Load!PgCopy(w)
             \/ Load!PgCommit(w) \/ Load!IcebergLoad(w) \/ Load!IcebergCommit(w)
      PROVE  LoadInv'
  BY <1>2, PgDropKeepsLoadInv, PgLookKeepsLoadInv, PgCreateKeepsLoadInv, PgEmptyKeepsLoadInv, PgCopyKeepsLoadInv,
     PgCommitKeepsLoadInv, IcebergLoadKeepsLoadInv, IcebergCommitKeepsLoadInv
<1>3. ASSUME NEW w \in Writers,
             \/ Load!Drop(w) \/ Load!Look(w) \/ Load!Create(w) \/ Load!Empty(w) \/ Load!FallbackDrop(w)
             \/ Load!FallbackMake(w) \/ Load!Insert(w) \/ Load!Post(w) \/ Load!PostTimesOut(w)
      PROVE  LoadInv'
  BY <1>3, DropKeepsLoadInv, LookKeepsLoadInv, CreateKeepsLoadInv, EmptyKeepsLoadInv, FallbackDropKeepsLoadInv,
     FallbackMakeKeepsLoadInv, InsertKeepsLoadInv, PostKeepsLoadInv, PostTimesOutKeepsLoadInv
<1>4. ASSUME NEW w \in Writers, Load!Begin(w) \/ Load!Break(w) PROVE LoadInv'
  BY <1>4, BeginKeepsLoadInv, BreakKeepsLoadInv
<1>5. CASE Load!Quiet
  BY <1>1, <1>5 DEF Load!Quiet, Load!vars, loadVars
<1>6. QED
  BY <1>1, <1>2, <1>3, <1>4, <1>5, LandsKeepsLoadInv DEF Load!Next

LEMMA LoadInvIsWhole == LoadInv => LoadsAreWhole
<1>1. ASSUME LoadInv PROVE Load!AllOrNothing
  <2>1. SUFFICES ASSUME ~Load!Chunked, table # None, NEW c \in Load!Calls
                 PROVE  Load!Frame(c) \cap table.rows = {} \/ Load!Frame(c) \subseteq table.rows
    BY DEF Load!AllOrNothing
  <2>2. c \in Nat /\ Whole(table.rows)
    BY <1>1, <2>1, StoresAssumption DEF LoadInv, WholeFrames, Load!Calls, StoresAssumption, Load!FastWriteAssumption
  <2>3. QED
    BY <2>2 DEF Whole, Load!Frame
<1>2. QED
  BY <1>1 DEF LoadInv, LoadsAreWhole

-----------------------------------------------------------------------------
(* Together: the three share no variable. *)

StoresInv == CacheInv /\ ReportsInv /\ LoadInv

LEMMA InitStoresInv == StoresInit => StoresInv
  BY InitCacheInv, InitReportsInv, InitLoadInv DEF StoresInit, StoresInv

LEMMA StepStoresInv ==
    ASSUME StoresInv, [StoresNext]_storesVars
    PROVE  StoresInv'
<1>1. [Next]_vars /\ [Reports!Next]_reportsVars /\ [Load!Next]_loadVars
  BY DEF StoresNext, storesVars
<1>2. QED
  BY <1>1, StepCacheInv, StepReportsInv, StepLoadInv DEF StoresInv

LEMMA StoresKeepInv == Stores => []StoresInv
  BY InitStoresInv, StepStoresInv, PTL DEF Stores

\* sources.py: as long as the file has the size and time under which its measures were kept, they
\* are the measures of what is in it, whoever wrote, cleared or looked at it meanwhile.
THEOREM MeasuresAreOfTheFile == Spec => []MetaIsOfItsKey
<1>1. CacheInv => MetaIsOfItsKey
  BY DEF CacheInv
<1>2. QED
  BY InitCacheInv, StepCacheInv, <1>1, PTL DEF Spec

\* report_store.py, app.py: a page shows a table no older than the one the row on it was written for,
\* whatever is published, flushed or forgotten while it loads; and unless two writers overlapped or
\* one broke off between its statements, a report is listed exactly if its own table is stored.
THEOREM PagesAlwaysTellReports == Stores => []PagesTellReports
<1>1. StoresInv => PagesTellReports
  BY ReportsInvTells DEF StoresInv
<1>2. QED
  BY StoresKeepInv, <1>1, PTL

\* fast_write: where a frame is one transaction or one snapshot it is in the table whole or not at
\* all at every moment; in PostgreSQL and Iceberg the table holds what the calls that committed leave
\* one after the other, however they overlap, break, are refused or stay without an answer; and on
\* every target a replacing call that ran alone leaves its whole frame, and beside it at most the
\* chunks that were under way when it began.
THEOREM LoadsAreAlwaysWhole == Stores => []LoadsAreWhole
<1>1. StoresInv => LoadsAreWhole
  BY LoadInvIsWhole DEF StoresInv
<1>2. QED
  BY StoresKeepInv, <1>1, PTL
=============================================================================
