--------------------------- MODULE ConfiguredProofs ---------------------------
(***************************************************************************)
(* Theorems about what users and plugins configure while others use it:    *)
(* Explore on a live connection, for every set of requests and any number  *)
(* of edits, alterations and requests, and whether or not keys are ever    *)
(* equal; the drill, for all columns and saves; the agent's providers on   *)
(* SQLite, for all requests that overlap; and the engines, for all plugins *)
(* and calls.  They rest on ExploreLiveAssumption and                      *)
(* ConfiguredAssumption only.                                              *)
(***************************************************************************)
EXTENDS MCConfigured, Sequences, FiniteSetTheorems, TLAPS

(* ExploreLive: the engines and the schema of a live connection. *)

(* Type correctness *)

LEMMA InitTypes == Init => TypeOK
BY ExploreLiveAssumption DEF Init, TypeOK, Idle

\* What a request sees lies within the bounds.
LEMMA ColumnTypes ==
    ASSUME TypeOK, NEW v \in 0..MaxEdits
    PROVE  Columns(v) \in Seen /\ Columns(v)[1] = v /\ Columns(v)[2] = catalog
BY DEF TypeOK, Columns, Seen

\* The engines that were created are finitely many, and numbered.
Numbered ==
    /\ IsFiniteSet(made)
    /\ \A e \in made : e.number <= Cardinality(made)

\* A new engine is none of those before it.
LEMMA CreatedIsNew ==
    ASSUME TypeOK, Numbered, NEW r \in Requests
    PROVE  /\ Created(r) \in Engine /\ Created(r) \notin made
           /\ Created(r).version = req[r].version
           /\ IsFiniteSet(made \cup {Created(r)})
           /\ Cardinality(made \cup {Created(r)}) = Cardinality(made) + 1
           /\ Created(r).number = Cardinality(made) + 1
           /\ Cardinality(made) \in Nat
<1>1. Cardinality(made) \in Nat
  BY FS_CardinalityType DEF Numbered
<1>2. Created(r) \in Engine /\ Created(r).version = req[r].version /\ Created(r).number = Cardinality(made) + 1
  BY <1>1 DEF Created, Engine, TypeOK
<1>3. Created(r) \notin made
  <2>1. SUFFICES ASSUME Created(r) \in made PROVE FALSE
    OBVIOUS
  <2>2. Created(r).number <= Cardinality(made)
    BY <2>1 DEF Numbered
  <2>3. QED
    BY <1>1, <1>2, <2>2
<1>4. /\ IsFiniteSet(made \cup {Created(r)})
      /\ Cardinality(made \cup {Created(r)}) = Cardinality(made) + 1
  BY <1>3, FS_AddElement DEF Numbered
<1>5. QED
  BY <1>1, <1>2, <1>3, <1>4

\* The locals of a request keep their types, whatever is assigned to one of them.
RequestType == [kind : {"query", "open"}, version : 0..MaxEdits, engine : Engine \cup {None},
                fields : Seen \cup {None}, began : Seen \cup {None}]

\* A request that took an engine has it, and one that has read fields has them.
HasLocals ==
    \A r \in Requests :
       /\ pc[r] \in {"engined", "missed", "fetched", "fielded"} => req[r].engine # None
       /\ pc[r] \in {"fetched", "fielded"} => req[r].fields # None

\* Every step keeps the types.
LEMMA StepTypes ==
    ASSUME TypeOK, Numbered, HasLocals, [Next]_vars
    PROVE  TypeOK'
<1>1. /\ MaxEdits \in Nat /\ MaxAlters \in Nat /\ MaxRequests \in Nat
      /\ None \notin Engine
  BY ExploreLiveAssumption DEF Engine
<1> USE DEF stored
<1>2. ASSUME NEW r \in Requests, ReadConnection(r) PROVE TypeOK'
  <2>1. Columns(row.version) \in Seen
    BY ColumnTypes DEF TypeOK
  <2>2. PICK k \in {"query", "open"} :
           req' = [req EXCEPT ![r] = [Idle EXCEPT !.kind = k, !.version = row.version,
                                                  !.began = Columns(row.version)]]
    BY <1>2 DEF ReadConnection
  <2>3. req' \in [Requests -> RequestType]
    BY <2>1, <2>2 DEF TypeOK, Idle, RequestType
  <2>4. served' \in 0..MaxRequests
    BY <1>1, <1>2 DEF TypeOK, ReadConnection
  <2>5. overlapped' \subseteq Requests
    BY <1>2 DEF TypeOK, ReadConnection
  <2>6. pc' \in [Requests -> {"idle", "read", "engined", "missed", "fetched", "fielded"}]
    BY <1>2 DEF TypeOK, ReadConnection, Goes
  <2>7. QED
    BY <1>2, <2>3, <2>4, <2>5, <2>6 DEF TypeOK, ReadConnection, RequestType
<1>3. ASSUME NEW r \in Requests, TakeEngine(r) PROVE TypeOK'
  <2>1. Created(r) \in Engine
    BY CreatedIsNew
  <2>2. made' \subseteq Engine /\ disposed' \subseteq made' /\ cached' \in made' \cup {None}
    BY <1>3, <2>1 DEF TakeEngine, TypeOK, Retired
  <2>3. req' \in [Requests -> RequestType]
    BY <1>3, <2>2 DEF TakeEngine, TypeOK, RequestType
  <2>4. pc' \in [Requests -> {"idle", "read", "engined", "missed", "fetched", "fielded"}]
    BY <1>3 DEF TypeOK, TakeEngine, Goes
  <2>5. schema' \in [columns : Seen, young : BOOLEAN] \cup {None}
    BY <1>3 DEF TypeOK, TakeEngine, SchemaLeft
  <2>6. QED
    BY <1>3, <2>2, <2>3, <2>4, <2>5 DEF TypeOK, TakeEngine, RequestType
<1>4. ASSUME NEW r \in Requests, FindSchema(r) PROVE TypeOK'
  BY <1>4 DEF TypeOK, FindSchema, Goes, Young
<1>5. ASSUME NEW r \in Requests, MissSchema(r) PROVE TypeOK'
  BY <1>5 DEF TypeOK, MissSchema, Goes
<1>6. ASSUME NEW r \in Requests, FetchSchema(r), req[r].engine # None PROVE TypeOK'
  <2>1. Columns(req[r].engine.version) \in Seen
    BY <1>6, ColumnTypes DEF TypeOK, Engine
  <2>2. QED
    BY <1>6, <2>1 DEF TypeOK, FetchSchema, Goes
<1>7. ASSUME NEW r \in Requests, StoreSchema(r), req[r].fields # None PROVE TypeOK'
  BY <1>7 DEF TypeOK, StoreSchema, Goes
<1>8. ASSUME NEW r \in Requests, Answer(r) PROVE TypeOK'
  BY <1>8 DEF TypeOK, Answer, Goes
<1>9. CASE Age
  BY <1>9 DEF TypeOK, Age
<1>10. CASE Edit
  BY <1>1, <1>10 DEF TypeOK, Edit
<1>11. CASE Alter
  BY <1>1, <1>11 DEF TypeOK, Alter
<1>12. CASE UNCHANGED vars
  BY <1>12 DEF TypeOK, vars
<1>13. ASSUME NEW r \in Requests, Handle(r) PROVE TypeOK'
  <2>1. FetchSchema(r) => req[r].engine # None
    BY DEF FetchSchema, Goes, HasLocals
  <2>2. StoreSchema(r) => req[r].fields # None
    BY DEF StoreSchema, Goes, HasLocals
  <2>3. QED
    BY <2>1, <2>2, <1>2, <1>3, <1>4, <1>5, <1>6, <1>7, <1>8, <1>13 DEF Handle
<1>14. QED
  BY <1>9, <1>10, <1>11, <1>12, <1>13 DEF Next, Done
-----------------------------------------------------------------------------
(***************************************************************************)
(* The engines.  What the caches hold is not inductive by itself: that an  *)
(* engine is retired only once needs that a new one is really new, so the  *)
(* engines are counted.                                                    *)
(***************************************************************************)
EnginesInv == TypeOK /\ Numbered /\ HasLocals /\ OwnEngine /\ OneEngineKept

LEMMA EnginesInit == Init => EnginesInv
<1>1. IsFiniteSet({})
  BY FS_EmptySet
<1>2. QED
  BY <1>1, InitTypes DEF Init, EnginesInv, Numbered, HasLocals, OwnEngine, OneEngineKept, Idle

\* Only TakeEngine touches the engines, and it keeps them in order.
LEMMA TakingKeepsEngines ==
    ASSUME EnginesInv, NEW r \in Requests, TakeEngine(r)
    PROVE  Numbered' /\ HasLocals' /\ OwnEngine' /\ OneEngineKept'
<1>1. TypeOK /\ Numbered /\ HasLocals /\ OwnEngine /\ OneEngineKept /\ None \notin Engine
  BY ExploreLiveAssumption DEF EnginesInv, Engine
<1>2. req' = [req EXCEPT ![r].engine = cached'] /\ pc' = [pc EXCEPT ![r] = "engined"] /\ pc[r] = "read"
  BY DEF TakeEngine, Goes
<1>3. /\ req'[r].engine = cached' /\ req'[r].version = req[r].version
      /\ \A p \in Requests \ {r} : req'[p] = req[p] /\ pc'[p] = pc[p]
      /\ pc'[r] = "engined"
  BY <1>1, <1>2 DEF TypeOK
<1>4. CASE Hit(r)
  <2>1. UNCHANGED <<cached, made, disposed>>
    BY <1>4 DEF TakeEngine
  <2>2. cached # None /\ cached.version = req[r].version
    BY <1>4 DEF Hit
  <2>3. QED
    BY <1>1, <1>3, <2>1, <2>2 DEF Numbered, HasLocals, OwnEngine, OneEngineKept
<1>5. CASE ~Hit(r)
  <2>1. cached' = Created(r) /\ made' = made \cup {Created(r)} /\ disposed' = Retired
    BY <1>5 DEF TakeEngine
  <2>2. /\ Created(r) \in Engine /\ Created(r) \notin made
        /\ Created(r).version = req[r].version
        /\ IsFiniteSet(made \cup {Created(r)})
        /\ Cardinality(made \cup {Created(r)}) = Cardinality(made) + 1
        /\ Created(r).number = Cardinality(made) + 1
        /\ Cardinality(made) \in Nat
    BY <1>1, CreatedIsNew
  <2>3. Numbered'
    <3>1. \A e \in made : e.number \in Nat /\ e.number <= Cardinality(made)
      BY <1>1 DEF Numbered, TypeOK, Engine
    <3>2. \A e \in made' : e.number <= Cardinality(made')
      BY <2>1, <2>2, <3>1
    <3>3. QED
      BY <2>1, <2>2, <3>2 DEF Numbered
  <2>4. HasLocals'
    BY <1>1, <1>3, <2>1, <2>2 DEF HasLocals
  <2>5. OwnEngine'
    BY <1>1, <1>3, <2>1, <2>2 DEF OwnEngine
  <2>6. OneEngineKept'
    BY <1>1, <2>1, <2>2 DEF OneEngineKept, Retired, TypeOK
  <2>7. QED
    BY <2>3, <2>4, <2>5, <2>6
<1>6. QED
  BY <1>4, <1>5

LEMMA EnginesStep ==
    ASSUME EnginesInv, [Next]_vars
    PROVE  EnginesInv'
<1>1. TypeOK /\ Numbered /\ HasLocals /\ OwnEngine /\ OneEngineKept
  BY DEF EnginesInv
<1>2. TypeOK'
  BY <1>1, StepTypes
<1>3. ASSUME UNCHANGED <<cached, made, disposed>> PROVE Numbered' /\ OneEngineKept'
  BY <1>1, <1>3 DEF Numbered, OneEngineKept
<1>4. ASSUME UNCHANGED <<pc, req>> PROVE HasLocals' /\ OwnEngine'
  BY <1>1, <1>4 DEF HasLocals, OwnEngine
<1>5. ASSUME NEW r \in Requests, ReadConnection(r) PROVE HasLocals' /\ OwnEngine' /\ UNCHANGED <<cached, made, disposed>>
  <2>1. pc'[r] = "read" /\ req'[r].engine = None /\ \A p \in Requests \ {r} : req'[p] = req[p] /\ pc'[p] = pc[p]
    BY <1>1, <1>5 DEF TypeOK, ReadConnection, Goes, Idle
  <2>2. QED
    BY <1>1, <1>5, <2>1 DEF HasLocals, OwnEngine, ReadConnection
<1>6. ASSUME NEW r \in Requests, FindSchema(r) \/ FetchSchema(r)
      PROVE  HasLocals' /\ OwnEngine' /\ UNCHANGED <<cached, made, disposed>>
  <2>1. /\ req'[r].engine = req[r].engine /\ req'[r].version = req[r].version
        /\ \A p \in Requests \ {r} : req'[p] = req[p] /\ pc'[p] = pc[p]
        /\ pc[r] \in {"engined", "missed"} /\ pc'[r] \in {"fielded", "fetched"}
    BY <1>1, <1>6 DEF TypeOK, FindSchema, FetchSchema, Goes
  <2>2. req'[r].fields \in Seen
    <3>1. CASE FindSchema(r)
      BY <1>1, <3>1 DEF TypeOK, FindSchema, Young
    <3>2. CASE FetchSchema(r)
      <4>1. req[r].engine \in Engine
        BY <1>1, <3>2 DEF TypeOK, FetchSchema, Goes, HasLocals
      <4>2. Columns(req[r].engine.version) \in Seen
        BY <1>1, <4>1, ColumnTypes DEF Engine
      <4>3. QED
        BY <1>1, <3>2, <4>2 DEF TypeOK, FetchSchema
    <3>3. QED
      BY <1>6, <3>1, <3>2
  <2>3. None \notin Seen
    BY ExploreLiveAssumption DEF Seen
  <2>4. QED
    BY <1>1, <1>6, <2>1, <2>2, <2>3 DEF HasLocals, OwnEngine, FindSchema, FetchSchema
<1>7. ASSUME NEW r \in Requests, MissSchema(r) \/ StoreSchema(r) \/ Answer(r)
      PROVE  HasLocals' /\ OwnEngine' /\ UNCHANGED <<cached, made, disposed>>
  BY <1>1, <1>7 DEF TypeOK, MissSchema, StoreSchema, Answer, Goes, HasLocals, OwnEngine
<1>8. CASE Age \/ Edit \/ Alter \/ UNCHANGED vars
  BY <1>1, <1>2, <1>3, <1>4, <1>8 DEF Age, Edit, Alter, vars, EnginesInv
<1>9. CASE \E r \in Requests : Handle(r)
  BY <1>2, <1>3, <1>5, <1>6, <1>7, <1>9, TakingKeepsEngines DEF Handle, EnginesInv
<1>10. QED
  BY <1>8, <1>9 DEF Next, Done

-----------------------------------------------------------------------------
(***************************************************************************)
(* The schema.  A request that opens a source alone finds no schema, since *)
(* it dropped the one that was kept and nobody else puts one back; so what *)
(* it is told it has read itself, and later than it began.                 *)
(***************************************************************************)

\* A request that nobody overlapped is the only one under way.
AloneIsAlone == \A r \in Requests \ overlapped : pc[r] # "idle" => \A q \in Requests \ {r} : pc[q] = "idle"

\* A request began with the version it read, and the catalog only grows.
BeganBefore == \A r \in Requests : pc[r] # "idle" =>
    req[r].began \in Seen /\ req[r].began[1] = req[r].version /\ req[r].began[2] <= catalog

Opening(r) == r \in Requests \ overlapped /\ req[r].kind = "open"

NothingKept == \A r \in Requests : Opening(r) /\ pc[r] \in {"engined", "missed", "fetched"} => schema = None

ReadsAnew == \A r \in Requests : Opening(r) /\ pc[r] \in {"fetched", "fielded"} =>
    req[r].fields[1] = req[r].version /\ req[r].fields[2] >= req[r].began[2]

SchemaInv == EnginesInv /\ AloneIsAlone /\ BeganBefore /\ NothingKept /\ ReadsAnew

LEMMA SchemaInit == Init => SchemaInv
BY EnginesInit DEF Init, SchemaInv, AloneIsAlone, BeganBefore, NothingKept, ReadsAnew

\* A request begins: it overlaps all those under way, or is alone.
LEMMA BeginningKeepsSchema ==
    ASSUME SchemaInv, NEW r \in Requests, ReadConnection(r)
    PROVE  AloneIsAlone' /\ BeganBefore' /\ NothingKept' /\ ReadsAnew'
<1>1. TypeOK /\ AloneIsAlone /\ BeganBefore /\ NothingKept /\ ReadsAnew
  BY DEF SchemaInv, EnginesInv
<1>2. /\ pc[r] = "idle" /\ pc' = [pc EXCEPT ![r] = "read"]
      /\ UNCHANGED <<catalog, schema>>
  BY DEF ReadConnection, Goes, stored
<1>3. pc'[r] = "read" /\ \A p \in Requests \ {r} : pc'[p] = pc[p]
  BY <1>1, <1>2 DEF TypeOK
<1>4. PICK k \in {"query", "open"} :
         req' = [req EXCEPT ![r] = [Idle EXCEPT !.kind = k, !.version = row.version,
                                                !.began = Columns(row.version)]]
  BY DEF ReadConnection
<1>5. /\ \A p \in Requests \ {r} : req'[p] = req[p]
      /\ req'[r].version = row.version /\ req'[r].began = Columns(row.version)
  BY <1>1, <1>4 DEF TypeOK, Idle
<1>6. overlapped' = LET others == {q \in Requests \ {r} : pc[q] # "idle"}
                    IN  IF others = {} THEN overlapped \ {r} ELSE overlapped \cup others \cup {r}
  BY DEF ReadConnection
<1>8. \A p \in Requests \ {r} : p \notin overlapped' => pc[p] = "idle"
  BY <1>6
<1>9. AloneIsAlone'
  <2>1. r \notin overlapped' => \A q \in Requests \ {r} : pc[q] = "idle"
    BY <1>6
  <2>2. QED
    BY <1>3, <1>8, <2>1 DEF AloneIsAlone
<1>10. BeganBefore'
  <2>1. Columns(row.version) \in Seen /\ Columns(row.version)[1] = row.version /\ Columns(row.version)[2] = catalog
    BY <1>1, ColumnTypes DEF TypeOK
  <2>2. catalog \in Nat
    BY <1>1, ExploreLiveAssumption DEF TypeOK
  <2>3. QED
    BY <1>1, <1>2, <1>3, <1>5, <2>1, <2>2 DEF BeganBefore
<1>11. NothingKept'
  BY <1>3, <1>8 DEF NothingKept, Opening
<1>12. ReadsAnew'
  BY <1>3, <1>8 DEF ReadsAnew, Opening
<1>13. QED
  BY <1>9, <1>10, <1>11, <1>12

\* The steps of a request that is under way.
LEMMA GoingOnKeepsSchema ==
    ASSUME SchemaInv, NEW r \in Requests, Handle(r), ~ReadConnection(r)
    PROVE  AloneIsAlone' /\ BeganBefore' /\ NothingKept' /\ ReadsAnew'
<1>1. TypeOK /\ HasLocals /\ OwnEngine /\ AloneIsAlone /\ BeganBefore /\ NothingKept /\ ReadsAnew
  BY DEF SchemaInv, EnginesInv
<1>2. /\ pc[r] # "idle" /\ pc' = [pc EXCEPT ![r] = pc'[r]]
      /\ UNCHANGED <<catalog, overlapped>>
  BY <1>1 DEF Handle, TakeEngine, FindSchema, MissSchema, FetchSchema, StoreSchema, Answer, Goes, stored, TypeOK
<1>3. /\ \A p \in Requests \ {r} : pc'[p] = pc[p] /\ req'[p] = req[p]
      /\ req'[r].kind = req[r].kind /\ req'[r].version = req[r].version /\ req'[r].began = req[r].began
  BY <1>1 DEF Handle, TakeEngine, FindSchema, MissSchema, FetchSchema, StoreSchema, Answer, Goes, TypeOK
<1>4. AloneIsAlone'
  BY <1>1, <1>2, <1>3 DEF AloneIsAlone
<1>5. BeganBefore'
  BY <1>1, <1>2, <1>3 DEF BeganBefore
<1>6. \A p \in Requests \ {r} : Opening(p)' => pc'[p] = "idle"
  BY <1>1, <1>2, <1>3 DEF AloneIsAlone, Opening
<1>7. Opening(r)' <=> Opening(r)
  BY <1>2, <1>3 DEF Opening
<1>8. NothingKept'
  <2>1. Opening(r) /\ pc'[r] \in {"engined", "missed", "fetched"} => schema' = None
    BY <1>1, <1>3 DEF NothingKept, Opening, Handle, TakeEngine, FindSchema, MissSchema, FetchSchema, StoreSchema,
                      Answer, Goes, SchemaLeft, TypeOK
  <2>2. QED
    BY <1>6, <1>7, <2>1 DEF NothingKept
<1>9. ReadsAnew'
  <2>1. Opening(r) /\ pc'[r] \in {"fetched", "fielded"}
          => req'[r].fields[1] = req[r].version /\ req'[r].fields[2] >= req[r].began[2]
    <3>1. CASE FetchSchema(r)
      <4>1. req[r].engine \in Engine /\ req[r].engine.version = req[r].version
        BY <1>1, <3>1 DEF TypeOK, FetchSchema, Goes, HasLocals, OwnEngine
      <4>2. /\ Columns(req[r].engine.version)[1] = req[r].version
            /\ Columns(req[r].engine.version)[2] = catalog
        BY <1>1, <4>1, ColumnTypes DEF Engine
      <4>3. req'[r].fields = Columns(req[r].engine.version)
        BY <1>1, <3>1 DEF TypeOK, FetchSchema
      <4>4. req[r].began[2] <= catalog /\ req[r].began[2] \in Nat /\ catalog \in Nat
        BY <1>1, <1>2, ExploreLiveAssumption DEF BeganBefore, Seen, TypeOK
      <4>5. QED
        BY <4>2, <4>3, <4>4
    <3>2. CASE StoreSchema(r)
      BY <1>1, <3>2 DEF ReadsAnew, StoreSchema, Goes
    <3>3. CASE FindSchema(r)
      BY <1>1, <3>3 DEF NothingKept, FindSchema, Young, Goes
    <3>4. CASE TakeEngine(r) \/ MissSchema(r) \/ Answer(r)
      BY <1>1, <3>4 DEF TakeEngine, MissSchema, Answer, Goes, TypeOK
    <3>5. QED
      BY <3>1, <3>2, <3>3, <3>4 DEF Handle
  <2>2. QED
    BY <1>3, <1>6, <1>7, <2>1 DEF ReadsAnew
<1>10. QED
  BY <1>4, <1>5, <1>8, <1>9

LEMMA SchemaStep ==
    ASSUME SchemaInv, [Next]_vars
    PROVE  SchemaInv'
<1>1. EnginesInv'
  BY EnginesStep DEF SchemaInv
<1>2. TypeOK /\ AloneIsAlone /\ BeganBefore /\ NothingKept /\ ReadsAnew
  BY DEF SchemaInv, EnginesInv
<1>3. CASE Age
  BY <1>1, <1>2, <1>3 DEF SchemaInv, Age, stored, AloneIsAlone, BeganBefore, NothingKept, ReadsAnew, Opening
<1>4. CASE Edit \/ UNCHANGED vars
  BY <1>1, <1>2, <1>4 DEF SchemaInv, stored, Edit, vars, AloneIsAlone, BeganBefore, NothingKept, ReadsAnew, Opening
<1>5. CASE Alter
  <2>1. catalog \in Nat /\ catalog' = catalog + 1
    BY <1>2, <1>5, ExploreLiveAssumption DEF Alter, TypeOK
  <2>2. BeganBefore'
    BY <1>2, <1>5, <2>1, ExploreLiveAssumption DEF Alter, BeganBefore, Seen
  <2>3. QED
    BY <1>1, <1>2, <1>5, <2>2 DEF SchemaInv, Alter, AloneIsAlone, NothingKept, ReadsAnew, Opening
<1>6. QED
  BY <1>1, <1>2, <1>3, <1>4, <1>5, BeginningKeepsSchema, GoingOnKeepsSchema DEF Next, Done, SchemaInv

-----------------------------------------------------------------------------
(* Drill: the settings file, and the rows behind a point. *)

DrillAsk == [config : Detail!Configs, row : Detail!Points, filter : Detail!Filters \cup {None}]

FileInv ==
    /\ file \in Detail!Settings /\ kept = file
    /\ saving # None => saving.data \in Detail!Settings

\* What the panel shows of the rows that the query has.
Shows(a, selected) ==
    /\ a.rows \subseteq selected
    /\ ~a.truncated => a.rows = selected
    /\ a.truncated => Detail!Cardinality(a.rows) = DetailRows

AskInv ==
    /\ ask.pc \in {"idle", "asked", "answered", "refused"}
    /\ ask.pc \in {"asked", "answered"} =>
         ask.config \in Detail!Configs /\ ask.row \in Detail!Points /\ ask.filter \in Detail!Filters \cup {None}
    /\ ask.pc = "answered" =>
         /\ ask.fields \subseteq Base
         /\ Shows(ask, Detail!Selected(Detail!Where(Detail!Conditions(ask.row, ask.filter, ask.fields), ask.config)))

DrillInv == FileInv /\ AskInv


\* SQL: a value is equal to another, or within a list, only if both have one.
LEMMA ListsHold ==
    ASSUME NEW x \in Detail!Cell, NEW list \in SUBSET Detail!Cell
    PROVE  /\ Detail!In3(x, list) = "true" <=> x # None /\ x \in list
           /\ Detail!In3(x, list) = "false" <=> list = {} \/ (x # None /\ x \notin list /\ None \notin list)
  BY DEF Detail!In3, Detail!Equal3

LEMMA NullIsNoValue == None \notin Detail!Values /\ None \notin Detail!Filters
  BY ConfiguredAssumption DEF ConfiguredAssumption, Detail!DrillAssumption

LEMMA FilterTypes ==
    ASSUME NEW g \in Detail!Filters
    PROVE  /\ g # None /\ g.value \in SUBSET Detail!Cell /\ g.type \in {"one of", "not in", "range", "other"}
           /\ g.type = "range" => None \notin g.value
<1>1. /\ Detail!Lists \subseteq SUBSET Detail!Cell /\ Detail!Ranges \subseteq SUBSET Detail!Cell
      /\ \A v \in Detail!Ranges : None \notin v
  BY NullIsNoValue DEF Detail!Lists, Detail!Ranges, Detail!Cell, Detail!Values
<1>2. g # None
  BY NullIsNoValue
<1>3. CASE g \in [fid : Base \cup Computed, type : {"one of", "not in"}, value : Detail!Lists]
  BY <1>1, <1>2, <1>3
<1>4. CASE g \in [fid : Base \cup Computed, type : {"range", "other"}, value : Detail!Ranges]
  BY <1>1, <1>2, <1>4
<1>5. QED
  BY <1>3, <1>4 DEF Detail!Filters

\* The condition of a dimension holds where the row has what the point has, null or not.
LEMMA EqualsTheDimension ==
    ASSUME NEW c, NEW v \in Detail!Cell, NEW x \in Detail!Cell, c.op = "eq", c.value = {v}
    PROVE  Detail!Truth(c, x) = "true" <=> x = v
<1>1. Detail!Truth(c, x) = Detail!Equals(c, x)
  BY DEF Detail!Truth
<1>2. CASE v = None
  BY <1>1, <1>2 DEF Detail!Equals
<1>3. CASE v # None
  <2>1. Detail!Equals(c, x) = Detail!In3(x, {v})
    BY <1>3 DEF Detail!Equals
  <2>2. {v} \in SUBSET Detail!Cell
    OBVIOUS
  <2>3. QED
    BY <1>1, <1>3, <2>1, <2>2, ListsHold
<1>4. QED
  BY <1>2, <1>3

\* The condition of a filter that restricts anything lets through what passes the filter; and all of
\* it, unless there is a null among the values that it leaves out.
FilterCondition(g) == [fid |-> g.fid, op |-> Detail!Op(g.type), value |-> g.value]

LEMMA FilterConditionHolds ==
    ASSUME NEW g \in Detail!Filters, g.type # "other", g.value # {}, NEW x \in Detail!Cell
    PROVE  /\ Detail!Truth(FilterCondition(g), x) = "true" => Detail!Passes(g, x)
           /\ Detail!Passes(g, x) /\ (g.type = "not in" => None \notin g.value)
                => Detail!Truth(FilterCondition(g), x) = "true"
<1> DEFINE c == FilterCondition(g)
<1>1. c.op = Detail!Op(g.type) /\ c.value = g.value
  BY DEF FilterCondition
<1> HIDE DEF c
<1>2. g.value \in SUBSET Detail!Cell
  BY FilterTypes
<1>3. CASE g.type = "one of"
  <2>1. c.op = "in"
    BY <1>1, <1>3 DEF Detail!Op
  <2>2. Detail!Truth(c, x) = Detail!In3(x, g.value)
    BY <1>1, <2>1 DEF Detail!Truth
  <2>3. QED
    BY <1>2, <1>3, <2>2, ListsHold DEF Detail!Passes, c
<1>4. CASE g.type = "not in"
  <2>1. c.op = "not_in"
    BY <1>1, <1>4 DEF Detail!Op
  <2>2. Detail!Truth(c, x) = Detail!Not3(Detail!In3(x, g.value))
    BY <1>1, <2>1 DEF Detail!Truth
  <2>3. Detail!Truth(c, x) = "true" <=> Detail!In3(x, g.value) = "false"
    BY <2>2 DEF Detail!Not3
  <2>4. QED
    BY <1>2, <1>4, <2>3, ListsHold DEF Detail!Passes, c
<1>5. CASE g.type = "range"
  <2>1. c.op = "between"
    BY <1>1, <1>5 DEF Detail!Op
  <2>2. Detail!Truth(c, x) = "true" <=> x # None /\ x \in g.value
    BY <1>1, <2>1 DEF Detail!Truth
  <2>3. QED
    BY <1>5, <2>2 DEF Detail!Passes, c
<1>6. QED
  BY <1>3, <1>4, <1>5, FilterTypes

\* The rows that the conditions of a point select.
LEMMA PointTypes ==
    ASSUME NEW point \in Detail!Points, NEW f \in DOMAIN point
    PROVE  point[f] \in Detail!Cell
<1>1. PICK D \in {E \in SUBSET (Base \cup Computed) : Detail!Cardinality(E) <= 2} : point \in [D -> Detail!Cell]
  BY DEF Detail!Points
<1>2. QED
  BY <1>1

IsOfThePoint(r, point, filter, known) ==
    /\ \A f \in DOMAIN point \cap known : r[f] = point[f]
    /\ filter # None /\ filter.fid \in known => Detail!Passes(filter, r[filter.fid])

LEMMA SelectedAreOfThePoint ==
    ASSUME NEW point \in Detail!Points, NEW filter \in Detail!Filters \cup {None}, NEW fields \in SUBSET Base,
           NEW config \in SUBSET Base, NEW r \in Detail!Detail
    PROVE  LET rows == Detail!Selected(Detail!Where(Detail!Conditions(point, filter, fields), config))
           IN  /\ r \in rows => IsOfThePoint(r, point, filter, config \cap fields)
               /\ IsOfThePoint(r, point, filter, config \cap fields)
                    /\ (filter # None /\ filter.type = "not in" => None \notin filter.value)
                    => r \in rows
<1> DEFINE where == Detail!Where(Detail!Conditions(point, filter, fields), config)
           ofRow == {[fid |-> f, op |-> "eq", value |-> {point[f]}] : f \in DOMAIN point \cap (config \cap fields)}
           filters == {g \in {filter} \ {None} : g.fid \in config \cap fields /\ g.type # "other" /\ g.value # {}}
           ofFilter == {FilterCondition(g) : g \in filters}
<1>1. \A f \in Base : r[f] \in Detail!Cell
  BY DEF Detail!Detail
<1>2. where = ofRow \cup ofFilter
  <2>1. \A g \in Detail!Filters : g.type # "other" => Detail!Op(g.type) # "eq"
    BY FilterTypes DEF Detail!Op
  <2>2. \A g \in {filter} \ {None} : g \in Detail!Filters
    OBVIOUS
  <2>3. ASSUME NEW c \in where PROVE c \in ofRow \cup ofFilter
    <3>1. c \in Detail!Conditions(point, filter, fields) /\ c.fid \in config /\ Detail!Usable(c)
      BY <2>3 DEF Detail!Where
    <3>2. CASE \E f \in DOMAIN point \cap fields : c = [fid |-> f, op |-> "eq", value |-> {point[f]}]
      <4>1. PICK f \in DOMAIN point \cap fields : c = [fid |-> f, op |-> "eq", value |-> {point[f]}]
        BY <3>2
      <4>2. c.fid = f
        BY <4>1
      <4>3. QED
        BY <3>1, <4>1, <4>2
    <3>3. CASE \E g \in {filter} \ {None} : g.fid \in fields /\ g.type # "other" /\ c = FilterCondition(g)
      <4>1. PICK g \in {filter} \ {None} : g.fid \in fields /\ g.type # "other" /\ c = FilterCondition(g)
        BY <3>3
      <4>2. c.fid = g.fid /\ c.op = Detail!Op(g.type) /\ c.value = g.value
        BY <4>1 DEF FilterCondition
      <4>3. g.value # {} /\ g.fid \in config
        BY <2>1, <2>2, <3>1, <4>1, <4>2 DEF Detail!Usable
      <4>4. g \in filters
        BY <4>1, <4>3
      <4>5. QED
        BY <4>1, <4>4
    <3>4. QED
      BY <3>1, <3>2, <3>3 DEF Detail!Conditions, FilterCondition
  <2>4. ASSUME NEW f \in DOMAIN point \cap (config \cap fields)
        PROVE  [fid |-> f, op |-> "eq", value |-> {point[f]}] \in where
    BY DEF Detail!Where, Detail!Conditions, Detail!Usable
  <2>5. ASSUME NEW g \in filters PROVE FilterCondition(g) \in where
    <3>1. FilterCondition(g) \in Detail!Conditions(point, filter, fields)
      BY <2>5 DEF Detail!Conditions, FilterCondition
    <3>2. FilterCondition(g).fid = g.fid /\ FilterCondition(g).value = g.value
      BY DEF FilterCondition
    <3>3. Detail!Usable(FilterCondition(g))
      BY <2>5, <3>2 DEF Detail!Usable
    <3>4. QED
      BY <2>5, <3>1, <3>2, <3>3 DEF Detail!Where
  <2>6. QED
    BY <2>3, <2>4, <2>5
<1>3. r \in Detail!Selected(where)
        <=> /\ \A f \in DOMAIN point \cap (config \cap fields) : r[f] = point[f]
            /\ \A g \in filters : Detail!Truth(FilterCondition(g), r[g.fid]) = "true"
  <2>1. r \in Detail!Selected(where) <=> \A c \in where : Detail!Truth(c, r[c.fid]) = "true"
    BY DEF Detail!Selected
  <2>2. (\A c \in ofRow : Detail!Truth(c, r[c.fid]) = "true")
          <=> \A f \in DOMAIN point \cap (config \cap fields) : r[f] = point[f]
    <3>1. ASSUME NEW f \in DOMAIN point \cap (config \cap fields),
                 NEW c, c = [fid |-> f, op |-> "eq", value |-> {point[f]}]
          PROVE  c \in ofRow /\ (Detail!Truth(c, r[c.fid]) = "true" <=> r[f] = point[f])
      <4>1. point[f] \in Detail!Cell /\ r[f] \in Detail!Cell
        BY <1>1, PointTypes
      <4>2. c.fid = f /\ c.op = "eq" /\ c.value = {point[f]} /\ c \in ofRow
        BY <3>1
      <4>3. Detail!Truth(c, r[f]) = "true" <=> r[f] = point[f]
        BY <4>1, <4>2, EqualsTheDimension
      <4>4. QED
        BY <4>2, <4>3
    <3>2. \A c \in ofRow : \E f \in DOMAIN point \cap (config \cap fields) :
            c = [fid |-> f, op |-> "eq", value |-> {point[f]}]
      OBVIOUS
    <3> HIDE DEF ofRow
    <3>3. QED
      BY <3>1, <3>2
  <2>3. (\A c \in ofFilter : Detail!Truth(c, r[c.fid]) = "true")
          <=> \A g \in filters : Detail!Truth(FilterCondition(g), r[g.fid]) = "true"
    BY DEF FilterCondition
  <2> HIDE DEF where, ofRow, ofFilter
  <2>4. QED
    BY <1>2, <2>1, <2>2, <2>3
<1>4. ASSUME NEW g \in filters
      PROVE  /\ g = filter /\ filter # None /\ filter.fid \in config \cap fields
             /\ Detail!Truth(FilterCondition(g), r[g.fid]) = "true" => Detail!Passes(g, r[g.fid])
             /\ Detail!Passes(g, r[g.fid]) /\ (g.type = "not in" => None \notin g.value)
                  => Detail!Truth(FilterCondition(g), r[g.fid]) = "true"
  <2>1. g = filter /\ g \in Detail!Filters /\ g.type # "other" /\ g.value # {} /\ r[g.fid] \in Detail!Cell
          /\ filter # None /\ filter.fid \in config \cap fields
    BY <1>1, <1>4
  <2>2. QED
    BY <2>1, FilterConditionHolds
<1>5. ASSUME r \in Detail!Selected(where) PROVE IsOfThePoint(r, point, filter, config \cap fields)
  <2>1. ASSUME filter # None, filter.fid \in config \cap fields PROVE Detail!Passes(filter, r[filter.fid])
    <3>1. CASE filter \in filters
      BY <1>3, <1>4, <1>5, <3>1
    <3>2. CASE filter \notin filters
      <4>1. filter.type = "other" \/ filter.value = {}
        BY <2>1, <3>2
      <4>2. QED
        BY <4>1 DEF Detail!Passes
    <3>3. QED
      BY <3>1, <3>2
  <2>2. QED
    BY <1>3, <1>5, <2>1 DEF IsOfThePoint
<1>6. ASSUME IsOfThePoint(r, point, filter, config \cap fields),
             filter # None /\ filter.type = "not in" => None \notin filter.value
      PROVE  r \in Detail!Selected(where)
  <2>1. \A g \in filters : Detail!Truth(FilterCondition(g), r[g.fid]) = "true"
    BY <1>4, <1>6 DEF IsOfThePoint
  <2>2. QED
    BY <1>3, <1>6, <2>1 DEF IsOfThePoint
<1>7. QED
  BY <1>5, <1>6

LEMMA InitDrillInv == Detail!Init => DrillInv
<1>1. ASSUME Detail!Init PROVE DrillInv
  <2>1. file = [k \in Sources |-> None] /\ kept = file /\ saving = None /\ ask.pc = "idle"
    BY <1>1 DEF Detail!Init, Detail!NoAsk
  <2>2. file \in Detail!Settings
    BY <2>1 DEF Detail!Settings
  <2>3. QED
    BY <2>1, <2>2 DEF DrillInv, FileInv, AskInv
<1>2. QED
  BY <1>1

LEMMA NeverTorn == file \in Detail!Settings => Detail!Read = file /\ Detail!Read \in Detail!Settings
  BY ConfiguredAssumption DEF ConfiguredAssumption, Detail!DrillAssumption, Detail!Read

LEMMA SaveKeepsDrillInv ==
    ASSUME DrillInv, Detail!Save
    PROVE  DrillInv'
<1>1. PICK k \in Sources, c \in Detail!Configs \cup {None} :
        saving' = [source |-> k, data |-> [Detail!Read EXCEPT ![k] = c]]
  BY DEF Detail!Save
<1>2. UNCHANGED <<file, kept, ask>>
  BY DEF Detail!Save
<1> DEFINE d == [Detail!Read EXCEPT ![k] = c]
<1>3. d \in Detail!Settings
  BY NeverTorn DEF DrillInv, FileInv, Detail!Settings
<1>4. saving'.data = d
  BY <1>1
<1> HIDE DEF d
<1>5. QED
  BY <1>2, <1>3, <1>4 DEF DrillInv, FileInv, AskInv

LEMMA AskKeepsDrillInv ==
    ASSUME DrillInv, Detail!Ask
    PROVE  DrillInv'
<1>1. PICK k \in Sources, point \in Detail!Points, filter \in Detail!Filters \cup {None} :
        /\ Detail!Read[k] # None
        /\ ask' = [pc |-> "asked", config |-> Detail!Read[k], row |-> point, filter |-> filter]
  BY DEF Detail!Ask
<1>2. UNCHANGED <<file, saving, kept>>
  BY DEF Detail!Ask
<1>3. Detail!Read[k] \in Detail!Configs
  BY <1>1, NeverTorn DEF DrillInv, FileInv, Detail!Settings
<1>4. ask'.pc = "asked" /\ ask'.config = Detail!Read[k] /\ ask'.row = point /\ ask'.filter = filter
  BY <1>1
<1>5. QED
  BY <1>2, <1>3, <1>4 DEF DrillInv, FileInv, AskInv

LEMMA AnswerKeepsDrillInv ==
    ASSUME DrillInv, Detail!Answer
    PROVE  DrillInv'
<1>1. PICK fields \in {Base} \cup {Base \ {f} : f \in Base} :
        LET conds == Detail!Conditions(ask.row, ask.filter, fields)
            where == Detail!Where(conds, ask.config)
            selected == IF where = {} THEN {} ELSE Detail!Selected(where)
        IN  \E rows \in Detail!Panel(selected) : ask' = [pc |-> IF where = {} THEN "refused" ELSE "answered",
                    config |-> ask.config, row |-> ask.row, filter |-> ask.filter, fields |-> fields,
                    applied |-> {c.fid : c \in where}, unmapped |-> Detail!Unmapped(conds, ask.config),
                    rows |-> rows, truncated |-> ~Detail!Fits(selected)]
  BY DEF Detail!Answer
<1> DEFINE where == Detail!Where(Detail!Conditions(ask.row, ask.filter, fields), ask.config)
<1> DEFINE selected == IF where = {} THEN {} ELSE Detail!Selected(where)
<1>2. PICK rows \in Detail!Panel(selected) :
        /\ ask'.pc = IF where = {} THEN "refused" ELSE "answered"
        /\ ask'.config = ask.config /\ ask'.row = ask.row /\ ask'.filter = ask.filter /\ ask'.fields = fields
        /\ ask'.rows = rows /\ ask'.truncated = ~Detail!Fits(selected)
  BY <1>1
<1>a. /\ rows \subseteq selected
      /\ ~ask'.truncated => rows = selected
      /\ ask'.truncated => Detail!Cardinality(rows) = DetailRows
  BY <1>2 DEF Detail!Panel
<1>3. fields \subseteq Base
  OBVIOUS
<1>4. ask.pc = "asked" /\ UNCHANGED <<file, saving, kept>>
  BY DEF Detail!Answer
<1>5. ask'.pc = "answered" => Shows(ask', Detail!Selected(where))
  BY <1>2, <1>a DEF Shows
<1>6. ask'.pc \in {"answered", "refused"}
  BY <1>2
<1>7. ask'.pc = "answered" =>
        Shows(ask', Detail!Selected(Detail!Where(Detail!Conditions(ask'.row, ask'.filter, ask'.fields), ask'.config)))
  BY <1>2, <1>5
<1>8. AskInv'
  BY <1>2, <1>3, <1>4, <1>6, <1>7 DEF DrillInv, AskInv
<1>9. QED
  BY <1>4, <1>8 DEF DrillInv, FileInv

LEMMA StepDrillInv ==
    ASSUME DrillInv, [Detail!Next]_drillVars
    PROVE  DrillInv'
<1>1. CASE Detail!WriteTmp
  BY <1>1 DEF Detail!WriteTmp, Detail!Write, DrillInv, FileInv, AskInv
<1>2. CASE Detail!Replace
  BY <1>2 DEF Detail!Replace, DrillInv, FileInv, AskInv
<1>3. CASE Detail!Crash
  <2>1. saving' = None /\ ask'.pc = "idle" /\ UNCHANGED <<file, kept>>
    BY <1>3 DEF Detail!Crash, Detail!NoAsk
  <2>2. QED
    BY <2>1 DEF DrillInv, FileInv, AskInv
<1>4. CASE Detail!Close
  <2>1. ask'.pc = "idle" /\ UNCHANGED <<file, kept, saving>>
    BY <1>4 DEF Detail!Close, Detail!NoAsk
  <2>2. QED
    BY <2>1 DEF DrillInv, FileInv, AskInv
<1>5. CASE Detail!Rest \/ UNCHANGED drillVars
  BY <1>5 DEF Detail!Rest, Detail!vars, drillVars, DrillInv, FileInv, AskInv
<1>6. QED
  BY <1>1, <1>2, <1>3, <1>4, <1>5, SaveKeepsDrillInv, AskKeepsDrillInv, AnswerKeepsDrillInv DEF Detail!Next

LEMMA DrillInvDrills == DrillInv => DrillsToThePoint
<1> SUFFICES ASSUME DrillInv PROVE DrillsToThePoint
  OBVIOUS
<1>1. Detail!SettingsKept
  BY NeverTorn DEF DrillInv, FileInv, Detail!SettingsKept
<1>2. ASSUME ask.pc = "answered", NEW r \in Detail!Detail
      PROVE  /\ r \in ask.rows => Detail!OfThePoint(r)
             /\ ~ask.truncated /\ Detail!OfThePoint(r)
                  /\ (ask.filter # None /\ ask.filter.type = "not in" => None \notin ask.filter.value)
                  => r \in ask.rows
  <2> DEFINE rows == Detail!Selected(Detail!Where(Detail!Conditions(ask.row, ask.filter, ask.fields), ask.config))
  <2>1. /\ ask.config \in SUBSET Base /\ ask.row \in Detail!Points /\ ask.filter \in Detail!Filters \cup {None}
        /\ ask.fields \in SUBSET Base /\ ask.rows \subseteq rows /\ (~ask.truncated => ask.rows = rows)
    BY <1>2 DEF DrillInv, AskInv, Shows, Detail!Configs
  <2>2. Detail!OfThePoint(r) <=> IsOfThePoint(r, ask.row, ask.filter, ask.config \cap ask.fields)
    BY DEF Detail!OfThePoint, Detail!Known, IsOfThePoint
  <2>3. /\ r \in rows => IsOfThePoint(r, ask.row, ask.filter, ask.config \cap ask.fields)
        /\ IsOfThePoint(r, ask.row, ask.filter, ask.config \cap ask.fields)
             /\ (ask.filter # None /\ ask.filter.type = "not in" => None \notin ask.filter.value)
             => r \in rows
    BY <2>1, SelectedAreOfThePoint
  <2> HIDE DEF rows
  <2>4. QED
    BY <2>1, <2>2, <2>3
<1>3. ask.pc = "answered" => ask.rows \subseteq Detail!Detail
  BY DEF DrillInv, AskInv, Shows, Detail!Selected
<1>4. ask.pc = "answered" /\ ask.truncated => Detail!Cardinality(ask.rows) = DetailRows
  BY DEF DrillInv, AskInv, Shows
<1>6. Detail!NothingBesides /\ Detail!NothingMissing
  BY <1>2, <1>3, <1>4 DEF Detail!NothingBesides, Detail!NothingMissing
<1>5. QED
  BY <1>1, <1>6 DEF DrillsToThePoint
-----------------------------------------------------------------------------
(* AgentProviders: the table of providers on SQLite. *)

AgentShapes ==
    /\ used \subseteq Ids /\ Agents!Existing \subseteq used
    /\ table \in [Agents!Existing -> BOOLEAN]
    /\ client \in [Clients -> {"idle", "read", "sent", "frozen"}]
    /\ change \in [Clients -> [op : {"none", "create", "activate", "update"}, id : Ids \cup {None},
                               activate : BOOLEAN, seen : SUBSET Ids, was : BOOLEAN]]
    /\ frozen \in [Clients -> SUBSET Ids]

\* Who waits for its commit has deactivated all rows there are, and is alone with that.
OneWriter ==
    /\ \A k \in Clients : frozen[k] = IF client[k] = "frozen" THEN Agents!Existing ELSE {}
    /\ \A k, m \in Clients : client[k] = "frozen" /\ client[m] = "frozen" => k = m
    /\ \A k \in Clients : change[k].op = "activate" => change[k].activate

AgentsInv == AgentShapes /\ OneWriter /\ Agents!OneActive


LEMMA InitAgentsInv == Agents!Init => AgentsInv
<1>1. ASSUME Agents!Init PROVE AgentsInv
  <2>1. /\ table = [i \in {} |-> TRUE] /\ used = {} /\ client = [k \in Clients |-> "idle"]
        /\ change = [k \in Clients |-> Agents!Fresh] /\ frozen = [k \in Clients |-> {}]
    BY <1>1 DEF Agents!Init
  <2>2. Agents!Existing = {}
    BY <2>1 DEF Agents!Existing
  <2>3. AgentShapes
    BY <2>1, <2>2 DEF AgentShapes, Agents!Fresh, Agents!Existing
  <2>4. OneWriter
    BY <2>1 DEF OneWriter, Agents!Fresh
  <2>5. Agents!OneActive
    BY <2>1, <2>2 DEF Agents!OneActive, Agents!Active, Agents!Existing
  <2>6. QED
    BY <2>3, <2>4, <2>5 DEF AgentsInv
<1>2. QED
  BY <1>1

Change == [op : {"none", "create", "activate", "update"}, id : Ids \cup {None},
           activate : BOOLEAN, seen : SUBSET Ids, was : BOOLEAN]

LEMMA FreshChange == Agents!Fresh \in Change
  BY DEF Agents!Fresh, Change

\* A request that holds no rows moves on, and the table stays.
LEMMA AgentGoesOn ==
    ASSUME AgentsInv, NEW k \in Clients, client[k] # "frozen", NEW to \in {"idle", "read", "sent"}, NEW x \in Change,
           client' = [client EXCEPT ![k] = to], change' = [change EXCEPT ![k] = x], UNCHANGED <<table, used, frozen>>,
           x.op = "activate" => x.activate
    PROVE  AgentsInv'
<1>1. AgentShapes /\ OneWriter /\ Agents!OneActive
  BY DEF AgentsInv
<1>2. /\ client'[k] = to /\ change'[k] = x
      /\ \A m \in Clients \ {k} : client'[m] = client[m] /\ change'[m] = change[m]
      /\ client' \in [Clients -> {"idle", "read", "sent", "frozen"}] /\ change' \in [Clients -> Change]
  BY <1>1 DEF AgentShapes, Change
<1>3. AgentShapes'
  BY <1>1, <1>2 DEF AgentShapes, Change, Agents!Existing
<1>4. OneWriter'
  BY <1>1, <1>2 DEF OneWriter, Agents!Existing
<1>5. Agents!OneActive'
  BY <1>1 DEF Agents!OneActive, Agents!Active
<1>6. QED
  BY <1>3, <1>4, <1>5 DEF AgentsInv

\* A request ends, and leaves the table as given; the other ones wait for no rows of theirs.
LEMMA AgentEnds ==
    ASSUME AgentsInv, NEW k \in Clients, Agents!Ends(k), used \subseteq used', used' \subseteq Ids,
           Agents!Existing' \subseteq used', table' \in [Agents!Existing' -> BOOLEAN], Agents!OneActive',
           UNCHANGED table \/ \A m \in Clients \ {k} : client[m] # "frozen"
    PROVE  AgentsInv'
<1>1. AgentShapes /\ OneWriter
  BY DEF AgentsInv
<1>2. /\ client' = [client EXCEPT ![k] = "idle"] /\ change' = [change EXCEPT ![k] = Agents!Fresh]
      /\ frozen' = [frozen EXCEPT ![k] = {}]
  BY DEF Agents!Ends
<1>3. Agents!Fresh \in Change /\ Agents!Fresh.op = "none"
  BY DEF Agents!Fresh, Change
<1>4. /\ client'[k] = "idle" /\ change'[k] = Agents!Fresh /\ frozen'[k] = {}
      /\ \A m \in Clients \ {k} : client'[m] = client[m] /\ change'[m] = change[m] /\ frozen'[m] = frozen[m]
      /\ client' \in [Clients -> {"idle", "read", "sent", "frozen"}] /\ change' \in [Clients -> Change]
      /\ frozen' \in [Clients -> SUBSET Ids]
  BY <1>1, <1>2, <1>3 DEF AgentShapes, Change
<1>5. AgentShapes'
  BY <1>4 DEF AgentShapes, Change
<1>6. OneWriter'
  <2>1. \A m \in Clients : frozen'[m] = IF client'[m] = "frozen" THEN Agents!Existing' ELSE {}
    <3>1. CASE UNCHANGED table
      BY <1>1, <1>4, <3>1 DEF OneWriter, Agents!Existing
    <3>2. CASE \A m \in Clients \ {k} : client[m] # "frozen"
      BY <1>1, <1>4, <3>2 DEF OneWriter
    <3>3. QED
      BY <3>1, <3>2
  <2>2. QED
    BY <1>1, <1>3, <1>4, <2>1 DEF OneWriter
<1>7. QED
  BY <1>5, <1>6 DEF AgentsInv

LEMMA BeginningKeepsAgentsInv ==
    ASSUME AgentsInv, NEW k \in Clients, Agents!List(k) \/ Agents!Get(k)
    PROVE  AgentsInv'
<1>1. CASE Agents!List(k)
  <2>1. PICK wanted \in BOOLEAN :
          change' = [change EXCEPT ![k] = [Agents!Fresh EXCEPT !.op = "create", !.activate = wanted \/ Agents!Existing = {}]]
    BY <1>1 DEF Agents!List
  <2>2. client[k] = "idle" /\ client' = [client EXCEPT ![k] = "read"] /\ UNCHANGED <<table, used, frozen>>
    BY <1>1 DEF Agents!List, Agents!Begins, Agents!Goes
  <2> DEFINE a == wanted \/ Agents!Existing = {}
             x == [Agents!Fresh EXCEPT !.op = "create", !.activate = a]
  <2>3. a \in BOOLEAN /\ change' = [change EXCEPT ![k] = x]
    BY <2>1
  <2> HIDE DEF a
  <2>4. x \in Change /\ x.op = "create"
    BY <2>3, FreshChange DEF Change
  <2> HIDE DEF x
  <2>5. QED
    BY <2>2, <2>3, <2>4, AgentGoesOn
<1>2. CASE Agents!Get(k)
  <2>1. PICK i \in Agents!Existing, op \in {"activate", "update"} :
          change' = [change EXCEPT ![k] = [Agents!Fresh EXCEPT !.op = op, !.id = i, !.activate = op = "activate",
                                                               !.was = table[i]]]
    BY <1>2 DEF Agents!Get
  <2>2. client[k] = "idle" /\ client' = [client EXCEPT ![k] = "read"] /\ UNCHANGED <<table, used, frozen>>
    BY <1>2 DEF Agents!Get, Agents!Begins, Agents!Goes
  <2> DEFINE a == op = "activate"
             was == table[i]
             x == [Agents!Fresh EXCEPT !.op = op, !.id = i, !.activate = a, !.was = was]
  <2>3. /\ a \in BOOLEAN /\ was \in BOOLEAN /\ i \in Ids /\ (op = "activate" => a)
        /\ change' = [change EXCEPT ![k] = x]
    BY <2>1 DEF AgentsInv, AgentShapes
  <2> HIDE DEF a, was
  <2>4. x \in Change /\ (x.op = "activate" => x.activate)
    BY <2>3, FreshChange DEF Change
  <2> HIDE DEF x
  <2>5. QED
    BY <2>2, <2>3, <2>4, AgentGoesOn
<1>3. QED
  BY <1>1, <1>2

LEMMA SendingKeepsAgentsInv ==
    ASSUME AgentsInv, NEW k \in Clients, Agents!SendUpdate(k)
    PROVE  AgentsInv'
<1>1. /\ client[k] = "read" /\ client' = [client EXCEPT ![k] = "sent"] /\ UNCHANGED <<table, used, frozen>>
      /\ change' = [change EXCEPT ![k].seen = Agents!Existing] /\ change[k].activate
  BY DEF Agents!SendUpdate, Agents!Goes
<1>2. change \in [Clients -> Change] /\ Agents!Existing \in SUBSET Ids
  BY DEF AgentsInv, AgentShapes, Change
<1> DEFINE x == [change[k] EXCEPT !.seen = Agents!Existing]
<1>3. x \in Change /\ x.activate = change[k].activate
  BY <1>2 DEF Change
<1>4. change' = [change EXCEPT ![k] = x]
  BY <1>1, <1>2
<1> HIDE DEF x
<1>5. QED
  BY <1>1, <1>3, <1>4, AgentGoesOn

\* SQLite: where one writes, no other one writes or commits.
LEMMA FreeIsAlone ==
    ASSUME SingleWriter, NEW k \in Clients, NEW rows, Agents!Free(k, rows)
    PROVE  \A m \in Clients \ {k} : client[m] # "frozen"
  BY DEF Agents!Free, Agents!Writers

LEMMA DeactivatingKeepsAgentsInv ==
    ASSUME SingleWriter, AgentsInv, NEW k \in Clients, Agents!Deactivate(k)
    PROVE  AgentsInv'
<1>1. /\ client[k] = "sent" /\ client' = [client EXCEPT ![k] = "frozen"] /\ UNCHANGED <<table, used, change>>
      /\ frozen' = [frozen EXCEPT ![k] = Agents!Existing]
      /\ \A m \in Clients \ {k} : client[m] # "frozen"
  BY FreeIsAlone DEF Agents!Deactivate, Agents!Goes
<1>2. AgentShapes /\ OneWriter /\ Agents!OneActive
  BY DEF AgentsInv
<1>3. Agents!Existing' = Agents!Existing /\ Agents!Existing \in SUBSET Ids
  BY <1>1, <1>2 DEF Agents!Existing, AgentShapes
<1>4. AgentShapes'
  BY <1>1, <1>2, <1>3 DEF AgentShapes
<1>5. /\ client'[k] = "frozen" /\ frozen'[k] = Agents!Existing
      /\ \A m \in Clients \ {k} : client'[m] = client[m] /\ frozen'[m] = frozen[m]
  BY <1>1, <1>2 DEF AgentShapes
<1>6. OneWriter'
  BY <1>1, <1>2, <1>3, <1>5 DEF OneWriter
<1>7. Agents!OneActive'
  BY <1>1, <1>2 DEF Agents!OneActive, Agents!Active
<1>8. QED
  BY <1>4, <1>6, <1>7 DEF AgentsInv

\* The rows as the commit of a request leaves them.
LEMMA SettledRows ==
    ASSUME AgentsInv, NEW k \in Clients, NEW own, NEW value \in BOOLEAN,
           client[k] = IF value THEN "frozen" ELSE "read", own \in Agents!Existing => value
    PROVE  LET rows == Agents!Existing \cup {own}
               t == Agents!Settled(k, rows, own, value)
           IN  /\ t \in [rows -> BOOLEAN] /\ \A i \in rows \ {own} : t[i] = (table[i] /\ ~value)
               /\ t[own] = value
<1> DEFINE rows == Agents!Existing \cup {own}
           t == Agents!Settled(k, rows, own, value)
<1>1. AgentShapes /\ OneWriter
  BY DEF AgentsInv
<1>2. frozen[k] = IF value THEN Agents!Existing ELSE {}
  BY <1>1 DEF OneWriter
<1>3. t = [i \in rows |-> IF i = own THEN value ELSE IF i \in frozen[k] THEN FALSE ELSE table[i]]
  BY DEF Agents!Settled
<1>4. \A i \in Agents!Existing : table[i] \in BOOLEAN
  BY <1>1 DEF AgentShapes
<1>5. t \in [rows -> BOOLEAN]
  BY <1>3, <1>4
<1>6. t[own] = value
  BY <1>3
<1>7. ASSUME NEW i \in rows \ {own} PROVE t[i] = (table[i] /\ ~value)
  <2>1. t[i] = IF i \in frozen[k] THEN FALSE ELSE table[i]
    BY <1>3
  <2>2. CASE value
    BY <1>2, <1>7, <2>1, <2>2
  <2>3. CASE ~value
    BY <1>2, <1>4, <1>7, <2>1, <2>3
  <2>4. QED
    BY <2>2, <2>3
<1>8. QED
  BY <1>5, <1>6, <1>7

LEMMA OneStays ==
    ASSUME AgentsInv, NEW own, NEW value \in BOOLEAN,
           table' \in [Agents!Existing \cup {own} -> BOOLEAN], table'[own] = value,
           own \in Agents!Existing => value, \A i \in Agents!Existing \ {own} : table'[i] = (table[i] /\ ~value)
    PROVE  /\ Agents!OneActive' /\ Agents!Existing' = Agents!Existing \cup {own}
           /\ \A i \in Agents!Active(table) : Agents!Active(table') # {}
<1>1. table \in [Agents!Existing -> BOOLEAN] /\ Agents!OneActive
  BY DEF AgentsInv, AgentShapes
<1>2. Agents!Existing' = Agents!Existing \cup {own}
  BY DEF Agents!Existing
<1>3. CASE value
  <2>1. Agents!Active(table') = {own}
    BY <1>2, <1>3 DEF Agents!Active, Agents!Existing
  <2>2. QED
    BY <1>2, <2>1 DEF Agents!OneActive
<1>4. CASE ~value
  <2>1. own \notin Agents!Existing
    BY <1>4
  <2>2. Agents!Active(table') = Agents!Active(table)
    BY <1>1, <1>2, <1>4, <2>1 DEF Agents!Active, Agents!Existing
  <2>3. QED
    BY <1>1, <1>2, <2>2 DEF Agents!OneActive
<1>5. QED
  BY <1>3, <1>4

LEMMA CommitsKeepAgentsInv ==
    ASSUME SingleWriter, AgentsInv, NEW k \in Clients,
           Agents!CommitCreate(k) \/ Agents!CommitActivate(k)
    PROVE  /\ AgentsInv'
           /\ \A i \in Agents!Active(table) : Agents!Active(table') # {}
<1>1. AgentShapes /\ OneWriter
  BY DEF AgentsInv
<1>2. CASE Agents!CommitCreate(k)
  <2>1. PICK i \in Ids \ used :
          used' = used \cup {i} /\ table' = Agents!Settled(k, Agents!Existing \cup {i}, i, change[k].activate)
    BY <1>2 DEF Agents!CommitCreate
  <2> DEFINE value == change[k].activate
  <2>2. value \in BOOLEAN /\ client[k] = IF value THEN "frozen" ELSE "read"
    BY <1>1, <1>2 DEF AgentShapes, Agents!CommitCreate, Agents!Ready
  <2>3. i \notin Agents!Existing /\ table' = Agents!Settled(k, Agents!Existing \cup {i}, i, value)
    BY <1>1, <2>1 DEF AgentShapes
  <2> HIDE DEF value
  <2>4. /\ table' \in [Agents!Existing \cup {i} -> BOOLEAN] /\ table'[i] = value
        /\ \A j \in Agents!Existing \ {i} : table'[j] = (table[j] /\ ~value)
    BY <2>2, <2>3, SettledRows
  <2>5. /\ Agents!OneActive' /\ Agents!Existing' = Agents!Existing \cup {i}
        /\ \A j \in Agents!Active(table) : Agents!Active(table') # {}
    BY <2>2, <2>3, <2>4, OneStays
  <2>6. \A m \in Clients \ {k} : client[m] # "frozen"
    BY <1>2, FreeIsAlone DEF Agents!CommitCreate
  <2>7. Agents!Ends(k)
    BY <1>2 DEF Agents!CommitCreate
  <2>8. /\ used' \subseteq Ids /\ used \subseteq used' /\ Agents!Existing' \subseteq used'
        /\ table' \in [Agents!Existing' -> BOOLEAN]
    BY <1>1, <2>1, <2>4, <2>5 DEF AgentShapes
  <2>9. QED
    BY <2>5, <2>6, <2>7, <2>8, AgentEnds
<1>3. CASE Agents!CommitActivate(k)
  <2> DEFINE i == change[k].id
  <2>1. /\ i \in Agents!Existing /\ table' = Agents!Settled(k, Agents!Existing, i, TRUE) /\ Agents!Ends(k)
        /\ UNCHANGED used /\ client[k] = "frozen"
    BY <1>1, <1>3 DEF Agents!CommitActivate, Agents!Ready, OneWriter
  <2> HIDE DEF i
  <2>2. Agents!Existing \cup {i} = Agents!Existing
    BY <2>1
  <2>3. table' = Agents!Settled(k, Agents!Existing \cup {i}, i, TRUE)
    BY <2>1, <2>2
  <2> DEFINE value == TRUE
  <2>4. /\ value \in BOOLEAN /\ value /\ table' = Agents!Settled(k, Agents!Existing \cup {i}, i, value)
        /\ client[k] = IF value THEN "frozen" ELSE "read"
        /\ i \in Agents!Existing => value
    BY <2>1, <2>3
  <2> HIDE DEF value
  <2>5. /\ table' \in [Agents!Existing \cup {i} -> BOOLEAN] /\ table'[i] = value
        /\ \A j \in Agents!Existing \ {i} : table'[j] = (table[j] /\ ~value)
    BY <2>4, SettledRows
  <2>6. /\ Agents!OneActive' /\ Agents!Existing' = Agents!Existing \cup {i}
        /\ \A j \in Agents!Active(table) : Agents!Active(table') # {}
    BY <2>4, <2>5, OneStays
  <2>7. \A m \in Clients \ {k} : client[m] # "frozen"
    BY <1>1, <2>1 DEF OneWriter
  <2>8. /\ used' \subseteq Ids /\ used \subseteq used' /\ Agents!Existing' \subseteq used'
        /\ table' \in [Agents!Existing' -> BOOLEAN]
    BY <1>1, <2>1, <2>2, <2>5, <2>6 DEF AgentShapes
  <2>9. QED
    BY <2>1, <2>6, <2>7, <2>8, AgentEnds
<1>4. QED
  BY <1>2, <1>3

LEMMA OthersKeepAgentsInv ==
    ASSUME SingleWriter, AgentsInv, NEW k \in Clients,
           Agents!CommitUpdate(k) \/ Agents!Rollback(k)
    PROVE  AgentsInv' /\ UNCHANGED table
<1>1. AgentShapes /\ Agents!OneActive
  BY DEF AgentsInv
<1>2. table' = table /\ used' = used /\ Agents!Ends(k)
  <2>1. CASE Agents!CommitUpdate(k)
    BY <1>1, <2>1 DEF Agents!CommitUpdate, Agents!ActiveKept, AgentShapes
  <2>2. CASE Agents!Rollback(k)
    BY <2>2 DEF Agents!Rollback
  <2>3. QED
    BY <2>1, <2>2
<1>3. /\ used \subseteq used' /\ used' \subseteq Ids /\ Agents!Existing' \subseteq used'
      /\ table' \in [Agents!Existing' -> BOOLEAN] /\ Agents!OneActive'
  BY <1>1, <1>2 DEF AgentShapes, Agents!OneActive, Agents!Active, Agents!Existing
<1>4. QED
  BY <1>2, <1>3, AgentEnds

LEMMA DeletionKeepsAgentsInv ==
    ASSUME SingleWriter, AgentsInv, NEW k \in Clients, Agents!Delete(k)
    PROVE  /\ AgentsInv'
           /\ \A i \in Agents!Active(table) : Agents!Active(table') = {} => i \notin DOMAIN table'
<1>1. AgentShapes /\ OneWriter /\ Agents!OneActive
  BY DEF AgentsInv
<1>2. PICK i \in Agents!Existing : Agents!Free(k, {i}) /\ table' = [j \in Agents!Existing \ {i} |-> table[j]]
  BY DEF Agents!Delete
<1>3. client[k] = "idle" /\ UNCHANGED <<used, client, change, frozen>>
  BY DEF Agents!Delete
<1>4. \A m \in Clients : client[m] # "frozen"
  BY <1>2, <1>3, FreeIsAlone
<1>5. /\ table' \in [Agents!Existing \ {i} -> BOOLEAN] /\ Agents!Existing' = Agents!Existing \ {i}
      /\ \A j \in Agents!Existing \ {i} : table'[j] = table[j]
  BY <1>1, <1>2 DEF AgentShapes, Agents!Existing
<1>6. AgentShapes'
  BY <1>1, <1>3, <1>5 DEF AgentShapes
<1>7. OneWriter'
  BY <1>1, <1>3, <1>4 DEF OneWriter
<1>8. Agents!OneActive' /\ \A j \in Agents!Active(table) : Agents!Active(table') = {} => j \notin DOMAIN table'
  BY <1>1, <1>5 DEF Agents!OneActive, Agents!Active, Agents!Existing
<1>9. QED
  BY <1>6, <1>7, <1>8 DEF AgentsInv

LEMMA StepAgentsInv ==
    ASSUME SingleWriter, AgentsInv, [Agents!Next]_agentVars
    PROVE  /\ AgentsInv'
           /\ \A i \in Agents!Active(table) : Agents!Active(table') = {} => i \notin DOMAIN table'
<1>1. UNCHANGED table => \A i \in Agents!Active(table) : Agents!Active(table') # {}
  BY DEF Agents!Active
<1>2. CASE Agents!Idle \/ UNCHANGED agentVars
  <2>1. UNCHANGED <<table, used, client, change, frozen>>
    BY <1>2 DEF Agents!Idle, Agents!vars, agentVars
  <2>2. AgentsInv'
    BY <2>1 DEF AgentsInv, AgentShapes, OneWriter, Agents!OneActive, Agents!Active, Agents!Existing
  <2>3. QED
    BY <1>1, <2>1, <2>2
<1>3. ASSUME NEW k \in Clients, Agents!List(k) \/ Agents!Get(k) \/ Agents!SendUpdate(k) \/ Agents!Deactivate(k)
      PROVE  AgentsInv' /\ UNCHANGED table
  BY <1>3, BeginningKeepsAgentsInv, SendingKeepsAgentsInv, DeactivatingKeepsAgentsInv
     DEF Agents!List, Agents!Get, Agents!SendUpdate, Agents!Deactivate
<1>4. QED
  BY <1>1, <1>2, <1>3, CommitsKeepAgentsInv, OthersKeepAgentsInv, DeletionKeepsAgentsInv DEF Agents!Next
-----------------------------------------------------------------------------
(* EngineRegistry: the engines of the plugins, and the nodes that run them. *)

LoadingShapes ==
    /\ ENGINES \in [Loading!Names -> Loading!Specs \cup {None}]
    /\ todo \subseteq Plugins /\ hook \in Plugins \cup {None}
    /\ calls \in Seq([engine : Loading!Names, by : Plugins, override : BOOLEAN])
    /\ infos \in Seq([name : Plugins, loaded : BOOLEAN])
    /\ loaded \in BOOLEAN /\ app \in {"starting", "loading", "up", "down"}

Overrides(e) == {i \in DOMAIN calls : calls[i].engine = e /\ calls[i].override}
Firsts(e) == {i \in DOMAIN calls : calls[i].engine = e /\ \A j \in 1..(i - 1) : calls[j].engine # e}

\* What the calls so far have made of an engine.
Won(e) ==
    IF Overrides(e) # {} THEN \E i \in Overrides(e) : /\ ENGINES[e] # None /\ ENGINES[e].by = calls[i].by
                                                      /\ \A j \in Overrides(e) : j <= i
    ELSE IF e = "pandas" THEN ENGINES[e] = Loading!Pandas
    ELSE IF \A i \in DOMAIN calls : calls[i].engine # e THEN ENGINES[e] = None
    ELSE \E i \in Firsts(e) : ENGINES[e] # None /\ ENGINES[e].by = calls[i].by

\* The plugins that are listed are those that had their turn, each once.
Listed ==
    /\ app \in {"loading", "up"} => loaded /\ {infos[i].name : i \in DOMAIN infos} = Plugins \ (todo \cup {hook})
    /\ app = "starting" => infos = <<>> /\ ~loaded
    /\ app # "loading" => hook = None
    /\ app = "up" => todo = {}
    /\ hook \notin todo
    /\ \A i, j \in DOMAIN infos : infos[i].name = infos[j].name => i = j

LoadingInv == LoadingShapes /\ (\A e \in Loading!Names : Won(e)) /\ Listed

RunningInv ==
    /\ ENGINES \in [Running!Names -> Running!Specs \cup {None}] /\ ENGINES["pandas"] # None
    /\ todo \subseteq NodePlugins /\ hook \in NodePlugins \cup {None}
    /\ node.end # "none" =>
         /\ node.spec \in Running!Specs /\ node.field \in Running!Fields
         /\ node.given = Running!Resolved(node.spec.param, IF node.spec.param.key = "core" THEN "text" ELSE node.field)
         /\ node.end = Running!End(node.spec, node.given, node.target)

RegistryInv ==
    /\ part = "loading" => LoadingInv
    /\ part = "running" => RunningInv
    /\ part # "running" => node.end = "none"

Call == [engine : Loading!Names, by : Plugins, override : BOOLEAN]
Info == [name : Plugins, loaded : BOOLEAN]

LEMMA NoneIsNoPlugin ==
    /\ None \notin Plugins /\ None \notin Loading!Specs /\ None \notin NodePlugins /\ None \notin Running!Specs
    /\ "builtin" \notin Plugins
  BY ConfiguredAssumption DEF ConfiguredAssumption, Loading!RegistryAssumption, Running!RegistryAssumption

LEMMA PandasIsSpec == Loading!Pandas \in Loading!Specs /\ Running!Pandas \in Running!Specs
  BY DEF Loading!Pandas, Loading!Specs, Loading!Owners, Loading!Params, Loading!NoParam,
         Running!Pandas, Running!Specs, Running!Owners, Running!Params, Running!NoParam

\* What plugins declare is a spec of theirs.
LEMMA DeclaredByLoading ==
    ASSUME NEW p \in Plugins, NEW spec \in Loading!Declared(p)
    PROVE  spec \in Loading!Specs /\ spec.by = p
<1> DEFINE S == [Loading!Pandas EXCEPT !.by = p]
<1>1. S \in Loading!Specs /\ S.by = p
  BY DEF Loading!Pandas, Loading!Specs, Loading!Owners, Loading!Params, Loading!NoParam
<1>2. \/ spec = S
      \/ spec \in {[S EXCEPT !.available = FALSE], [S EXCEPT !.output = "file"], [S EXCEPT !.target = TRUE]}
      \/ \E q \in Loading!Params : spec = [S EXCEPT !.param = q]
  BY DEF Loading!Declared
<1> HIDE DEF S
<1>3. QED
  BY <1>1, <1>2 DEF Loading!Specs

LEMMA DeclaredByRunning ==
    ASSUME NEW p \in NodePlugins, NEW spec \in Running!Declared(p)
    PROVE  spec \in Running!Specs
<1> DEFINE S == [Running!Pandas EXCEPT !.by = p]
<1>1. S \in Running!Specs
  BY DEF Running!Pandas, Running!Specs, Running!Owners, Running!Params, Running!NoParam
<1>2. \/ spec = S
      \/ spec \in {[S EXCEPT !.available = FALSE], [S EXCEPT !.output = "file"], [S EXCEPT !.target = TRUE]}
      \/ \E q \in Running!Params : spec = [S EXCEPT !.param = q]
  BY DEF Running!Declared
<1> HIDE DEF S
<1>3. QED
  BY <1>1, <1>2 DEF Running!Specs

LEMMA InitRegistryInv == ASSUME Loading!Init PROVE RegistryInv
<1>1. /\ ENGINES = [e \in Loading!Names |-> IF e = "pandas" THEN Loading!Pandas ELSE None]
      /\ loaded = FALSE /\ infos = <<>> /\ app = "starting" /\ todo = {} /\ hook = None /\ calls = <<>>
      /\ node.end = "none"
  BY DEF Loading!Init, Loading!NoNode
<1>2. Loading!Pandas = Running!Pandas /\ Loading!Names = Running!Names /\ "pandas" \in Loading!Names
  BY DEF Loading!Pandas, Running!Pandas, Loading!NoParam, Running!NoParam, Loading!Names, Running!Names
<1>3. LoadingShapes
  <2>1. <<>> \in Seq(Call) /\ <<>> \in Seq(Info)
    OBVIOUS
  <2>2. QED
    BY <1>1, <2>1, PandasIsSpec DEF LoadingShapes, Call, Info
<1>4. ASSUME NEW e \in Loading!Names PROVE Won(e)
  BY <1>1 DEF Won, Overrides, Firsts
<1>5. Listed
  BY <1>1 DEF Listed
<1>6. RunningInv
  BY <1>1, <1>2, PandasIsSpec, NoneIsNoPlugin DEF RunningInv
<1>7. QED
  BY <1>1, <1>3, <1>4, <1>5, <1>6 DEF RegistryInv, LoadingInv

\* A call more decides over its own engine only.
LEMMA CallsDecide ==
    ASSUME LoadingInv, hook \in Plugins, NEW c \in Call, c.by = hook, calls' = Append(calls, c),
           NEW spec \in Loading!Specs, spec.by = hook,
           ENGINES' = IF ENGINES[c.engine] # None /\ ~c.override THEN ENGINES ELSE [ENGINES EXCEPT ![c.engine] = spec]
    PROVE  /\ ENGINES' \in [Loading!Names -> Loading!Specs \cup {None}] /\ calls' \in Seq(Call)
           /\ \A e \in Loading!Names : Won(e)'
<1>1. calls \in Seq(Call) /\ ENGINES \in [Loading!Names -> Loading!Specs \cup {None}] /\ \A e \in Loading!Names : Won(e)
  BY DEF LoadingInv, LoadingShapes, Call
<1> DEFINE k == Len(calls) + 1
<1>2. /\ calls' \in Seq(Call) /\ DOMAIN calls' = 1..k /\ DOMAIN calls = 1..(k - 1) /\ k \in Nat /\ k >= 1
      /\ calls'[k] = c /\ \A i \in 1..(k - 1) : calls'[i] = calls[i]
  BY <1>1
<1> HIDE DEF k
<1>3. /\ ENGINES' \in [Loading!Names -> Loading!Specs \cup {None}]
      /\ \A e \in Loading!Names \ {c.engine} : ENGINES'[e] = ENGINES[e]
      /\ ENGINES'[c.engine] = IF ENGINES[c.engine] # None /\ ~c.override THEN ENGINES[c.engine] ELSE spec
      /\ c.engine \in Loading!Names /\ spec # None
  <2>1. c.engine \in Loading!Names /\ spec # None
    BY NoneIsNoPlugin DEF Call
  <2>2. CASE ENGINES[c.engine] # None /\ ~c.override
    BY <1>1, <2>1, <2>2
  <2>3. CASE ENGINES[c.engine] = None \/ c.override
    <3>1. ENGINES' = [ENGINES EXCEPT ![c.engine] = spec]
      BY <2>3
    <3>2. QED
      BY <1>1, <2>1, <2>3, <3>1
  <2>4. QED
    BY <2>2, <2>3
<1>4. ASSUME NEW e \in Loading!Names \ {c.engine} PROVE Won(e)'
  <2>1. Overrides(e)' = Overrides(e) /\ Firsts(e)' = Firsts(e)
    <3>1. \A i \in 1..k : calls'[i].engine = e => i \in 1..(k - 1)
      BY <1>2, <1>4
    <3>2. \A i \in 1..(k - 1) : (i - 1 < k - 1) /\ \A j \in 1..(i - 1) : j \in 1..(k - 1)
      BY <1>2
    <3>3. QED
      BY <1>2, <3>1, <3>2 DEF Overrides, Firsts
  <2>2. \A i \in Overrides(e) \cup Firsts(e) : calls'[i] = calls[i]
    BY <1>2 DEF Overrides, Firsts
  <2>3. ENGINES'[e] = ENGINES[e] /\ Won(e)
    BY <1>1, <1>3, <1>4
  <2>4. (\A i \in DOMAIN calls' : calls'[i].engine # e) <=> (\A i \in DOMAIN calls : calls[i].engine # e)
    <3>1. \A i \in 1..k : i = k \/ i \in 1..(k - 1)
      BY <1>2
    <3>2. \A i \in 1..(k - 1) : i \in 1..k
      BY <1>2
    <3>3. calls'[k].engine # e
      BY <1>2, <1>4
    <3>4. QED
      BY <1>2, <3>1, <3>2, <3>3
  <2>5. QED
    BY <2>1, <2>2, <2>3, <2>4 DEF Won
<1>5. ASSUME NEW e, e = c.engine PROVE Won(e)'
  <2>0. ENGINES'[e] = IF ENGINES[e] # None /\ ~c.override THEN ENGINES[e] ELSE spec
    BY <1>3, <1>5
  <2>1. Overrides(e)' = Overrides(e) \cup IF c.override THEN {k} ELSE {}
    BY <1>2, <1>5 DEF Overrides
  <2>2. \A i \in Overrides(e) \cup Firsts(e) : calls'[i] = calls[i] /\ i < k /\ i \in Nat
    BY <1>2 DEF Overrides, Firsts
  <2>3. CASE c.override
    <3>1. k \in Overrides(e)' /\ \A j \in Overrides(e)' : j <= k
      BY <1>2, <2>1, <2>2, <2>3
    <3>2. ENGINES'[e] = spec /\ calls'[k].by = spec.by /\ spec # None
      BY <1>2, <1>3, <2>0, <2>3
    <3>3. QED
      BY <3>1, <3>2 DEF Won
  <2>4. CASE ~c.override /\ Overrides(e) # {}
    <3>1. PICK i \in Overrides(e) : ENGINES[e] # None /\ ENGINES[e].by = calls[i].by /\ \A j \in Overrides(e) : j <= i
      BY <1>1, <1>3, <1>5, <2>4 DEF Won
    <3>2. ENGINES'[e] = ENGINES[e] /\ Overrides(e)' = Overrides(e)
      BY <2>0, <2>1, <2>4, <3>1
    <3>3. QED
      BY <2>2, <3>1, <3>2 DEF Won
  <2>5. CASE ~c.override /\ Overrides(e) = {} /\ e = "pandas"
    <3>1. ENGINES[e] = Loading!Pandas /\ ENGINES[e] # None
      BY <1>1, <1>3, <1>5, <2>5, PandasIsSpec, NoneIsNoPlugin DEF Won
    <3>2. ENGINES'[e] = ENGINES[e] /\ Overrides(e)' = {}
      BY <2>0, <2>1, <2>5, <3>1
    <3>3. QED
      BY <2>5, <3>1, <3>2 DEF Won
  <2>6. CASE ~c.override /\ Overrides(e) = {} /\ e # "pandas" /\ \E m \in DOMAIN calls : calls[m].engine = e
    <3>1. PICK i \in Firsts(e) : ENGINES[e] # None /\ ENGINES[e].by = calls[i].by
      BY <1>1, <1>3, <1>5, <2>6 DEF Won
    <3>2. ENGINES'[e] = ENGINES[e] /\ Overrides(e)' = {}
      BY <2>0, <2>1, <2>6, <3>1
    <3>3. i \in Firsts(e)'
      <4>1. i \in 1..(k - 1) /\ calls[i].engine = e /\ \A j \in 1..(i - 1) : calls[j].engine # e
        BY <1>2 DEF Firsts
      <4>2. i \in 1..k /\ \A j \in 1..(i - 1) : j \in 1..(k - 1)
        BY <1>2, <4>1
      <4>3. QED
        BY <1>2, <4>1, <4>2 DEF Firsts
    <3>4. i \in DOMAIN calls' /\ calls'[i].engine = e
      BY <3>3 DEF Firsts
    <3>5. QED
      BY <2>2, <2>6, <3>1, <3>2, <3>3, <3>4 DEF Won
  <2>7. CASE ~c.override /\ Overrides(e) = {} /\ e # "pandas" /\ \A m \in DOMAIN calls : calls[m].engine # e
    <3>1. ENGINES[e] = None
      BY <1>1, <1>3, <1>5, <2>7 DEF Won
    <3>2. ENGINES'[e] = spec /\ calls'[k].by = spec.by /\ spec # None /\ Overrides(e)' = {}
      BY <1>2, <1>3, <2>0, <2>1, <2>7, <3>1
    <3>3. k \in Firsts(e)' /\ k \in DOMAIN calls' /\ calls'[k].engine = e
      BY <1>2, <1>5, <2>7 DEF Firsts
    <3>4. QED
      BY <2>7, <3>2, <3>3 DEF Won
  <2>8. QED
    BY <2>3, <2>4, <2>5, <2>6, <2>7
<1>6. QED
  BY <1>2, <1>3, <1>4, <1>5

\* A step that makes no call leaves the engines as they were won.
LEMMA WonStays ==
    ASSUME \A e \in Loading!Names : Won(e), UNCHANGED <<ENGINES, calls>>
    PROVE  \A e \in Loading!Names : Won(e)'
  BY DEF Won, Overrides, Firsts

LEMMA LoadKeepsLoadingInv ==
    ASSUME LoadingInv, Loading!LoadPlugins
    PROVE  LoadingInv'
<1>1. /\ app \in {"starting", "up"} /\ loaded' = TRUE /\ UNCHANGED <<ENGINES, infos, hook, calls, node>>
      /\ IF loaded THEN app' = "up" /\ UNCHANGED todo ELSE app' = "loading" /\ todo' = Plugins
  BY DEF Loading!LoadPlugins
<1>2. LoadingShapes /\ Listed /\ \A e \in Loading!Names : Won(e)
  BY DEF LoadingInv
<1>3. LoadingShapes' /\ \A e \in Loading!Names : Won(e)'
  BY <1>1, <1>2, WonStays DEF LoadingShapes
<1>4. hook = None /\ None \notin Plugins
  BY <1>1, <1>2, NoneIsNoPlugin DEF Listed
<1>5. Listed'
  <2>1. CASE app = "starting"
    <3>1. {infos[i].name : i \in DOMAIN infos} = {}
      BY <1>2, <2>1 DEF Listed
    <3>2. app' = "loading" /\ todo' = Plugins
      BY <1>1, <1>2, <2>1 DEF Listed
    <3>3. QED
      BY <1>1, <1>2, <1>4, <3>1, <3>2 DEF Listed
  <2>2. CASE app = "up"
    BY <1>1, <1>2, <2>2 DEF Listed
  <2>3. QED
    BY <1>1, <2>1, <2>2
<1>6. QED
  BY <1>3, <1>5 DEF LoadingInv

LEMMA HookKeepsLoadingInv ==
    ASSUME LoadingInv, NEW p \in Plugins, Loading!Hook(p)
    PROVE  LoadingInv'
<1>1. /\ app = "loading" /\ hook = None /\ p \in todo /\ hook' = p /\ todo' = todo \ {p}
      /\ UNCHANGED <<ENGINES, loaded, infos, app, calls>>
  BY DEF Loading!Hook
<1>2. LoadingShapes /\ Listed /\ \A e \in Loading!Names : Won(e)
  BY DEF LoadingInv
<1>3. LoadingShapes' /\ \A e \in Loading!Names : Won(e)'
  BY <1>1, <1>2, WonStays DEF LoadingShapes
<1>4. Plugins \ (todo' \cup {hook'}) = Plugins \ (todo \cup {hook})
  BY <1>1, NoneIsNoPlugin
<1>5. Listed'
  BY <1>1, <1>2, <1>4 DEF Listed
<1>6. QED
  BY <1>3, <1>5 DEF LoadingInv

LEMMA HookEndsKeepsLoadingInv ==
    ASSUME LoadingInv, hook # None, NEW ok \in BOOLEAN, Loading!HookEnds(ok)
    PROVE  LoadingInv'
<1>1. /\ infos' = Append(infos, [name |-> hook, loaded |-> ok]) /\ hook' = None
      /\ UNCHANGED <<ENGINES, loaded, app, todo, calls>>
  BY DEF Loading!HookEnds
<1>2. LoadingShapes /\ Listed /\ \A e \in Loading!Names : Won(e)
  BY DEF LoadingInv
<1>3. hook \in Plugins /\ app = "loading"
  BY <1>2 DEF LoadingShapes, Listed
<1> DEFINE info == [name |-> hook, loaded |-> ok]
           k == Len(infos) + 1
<1>4. info \in Info /\ info.name = hook /\ infos \in Seq(Info)
  BY <1>2, <1>3 DEF Info, LoadingShapes
<1> HIDE DEF info
<1>5. /\ infos' \in Seq(Info) /\ DOMAIN infos' = 1..k /\ DOMAIN infos = 1..(k - 1) /\ k \in Nat /\ k >= 1
      /\ infos'[k].name = hook /\ \A i \in 1..(k - 1) : infos'[i] = infos[i]
  BY <1>1, <1>4 DEF info
<1> HIDE DEF k
<1>6. LoadingShapes' /\ \A e \in Loading!Names : Won(e)'
  BY <1>1, <1>2, <1>5, WonStays DEF LoadingShapes, Info
<1>7. {infos[i].name : i \in DOMAIN infos} = Plugins \ (todo \cup {hook}) /\ hook \notin todo
  BY <1>2, <1>3 DEF Listed
<1>8. {infos'[i].name : i \in DOMAIN infos'} = {infos[i].name : i \in DOMAIN infos} \cup {hook}
  <2>1. \A i \in 1..k : i = k \/ i \in 1..(k - 1)
    BY <1>5
  <2>2. \A i \in 1..(k - 1) : i \in 1..k
    BY <1>5
  <2>3. k \in 1..k
    BY <1>5
  <2>4. QED
    BY <1>5, <2>1, <2>2, <2>3
<1>9. {infos'[i].name : i \in DOMAIN infos'} = Plugins \ (todo' \cup {hook'})
  BY <1>1, <1>3, <1>7, <1>8, NoneIsNoPlugin
<1>10. \A i, j \in DOMAIN infos' : infos'[i].name = infos'[j].name => i = j
  <2>1. \A i \in 1..(k - 1) : infos'[i].name # hook
    BY <1>5, <1>7
  <2>2. \A i \in 1..k : i = k \/ i \in 1..(k - 1)
    BY <1>5
  <2>3. \A i, j \in 1..(k - 1) : infos'[i].name = infos'[j].name => i = j
    BY <1>2, <1>5 DEF Listed
  <2>4. QED
    BY <1>5, <2>1, <2>2, <2>3
<1>11. Listed'
  BY <1>1, <1>2, <1>3, <1>9, <1>10, NoneIsNoPlugin DEF Listed, LoadingShapes
<1>12. QED
  BY <1>6, <1>11 DEF LoadingInv

LEMMA InHookKeepsLoadingInv ==
    ASSUME LoadingInv, Loading!InHook
    PROVE  LoadingInv'
<1>1. LoadingShapes /\ Listed /\ (\A e \in Loading!Names : Won(e)) /\ hook # None /\ hook \in Plugins
  BY DEF LoadingInv, LoadingShapes, Loading!InHook
<1>2. ASSUME NEW e \in Loading!Names, NEW spec \in Loading!Declared(hook), NEW override \in BOOLEAN,
             Loading!RegisterEngine(e, spec, override)
      PROVE  LoadingInv'
  <2> DEFINE c == [engine |-> e, by |-> hook, override |-> override]
  <2>1. c \in Call /\ c.by = hook /\ c.engine = e /\ (c.override <=> override)
    BY <1>1 DEF Call
  <2>2. calls' = Append(calls, c) /\ UNCHANGED <<loaded, infos, app, todo, hook>>
    BY <1>2 DEF Loading!RegisterEngine, Loading!Called
  <2>3. ENGINES' = IF ENGINES[e] # None /\ ~override THEN ENGINES ELSE [ENGINES EXCEPT ![e] = spec]
    BY <1>2 DEF Loading!RegisterEngine
  <2> HIDE DEF c
  <2>4. ENGINES' = IF ENGINES[c.engine] # None /\ ~c.override THEN ENGINES ELSE [ENGINES EXCEPT ![c.engine] = spec]
    BY <2>1, <2>3
  <2>5. spec \in Loading!Specs /\ spec.by = hook
    BY <1>1, DeclaredByLoading
  <2>6. /\ ENGINES' \in [Loading!Names -> Loading!Specs \cup {None}] /\ calls' \in Seq(Call)
        /\ \A f \in Loading!Names : Won(f)'
    BY <1>1, <2>1, <2>2, <2>4, <2>5, CallsDecide
  <2>7. LoadingShapes' /\ Listed'
    BY <1>1, <2>2, <2>6 DEF LoadingShapes, Listed, Call
  <2>8. QED
    BY <2>6, <2>7 DEF LoadingInv
<1>3. ASSUME NEW k \in Loading!Kinds, Loading!RegisterOther(k) PROVE LoadingInv'
  <2>1. UNCHANGED <<ENGINES, loaded, infos, app, todo, hook, calls>>
    BY <1>3 DEF Loading!RegisterOther
  <2>2. QED
    BY <1>1, <2>1, WonStays DEF LoadingInv, LoadingShapes, Listed
<1>4. CASE Loading!HookExits
  <2>1. app' = "down" /\ hook' = None /\ UNCHANGED <<ENGINES, loaded, infos, todo, calls>>
    BY <1>4 DEF Loading!HookExits
  <2>2. None \notin todo
    BY <1>1, NoneIsNoPlugin DEF LoadingShapes
  <2>3. QED
    BY <1>1, <2>1, <2>2, WonStays DEF LoadingInv, LoadingShapes, Listed
<1>5. QED
  BY <1>1, <1>2, <1>3, <1>4, HookEndsKeepsLoadingInv DEF Loading!InHook

LEMMA StepLoadingInv ==
    ASSUME LoadingInv, [Loading!Next]_engineVars
    PROVE  LoadingInv' /\ node' = node
<1>1. LoadingShapes /\ Listed /\ \A e \in Loading!Names : Won(e)
  BY DEF LoadingInv
<1>2. CASE Loading!LoadDone
  <2>1. app = "loading" /\ hook = None /\ todo = {} /\ app' = "up"
          /\ UNCHANGED <<ENGINES, loaded, infos, todo, hook, calls, node>>
    BY <1>2 DEF Loading!LoadDone
  <2>2. QED
    BY <1>1, <2>1, WonStays DEF LoadingInv, LoadingShapes, Listed
<1>3. ~Loading!RunNode
  BY DEF Loading!RunNode
<1>4. CASE Loading!Down \/ UNCHANGED engineVars
  <2>1. UNCHANGED <<ENGINES, loaded, infos, app, todo, hook, calls, node>>
    BY <1>4 DEF Loading!Down, Loading!vars, engineVars
  <2>2. QED
    BY <1>1, <2>1, WonStays DEF LoadingInv, LoadingShapes, Listed
<1>5. CASE Loading!InHook
  <2>1. node' = node
    BY <1>5 DEF Loading!InHook, Loading!RegisterEngine, Loading!RegisterOther, Loading!HookEnds, Loading!HookExits
  <2>2. QED
    BY <1>5, <2>1, InHookKeepsLoadingInv
<1>6. CASE Loading!LoadPlugins
  BY <1>6, LoadKeepsLoadingInv DEF Loading!LoadPlugins
<1>7. ASSUME NEW p \in Plugins, Loading!Hook(p) PROVE LoadingInv' /\ node' = node
  BY <1>7, HookKeepsLoadingInv DEF Loading!Hook
<1>8. QED
  BY <1>2, <1>3, <1>4, <1>5, <1>6, <1>7 DEF Loading!Next

LEMMA RegisteringKeepsRunningInv ==
    ASSUME RunningInv, hook \in NodePlugins, NEW e \in Running!Names, NEW spec \in Running!Declared(hook),
           NEW override \in BOOLEAN, Running!RegisterEngine(e, spec, override)
    PROVE  RunningInv'
<1>1. UNCHANGED <<todo, hook, node>> /\ (ENGINES' = ENGINES \/ ENGINES' = [ENGINES EXCEPT ![e] = spec])
  BY DEF Running!RegisterEngine
<1>2. spec \in Running!Specs /\ spec # None
  BY DeclaredByRunning, NoneIsNoPlugin
<1>3. ENGINES' \in [Running!Names -> Running!Specs \cup {None}] /\ ENGINES'["pandas"] # None
  <2>1. "pandas" \in Running!Names
    BY DEF Running!Names
  <2>2. CASE ENGINES' = [ENGINES EXCEPT ![e] = spec]
    BY <1>2, <2>1, <2>2 DEF RunningInv
  <2>3. QED
    BY <1>1, <2>2 DEF RunningInv
<1>4. QED
  BY <1>1, <1>3 DEF RunningInv

LEMMA NodesKeepRunningInv ==
    ASSUME RunningInv, Running!RunNode
    PROVE  RunningInv'
<1>1. PICK e \in Running!Names, field \in Running!Fields, target \in BOOLEAN :
        LET spec == Running!SpecOf(e)
            given == Running!Resolved(spec.param, IF spec.param.key = "core" THEN "text" ELSE field)
        IN  node' = [engine |-> e, spec |-> spec, field |-> field, target |-> target, given |-> given,
                     end |-> Running!End(spec, given, target)]
  BY DEF Running!RunNode
<1> DEFINE spec == Running!SpecOf(e)
           given == Running!Resolved(spec.param, IF spec.param.key = "core" THEN "text" ELSE field)
<1>2. UNCHANGED <<ENGINES, todo, hook>>
  BY DEF Running!RunNode
<1>3. spec \in Running!Specs
  <2>1. "pandas" \in Running!Names
    BY DEF Running!Names
  <2>2. QED
    BY <2>1 DEF RunningInv, Running!SpecOf
<1>4. /\ node'.spec = spec /\ node'.field = field /\ node'.given = given /\ node'.target = target
      /\ node'.end = Running!End(spec, given, target)
  BY <1>1
<1> HIDE DEF spec
<1>5. QED
  BY <1>2, <1>3, <1>4 DEF RunningInv

LEMMA StepRunningInv ==
    ASSUME RunningInv, [Running!Next]_engineVars
    PROVE  RunningInv'
<1>1. CASE Running!LoadPlugins
  BY <1>1 DEF Running!LoadPlugins, RunningInv
<1>2. ASSUME NEW p \in NodePlugins, Running!Hook(p) PROVE RunningInv'
  BY <1>2 DEF Running!Hook, RunningInv
<1>3. CASE Running!InHook
  <2>1. hook \in NodePlugins
    BY <1>3 DEF Running!InHook, RunningInv
  <2>2. ASSUME NEW k \in Running!Kinds, Running!RegisterOther(k) PROVE RunningInv'
    BY <2>2 DEF Running!RegisterOther, RunningInv
  <2>3. ASSUME NEW ok \in BOOLEAN, Running!HookEnds(ok) PROVE RunningInv'
    BY <2>3 DEF Running!HookEnds, RunningInv
  <2>4. CASE Running!HookExits
    BY <2>4 DEF Running!HookExits, RunningInv
  <2>5. QED
    BY <1>3, <2>1, <2>2, <2>3, <2>4, RegisteringKeepsRunningInv DEF Running!InHook
<1>4. CASE Running!LoadDone
  BY <1>4 DEF Running!LoadDone, RunningInv
<1>5. CASE Running!Down \/ UNCHANGED engineVars
  BY <1>5 DEF Running!Down, Running!vars, engineVars, RunningInv
<1>6. QED
  BY <1>1, <1>2, <1>3, <1>4, <1>5, NodesKeepRunningInv DEF Running!Next

LEMMA WonIsRight ==
    ASSUME LoadingInv
    PROVE  Loading!WinnerIsRight
<1>1. SUFFICES ASSUME NEW e \in Loading!Names
               PROVE  IF Overrides(e) # {}
                      THEN \E i \in Overrides(e) : ENGINES[e].by = calls[i].by /\ \A j \in Overrides(e) : j <= i
                      ELSE IF e = "pandas" THEN ENGINES[e] = Loading!Pandas
                      ELSE IF Firsts(e) = {} THEN ENGINES[e] = None
                      ELSE \E i \in Firsts(e) : ENGINES[e].by = calls[i].by
  BY DEF Loading!WinnerIsRight, Overrides, Firsts
<1>2. Won(e)
  BY DEF LoadingInv
<1>3. CASE Overrides(e) # {}
  BY <1>2, <1>3 DEF Won
<1>4. CASE Overrides(e) = {} /\ e = "pandas"
  BY <1>2, <1>4 DEF Won
<1>5. CASE Overrides(e) = {} /\ e # "pandas" /\ \A i \in DOMAIN calls : calls[i].engine # e
  <2>1. ENGINES[e] = None
    BY <1>2, <1>5 DEF Won
  <2>2. Firsts(e) = {}
    BY <1>5 DEF Firsts
  <2>3. QED
    BY <1>5, <2>1, <2>2
<1>6. CASE Overrides(e) = {} /\ e # "pandas" /\ \E i \in DOMAIN calls : calls[i].engine = e
  <2>1. \E i \in Firsts(e) : ENGINES[e].by = calls[i].by
    BY <1>2, <1>6 DEF Won
  <2>2. QED
    BY <1>6, <2>1
<1>7. QED
  BY <1>3, <1>4, <1>5, <1>6

LEMMA ListedIsOnce ==
    ASSUME LoadingInv
    PROVE  Loading!ListedOnce
<1>1. SUFFICES ASSUME app = "up", NEW p \in Plugins
               PROVE  \E i \in DOMAIN infos : \A j \in DOMAIN infos : infos[j].name = p <=> j = i
  BY DEF Loading!ListedOnce
<1>2. Listed
  BY DEF LoadingInv
<1>3. p \in {infos[i].name : i \in DOMAIN infos}
  BY <1>1, <1>2, NoneIsNoPlugin DEF Listed
<1>4. PICK i \in DOMAIN infos : infos[i].name = p
  BY <1>3
<1>5. \A j \in DOMAIN infos : infos[j].name = p => j = i
  BY <1>2, <1>4 DEF Listed
<1>6. QED
  BY <1>4, <1>5

LEMMA RunningNodesAreRight ==
    ASSUME RunningInv, node.end # "none"
    PROVE  Running!RunsAsFilledIn /\ Running!UnavailableSaid
<1> DEFINE spec == node.spec
           q == spec.param
           field == node.field
           given == node.given
<1>1. /\ spec \in Running!Specs /\ field \in Running!Fields
      /\ given = Running!Resolved(q, IF q.key = "core" THEN "text" ELSE field)
      /\ node.end = Running!End(spec, given, node.target)
  BY DEF RunningInv
<1>2. /\ q.key \in {"own", "core"} /\ q.type \in {"string", "boolean"} /\ q.default \in {"unset", "set"}
  BY <1>1 DEF Running!Specs, Running!Params
<1> HIDE DEF spec, q, field, given
<1>3. /\ node.end = "needs a value" => q.required /\ given \in {"unset", "blank"}
      /\ node.end = "ran" => ~(q.required /\ given \in {"unset", "blank"})
      /\ ~spec.available => node.end = "unavailable"
  BY <1>1 DEF Running!End, Running!Missing, q
<1>4. ASSUME q.key = "own"
      PROVE  /\ q.type = "string" => given = IF field \in {"unset", "blank"} THEN q.default ELSE field
             /\ q.type = "boolean" => given \in {"no", "yes"}
             /\ q.type = "boolean" /\ field \in {"zero", "no"} => given = "no"
  BY <1>1, <1>4 DEF Running!Resolved
<1>5. Running!UnavailableSaid
  BY <1>3 DEF Running!UnavailableSaid, spec
<1>6. Running!RunsAsFilledIn
  <2>1. ASSUME q.key = "own"
        PROVE  /\ node.end = "needs a value" => q.required /\ field \in {"unset", "blank"} /\ q.default = "unset"
               /\ node.end = "ran" /\ q.type = "string" => /\ field \notin {"unset", "blank"} => given = field
                                                           /\ field \in {"unset", "blank"} => given = q.default
                                                           /\ q.required => given # "unset"
               /\ node.end = "ran" /\ q.type = "boolean" /\ field \in {"zero", "no"} => given = "no"
    BY <1>2, <1>3, <1>4, <2>1
  <2>2. QED
    BY <2>1 DEF Running!RunsAsFilledIn, spec, q, field, given
<1>7. QED
  BY <1>5, <1>6

LEMMA RegistryShows ==
    ASSUME RegistryInv
    PROVE  EnginesOfTheirPlugins /\ NodesRunAsFilledIn
<1>1. EnginesOfTheirPlugins
  BY WonIsRight, ListedIsOnce DEF RegistryInv, EnginesOfTheirPlugins
<1>2. CASE node.end = "none"
  BY <1>1, <1>2 DEF NodesRunAsFilledIn, Running!RunsAsFilledIn, Running!UnavailableSaid
<1>3. CASE node.end # "none"
  BY <1>1, <1>3, RunningNodesAreRight DEF RegistryInv, NodesRunAsFilledIn
<1>4. QED
  BY <1>2, <1>3

-----------------------------------------------------------------------------
(* Together: the parts share no variable, and a behaviour is one of them. *)

ConfiguredInv == SchemaInv /\ DrillInv /\ RegistryInv

LEMMA InitConfiguredInv == ConfiguredInit => ConfiguredInv
  BY SchemaInit, InitDrillInv, InitRegistryInv DEF ConfiguredInit, ConfiguredInv

LEMMA StepConfiguredInv ==
    ASSUME ConfiguredInv, [ConfiguredNext]_configuredVars
    PROVE  ConfiguredInv'
<1>1. [Next]_vars /\ [Detail!Next]_drillVars
  BY DEF ConfiguredNext, configuredVars
<1>2. /\ part' = part
      /\ part = "loading" => [Loading!Next]_engineVars
      /\ part = "running" => [Running!Next]_engineVars
      /\ part \notin {"loading", "running"} => UNCHANGED engineVars
  BY DEF ConfiguredNext, configuredVars
<1>3. RegistryInv'
  <2>1. CASE part = "loading"
    BY <1>2, <2>1, StepLoadingInv DEF ConfiguredInv, RegistryInv
  <2>2. CASE part = "running"
    BY <1>2, <2>2, StepRunningInv DEF ConfiguredInv, RegistryInv
  <2>3. CASE part \notin {"loading", "running"}
    BY <1>2, <2>3 DEF ConfiguredInv, RegistryInv, engineVars
  <2>4. QED
    BY <2>1, <2>2, <2>3
<1>4. QED
  BY <1>1, <1>3, SchemaStep, StepDrillInv DEF ConfiguredInv

LEMMA ConfiguredKeepsInv == Configured => []ConfiguredInv
  BY InitConfiguredInv, StepConfiguredInv, PTL DEF Configured

\* engine_for: every request works on the connection as it read it, and every engine but the
\* one that is kept has been disposed of.
THEOREM EnginesAreKeptInOrder == Spec => []EnginesOfTheirRequests
<1>1. EnginesInv => EnginesOfTheirRequests
  BY DEF EnginesInv, EnginesOfTheirRequests
<1>2. QED
  BY EnginesInit, EnginesStep, <1>1, PTL DEF Spec

\* api/explore.py: who opens a source, and is not overlapped, is told its columns as they are
\* at some time after the request began.
THEOREM OpeningAloneReReads == Spec => []OpenReReadsAlone
<1>1. SchemaInv => OpenReReadsAlone
  BY DEF SchemaInv, OpenReReadsAlone, ReReads, ReadsAnew, Opening
<1>2. QED
  BY SchemaInit, SchemaStep, <1>1, PTL DEF Spec

\* drill.py.  For all columns, sources and saves: the settings are those that were last saved, whenever
\* the process ended; the rows behind a point are its own on the columns that are mapped, and all of
\* them, unless a null is among the values that a filter leaves out.
THEOREM TheDrillGoesToThePoint == Configured => []DrillsToThePoint
<1>1. ConfiguredInv => DrillsToThePoint
  BY DrillInvDrills DEF ConfiguredInv
<1>2. QED
  BY ConfiguredKeepsInv, <1>1, PTL

\* registry.py: register_engine, load_plugins.  For all plugins, whatever they register and whenever
\* they fail: an engine is that of the last one that overrides it, or else of the first; and every
\* plugin is listed once.
THEOREM EnginesAreOfTheirPlugins == Configured => []EnginesOfTheirPlugins
<1>1. ConfiguredInv => EnginesOfTheirPlugins
  BY RegistryShows DEF ConfiguredInv
<1>2. QED
  BY ConfiguredKeepsInv, <1>1, PTL

\* registry.py: resolve_params, missing_required; executor.py: the processor branch.  Whatever plugins
\* have registered, a node runs with what was filled in, 0 and False included, is told to fill in what
\* is required and missing, and never runs on an engine whose package is missing.
THEOREM NodesAreRunAsFilledIn == Configured => []NodesRunAsFilledIn
<1>1. ConfiguredInv => NodesRunAsFilledIn
  BY RegistryShows DEF ConfiguredInv
<1>2. QED
  BY ConfiguredKeepsInv, <1>1, PTL

\* agent_provider_service.py: create_provider, set_active_provider, delete_provider.  On SQLite, for any
\* requests that overlap in any way: never are two providers active, and only the deletion of the active
\* one leaves the agent without.
THEOREM OneActiveOnSQLite ==
    ASSUME SingleWriter
    PROVE  Configured => OneActiveUntilDeleted
<1>1. ConfiguredInit => AgentsInv
  BY InitAgentsInv DEF ConfiguredInit
<1>2. AgentsInv /\ [ConfiguredNext]_configuredVars
        => AgentsInv' /\ [\A i \in Agents!Active(table) : Agents!Active(table') = {} => i \notin DOMAIN table']_(Agents!vars)
  <2>1. SUFFICES ASSUME AgentsInv, [ConfiguredNext]_configuredVars
                 PROVE  /\ AgentsInv'
                        /\ \A i \in Agents!Active(table) : Agents!Active(table') = {} => i \notin DOMAIN table'
    OBVIOUS
  <2>2. [Agents!Next]_agentVars
    BY <2>1 DEF ConfiguredNext, configuredVars
  <2>3. QED
    BY <2>1, <2>2, StepAgentsInv
<1>3. AgentsInv => Agents!OneActive
  BY DEF AgentsInv
<1>4. QED
  BY <1>1, <1>2, <1>3, PTL DEF Configured, OneActiveUntilDeleted, Agents!ActiveOnlyDeleted
=============================================================================
