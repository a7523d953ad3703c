---------------------- MODULE DependencyLayeringProofs ----------------------
(***************************************************************************)
(* Theorems about the loop of topological_sort and that of                 *)
(* _dependency_layers, which contains it: the orders and the layers they   *)
(* return are those of FlowGraph, and no path runs within a layer.         *)
(***************************************************************************)
EXTENDS DependencyLayering, FiniteSetTheorems, FunctionTheorems, TLAPS

USE TopologicalSortAssumption, FlowGraphAssumption

\* What the graphs of the client look like.
LEMMA GraphIsTyped ==
    ASSUME graph \in Graphs
    PROVE  /\ graph.nodes \subseteq Nodes
           /\ graph.edges \subseteq Edge
           /\ IsFiniteSet(graph.edges)
           /\ \A e \in graph.edges : e.source \in Nodes /\ e.target \in Nodes
           /\ Known(graph) \subseteq Nodes
BY DEF Graph, Edge, Known

\* The edges that remain are finitely many: an in-degree of zero means there are none.
LEMMA CountingEdges ==
    ASSUME graph \in Graphs, NEW n \in Nodes, NEW D
    PROVE  LET R == {e \in graph.edges : e.target = n /\ e \notin D}
           IN  /\ IsFiniteSet(R)
               /\ Cardinality(R) \in Nat
               /\ Cardinality(R) = 0 <=> R = {}
<1>1. IsFiniteSet({e \in graph.edges : e.target = n /\ e \notin D})
  <2>1. {e \in graph.edges : e.target = n /\ e \notin D} \in SUBSET graph.edges
    OBVIOUS
  <2>2. QED
    BY <2>1, GraphIsTyped, FS_Subset
<1>2. QED
  BY <1>1, FS_CardinalityType, FS_EmptySet

-----------------------------------------------------------------------------
(* The loop keeps the invariant. *)

LEMMA InitIInv == Init => IInv
<1> SUFFICES ASSUME Init PROVE IInv
  OBVIOUS
<1> DEFINE C == Cardinality(Roots(graph))
<1>1. graph \in Graphs /\ Roots(graph) \subseteq Nodes
  BY GraphIsTyped DEF Init, Roots
<1>2. IsFiniteSet(Roots(graph)) /\ C \in Nat
  BY <1>1, FS_Subset, FS_CardinalityType
<1>3. /\ line \in [1 .. C -> Roots(graph)]
      /\ \A i, j \in 1 .. C : line[i] = line[j] => i = j
      /\ \A n \in Roots(graph) : \E i \in 1 .. C : line[i] = n
  BY DEF Init, Listings
<1>4. line \in Seq(Nodes) /\ Len(line) = C
  BY <1>1, <1>2, <1>3
<1>5. Popped = {} /\ Spent = {}
  BY DEF Init, Popped, Spent
<1>6. InLine = Roots(graph)
  BY <1>3, <1>4 DEF InLine
<1>7. \A n \in Nodes : Into(graph, n) = Remaining(n)
  BY <1>5 DEF Into, Remaining
<1>8. InDegreesCount
  BY <1>7 DEF Init, InDegreesCount
<1>9. TypeOK
  <2>1. \A n \in Nodes : Cardinality(Into(graph, n)) \in Nat
    BY <1>1, <1>7, CountingEdges DEF Remaining
  <2>2. QED
    BY <1>1, <1>2, <1>4, <2>1 DEF TypeOK, Init
<1>10. LineIsReady
  BY <1>1, <1>6, <1>7 DEF LineIsReady, Roots, Known, Into, Remaining
<1>11. \A j \in 1 .. Len(line), e \in graph.edges : e.target # line[j]
  BY <1>3, <1>4 DEF Roots, Into
<1>12. ReadyInTime
  <2>1. \A j \in 1 .. Len(line) : 0 < j /\ ReadyFrom(j, 0)
    BY <1>2, <1>4, <1>11 DEF ReadyFrom
  <2>2. QED
    BY <2>1 DEF ReadyInTime, Init
<1>13. FirstReadyFirst
  <2>1. \A j \in 1 .. Len(line), r \in 0 .. popped : ReadyFrom(j, r) => r = 0
    BY <1>11 DEF ReadyFrom
  <2>2. QED
    BY <2>1 DEF FirstReadyFirst, Init
<1>14. CyclesStayOut
  BY <1>6 DEF CyclesStayOut, SelfFeeding, Parents, Roots, Into
<1>15. TodoIsCurrent /\ NoneTwice /\ OutcomeIsFinal
  BY <1>3, <1>4 DEF Init, TodoIsCurrent, NoneTwice, OutcomeIsFinal
<1>16. QED
  BY <1>8, <1>9, <1>10, <1>12, <1>13, <1>14, <1>15 DEF IInv

\* The moment a node became ready is unique: its last parent's place in the order.
LEMMA ReadyOnce ==
    ASSUME TypeOK, NoneTwice, NEW j \in 1 .. Len(line),
           NEW r \in 0 .. Len(line), NEW s \in 0 .. Len(line),
           ReadyFrom(j, r), ReadyFrom(j, s)
    PROVE  r = s
<1>1. \A p, q \in 0 .. Len(line) : ReadyFrom(j, p) /\ ReadyFrom(j, q) => p <= q
  <2> SUFFICES ASSUME NEW p \in 0 .. Len(line), NEW q \in 0 .. Len(line),
                      ReadyFrom(j, p), ReadyFrom(j, q), p # 0
               PROVE  p <= q
    BY DEF TypeOK
  <2>1. PICK e \in graph.edges : e.target = line[j] /\ e.source = line[p]
    BY DEF ReadyFrom
  <2>2. PICK i \in 1 .. q : line[i] = e.source
    BY <2>1 DEF ReadyFrom
  <2>3. i = p
    BY <2>1, <2>2 DEF NoneTwice, TypeOK
  <2>4. QED
    BY <2>2, <2>3 DEF TypeOK
<1>2. QED
  BY <1>1 DEF TypeOK

LEMMA PopKeepsIInv == IInv /\ Pop => IInv'
<1> SUFFICES ASSUME IInv, Pop PROVE IInv'
  OBVIOUS
<1>1. /\ todo = {} /\ popped < Len(line) /\ popped' = popped + 1
      /\ todo' = {e \in graph.edges : e.source = line[popped + 1]}
      /\ graph' = graph /\ in_deg' = in_deg /\ line' = line /\ outcome' = outcome
  BY DEF Pop
<1>2. /\ popped \in Nat /\ Len(line) \in Nat /\ popped' \in 1 .. Len(line)
      /\ \A e \in graph.edges : e.target \in Nodes
  BY <1>1, GraphIsTyped DEF IInv, TypeOK
<1>3. TypeOK'
  BY <1>1, <1>2 DEF IInv, TypeOK
<1>4. Popped' = Popped \cup {line[popped + 1]} /\ InLine' = InLine
  BY <1>1, <1>2 DEF Popped, InLine
<1>5. line[popped + 1] \notin Popped
  BY <1>1, <1>2 DEF IInv, NoneTwice, Popped
<1>6. Spent' = Spent
  BY <1>1, <1>4, <1>5 DEF Spent
<1>7. \A n \in Nodes : Remaining(n)' = Remaining(n)
  BY <1>1, <1>6 DEF Remaining
<1>8. InDegreesCount' /\ LineIsReady' /\ CyclesStayOut'
  BY <1>1, <1>4, <1>7 DEF IInv, InDegreesCount, LineIsReady, CyclesStayOut, SelfFeeding
<1>9. TodoIsCurrent' /\ NoneTwice'
  BY <1>1, <1>2 DEF IInv, TodoIsCurrent, NoneTwice
<1>10. \A j \in 1 .. Len(line), r \in 0 .. Len(line) : ReadyFrom(j, r)' <=> ReadyFrom(j, r)
  BY <1>1 DEF ReadyFrom
<1>11. ReadyInTime'
  <2> SUFFICES ASSUME NEW j \in 1 .. Len(line)
               PROVE  \E r \in 0 .. popped' : r < j /\ ReadyFrom(j, r)'
    BY <1>1 DEF ReadyInTime
  <2>1. PICK r \in 0 .. popped : r < j /\ ReadyFrom(j, r)
    BY DEF IInv, ReadyInTime
  <2>2. r \in 0 .. popped' /\ r \in 0 .. Len(line)
    BY <1>1, <1>2
  <2>3. QED
    BY <1>10, <2>1, <2>2
<1>12. FirstReadyFirst'
  <2>1. ASSUME NEW j \in 1 .. Len(line), NEW r \in 0 .. popped', ReadyFrom(j, r)
        PROVE  r \in 0 .. popped
    <3>1. PICK q \in 0 .. popped : ReadyFrom(j, q)
      BY DEF IInv, ReadyInTime
    <3>2. q \in 0 .. Len(line) /\ r \in 0 .. Len(line)
      BY <1>1, <1>2
    <3>3. QED
      BY <2>1, <3>1, <3>2, ReadyOnce DEF IInv
  <2>2. \A r \in 0 .. popped' : r \in 0 .. Len(line)
    BY <1>1, <1>2
  <2>3. QED
    BY <1>1, <1>10, <2>1, <2>2 DEF IInv, FirstReadyFirst
<1>13. OutcomeIsFinal'
  BY <1>1, <1>2 DEF IInv, OutcomeIsFinal
<1>14. QED
  BY <1>3, <1>8, <1>9, <1>11, <1>12, <1>13 DEF IInv

LEMMA RelaxKeepsIInv == ASSUME IInv, NEW e \in todo, Relax(e) PROVE IInv'
<1> DEFINE t == e.target
<1>0. PICK n \in Nat : n = Len(line)
  BY DEF IInv, TypeOK
<1>1. /\ todo' = todo \ {e}
      /\ in_deg' = [in_deg EXCEPT ![t] = @ - 1]
      /\ line' = IF in_deg[t] = 1 THEN Append(line, t) ELSE line
      /\ graph' = graph /\ popped' = popped /\ outcome' = outcome
  BY DEF Relax
<1>2. /\ graph \in Graphs /\ e \in graph.edges /\ t \in Nodes
      /\ popped \in 1 .. n /\ n = Len(line) /\ line \in Seq(Nodes)
      /\ e.source = line[popped]
  BY <1>0, GraphIsTyped DEF IInv, TypeOK, TodoIsCurrent
<1>3. \A i \in 1 .. n : i \in 1 .. Len(line') /\ line'[i] = line[i]
  BY <1>1, <1>2
<1>4. Popped' = Popped /\ e.source \in Popped
  BY <1>1, <1>2, <1>3 DEF Popped
<1>5. Spent' = Spent \cup {e} /\ e \notin Spent
  BY <1>1, <1>2, <1>4 DEF Spent
<1>6. /\ Remaining(t)' = Remaining(t) \ {e} /\ e \in Remaining(t)
      /\ \A m \in Nodes \ {t} : Remaining(m)' = Remaining(m)
  BY <1>1, <1>2, <1>5 DEF Remaining
<1>7. /\ IsFiniteSet(Remaining(t)) /\ Cardinality(Remaining(t)) \in Nat
      /\ Cardinality(Remaining(t)) # 0
      /\ Cardinality(Remaining(t)') = Cardinality(Remaining(t)) - 1
      /\ Cardinality(Remaining(t)') = 0 <=> Remaining(t)' = {}
  <2>1. IsFiniteSet(Remaining(t)) /\ Cardinality(Remaining(t)) \in Nat
        /\ (Cardinality(Remaining(t)) = 0 <=> Remaining(t) = {})
    <3>1. graph \in Graphs /\ t \in Nodes
      BY <1>2
    <3>2. Remaining(t) = {x \in graph.edges : x.target = t /\ x \notin Spent}
      BY Zenon DEF Remaining
    <3>3. ASSUME NEW m \in Nodes, NEW D, NEW R, R = {x \in graph.edges : x.target = m /\ x \notin D}
          PROVE  IsFiniteSet(R) /\ Cardinality(R) \in Nat /\ (Cardinality(R) = 0 <=> R = {})
      BY <3>1, <3>3, CountingEdges
    <3>4. QED
      BY <3>1, <3>2, <3>3
  <2>2. IsFiniteSet(Remaining(t) \ {e})
        /\ Cardinality(Remaining(t) \ {e}) = Cardinality(Remaining(t)) - 1
    BY <1>6, <2>1, FS_RemoveElement
  <2>3. QED
    BY <1>6, <2>1, <2>2, FS_EmptySet
<1>8. in_deg[t] = Cardinality(Remaining(t)) /\ (in_deg[t] = 1 <=> Remaining(t)' = {})
  BY <1>2, <1>7 DEF IInv, InDegreesCount
<1>9. InDegreesCount'
  BY <1>1, <1>2, <1>6, <1>7, <1>8 DEF IInv, TypeOK, InDegreesCount
<1>10. TypeOK'
  BY <1>1, <1>2, <1>7, <1>8 DEF IInv, TypeOK
<1>11. t \notin InLine
  BY <1>2, <1>6 DEF IInv, LineIsReady
<1>12. InLine' = IF in_deg[t] = 1 THEN InLine \cup {t} ELSE InLine
  <2>1. CASE in_deg[t] = 1
    <3>1. Len(line') = n + 1 /\ line'[n + 1] = t
      BY <1>1, <1>2, <2>1
    <3>2. 1 .. n + 1 = (1 .. n) \cup {n + 1}
      OBVIOUS
    <3>3. QED
      BY <1>2, <1>3, <2>1, <3>1, <3>2 DEF InLine
  <2>2. CASE in_deg[t] # 1
    BY <1>1, <2>2 DEF InLine
  <2>3. QED
    BY <2>1, <2>2
<1>13. t \in Known(graph)
  BY <1>2 DEF Known
<1>14. LineIsReady'
  BY <1>1, <1>2, <1>6, <1>8, <1>11, <1>12, <1>13 DEF IInv, LineIsReady
<1>15. TodoIsCurrent'
  BY <1>1, <1>2, <1>3 DEF IInv, TodoIsCurrent
<1>16. NoneTwice'
  BY <1>1, <1>2, <1>11 DEF IInv, NoneTwice, InLine
<1>17. \A j \in 1 .. n, r \in 0 .. popped : ReadyFrom(j, r)' <=> ReadyFrom(j, r)
  BY <1>1, <1>2, <1>3 DEF ReadyFrom
<1>18. ASSUME in_deg[t] = 1
       PROVE  /\ Len(line') = n + 1 /\ line'[n + 1] = t
              /\ \A j : j = n + 1 => \E r \in 0 .. popped : r = popped /\ ReadyFrom(j, r)'
              /\ \A s \in 0 .. popped : ReadyFrom(n + 1, s)' => s = popped
  <2>1. Len(line') = n + 1 /\ line'[n + 1] = t
    BY <1>1, <1>2, <1>18
  <2>2. \A d \in graph.edges : d.target = t => \E i \in 1 .. popped : line'[i] = d.source
    <3> SUFFICES ASSUME NEW d \in graph.edges, d.target = t
                 PROVE  \E i \in 1 .. popped : line[i] = d.source
      BY <1>2, <1>3
    <3>1. d \in Spent \cup {e}
      BY <1>1, <1>5, <1>8, <1>18 DEF Remaining
    <3>2. QED
      BY <1>4, <3>1 DEF Spent, Popped
  <2>3. ReadyFrom(n + 1, popped)'
    BY <1>1, <1>2, <1>3, <2>1, <2>2 DEF ReadyFrom
  <2>4. ASSUME NEW s \in 0 .. popped, ReadyFrom(n + 1, s)' PROVE s = popped
    <3>1. PICK i \in 1 .. s : line'[i] = e.source
      BY <1>1, <1>2, <2>1, <2>4 DEF ReadyFrom
    <3>2. line[i] = line[popped]
      BY <1>2, <1>3, <3>1
    <3>3. i = popped
      BY <1>2, <3>2 DEF IInv, NoneTwice
    <3>4. QED
      BY <1>2, <3>3
  <2>5. \A j : j = n + 1 => \E r \in 0 .. popped : r = popped /\ ReadyFrom(j, r)'
    BY <1>1, <1>2, <2>3 DEF ReadyFrom
  <2>6. QED
    BY <2>1, <2>4, <2>5
<1>19. ReadyInTime'
  <2> SUFFICES ASSUME NEW j \in 1 .. Len(line')
               PROVE  \E r \in 0 .. popped : r < j /\ ReadyFrom(j, r)'
    BY <1>1 DEF ReadyInTime
  <2>1. CASE j \in 1 .. n
    BY <1>2, <1>17, <2>1 DEF IInv, ReadyInTime
  <2>2. CASE j \notin 1 .. n
    <3>1. in_deg[t] = 1 /\ j = n + 1
      BY <1>1, <1>2, <2>2
    <3>2. popped < j
      BY <1>2, <3>1
    <3>3. QED
      BY <1>18, <3>1, <3>2
  <2>3. QED
    BY <2>1, <2>2
<1>20. FirstReadyFirst'
  <2> SUFFICES ASSUME NEW j \in 1 .. Len(line'), NEW k \in 1 .. Len(line'),
                      NEW r \in 0 .. popped, NEW s \in 0 .. popped,
                      j < k, ReadyFrom(j, r)', ReadyFrom(k, s)'
               PROVE  r <= s
    BY <1>1 DEF FirstReadyFirst
  <2>1. CASE k \in 1 .. n
    BY <1>2, <1>17, <2>1 DEF IInv, FirstReadyFirst
  <2>2. CASE k \notin 1 .. n
    BY <1>1, <1>2, <1>18, <2>2
  <2>3. QED
    BY <2>1, <2>2
<1>21. CyclesStayOut'
  <2> SUFFICES ASSUME NEW S \in SUBSET Nodes, SelfFeeding(S), in_deg[t] = 1, t \in S
               PROVE  FALSE
    BY <1>1, <1>12 DEF IInv, CyclesStayOut, SelfFeeding
  <2>1. PICK d \in graph.edges : d.target = t /\ d.source \in S
    BY DEF SelfFeeding, Parents
  <2>2. d \in Spent \cup {e}
    BY <1>1, <1>5, <1>8, <2>1 DEF Remaining
  <2>3. d.source \in Popped
    BY <1>4, <2>2 DEF Spent
  <2>4. d.source \in InLine
    BY <1>2, <2>3 DEF Popped, InLine
  <2>5. QED
    BY <2>1, <2>4 DEF IInv, CyclesStayOut
<1>22. OutcomeIsFinal'
  BY <1>1, <1>2 DEF IInv, OutcomeIsFinal
<1>23. QED
  BY <1>9, <1>10, <1>14, <1>15, <1>16, <1>19, <1>20, <1>21, <1>22 DEF IInv

\* The end of the loop, and steps that change nothing, leave the loop's state alone.
LEMMA RestKeepsIInv ==
    ASSUME IInv, UNCHANGED <<graph, in_deg, line, popped, todo>>,
           outcome' = outcome \/ Finish
    PROVE  IInv'
<1>1. Popped' = Popped /\ InLine' = InLine /\ Spent' = Spent
  BY DEF Popped, InLine, Spent
<1>2. \A n : Remaining(n)' = Remaining(n)
  BY <1>1 DEF Remaining
<1>3. TypeOK'
  BY DEF IInv, TypeOK, Finish
<1>4. InDegreesCount' /\ LineIsReady' /\ TodoIsCurrent' /\ NoneTwice'
  BY <1>1, <1>2 DEF IInv, InDegreesCount, LineIsReady, TodoIsCurrent, NoneTwice
<1>5. \A j, r : ReadyFrom(j, r)' <=> ReadyFrom(j, r)
  BY DEF ReadyFrom
<1>6. ReadyInTime' /\ FirstReadyFirst'
  BY <1>5 DEF IInv, ReadyInTime, FirstReadyFirst
<1>7. CyclesStayOut'
  BY <1>1 DEF IInv, CyclesStayOut, SelfFeeding
<1>8. OutcomeIsFinal'
  BY DEF IInv, OutcomeIsFinal, Finish
<1>9. QED
  BY <1>3, <1>4, <1>6, <1>7, <1>8 DEF IInv

\* The loop's invariant holds throughout: in-degrees count what is left of the
\* edges, nodes are queued once, when their last parent was popped, in that order.
THEOREM LoopInvariant == Spec => []IInv
<1>1. Init => IInv
  BY InitIInv
<1>2. IInv /\ [Next]_vars => IInv'
  <2> SUFFICES ASSUME IInv, [Next]_vars PROVE IInv'
    OBVIOUS
  <2>1. CASE Finish
    BY <2>1, RestKeepsIInv DEF Finish
  <2>2. CASE UNCHANGED vars
    BY <2>2, RestKeepsIInv DEF vars
  <2>3. QED
    BY <2>1, <2>2, PopKeepsIInv, RelaxKeepsIInv DEF Next, Returned
<1>3. QED
  BY <1>1, <1>2, PTL DEF Spec

-----------------------------------------------------------------------------
(* What the invariant says of the outcome. *)

\* No node is queued twice, nor before all of its parents were popped.
THEOREM ParentsArePoppedFirst == Spec => []ParentsPoppedFirst
<1>1. IInv => ParentsPoppedFirst
  <2> SUFFICES ASSUME IInv, NEW e \in graph.edges, NEW j \in 1 .. Len(line), line[j] = e.target
               PROVE  \E i \in 1 .. popped : i < j /\ line[i] = e.source
    BY DEF IInv, NoneTwice, ParentsPoppedFirst
  <2>1. PICK r \in 0 .. popped : r < j /\ ReadyFrom(j, r)
    BY DEF IInv, ReadyInTime
  <2>2. PICK i \in 1 .. r : line[i] = e.source
    BY <2>1 DEF ReadyFrom
  <2>3. i \in 1 .. popped /\ i < j
    BY <2>1, <2>2 DEF IInv, TypeOK
  <2>4. QED
    BY <2>2, <2>3
<1>2. QED
  BY <1>1, LoopInvariant, PTL

\* A sequence without repetitions lists a finite set entirely iff it is as long.
LEMMA FullLine ==
    ASSUME IInv, ~Dangling(graph)
    PROVE  /\ InLine \subseteq graph.nodes
           /\ Len(line) = Cardinality(graph.nodes) <=> InLine = graph.nodes
<1> DEFINE n == Len(line)
           f == [i \in 1 .. n |-> line[i]]
<1>1. InLine \subseteq graph.nodes
  BY DEF IInv, TypeOK, LineIsReady, Known, Dangling, InLine
<1>2. IsFiniteSet(graph.nodes) /\ Cardinality(graph.nodes) \in Nat
  BY GraphIsTyped, FS_Subset, FS_CardinalityType DEF IInv, TypeOK
<1>3. n \in Nat /\ IsFiniteSet(1 .. n) /\ Cardinality(1 .. n) = n
  <2>1. n \in Nat
    BY DEF IInv, TypeOK
  <2> HIDE DEF n
  <2>2. n \in Int /\ 1 \in Int
    BY <2>1
  <2>3. IsFiniteSet(1 .. n) /\ Cardinality(1 .. n) = IF 1 > n THEN 0 ELSE n - 1 + 1
    BY <2>2, FS_Interval, Zenon
  <2>4. QED
    BY <2>1, <2>3
<1>4. f \in Injection(1 .. n, graph.nodes)
  BY <1>1 DEF Injection, IsInjective, InLine, IInv, NoneTwice
<1>5. n = Cardinality(graph.nodes) <=> f \in Surjection(1 .. n, graph.nodes)
  BY <1>2, <1>3, <1>4, FS_Injection
<1>6. f \in Surjection(1 .. n, graph.nodes) <=> InLine = graph.nodes
  BY <1>1 DEF Surjection, InLine
<1>7. QED
  BY <1>1, <1>5, <1>6

\* The exception is raised for cyclic flows and for no others.
THEOREM RaisesExactlyOnCycles == Spec => []RaisesOnCyclesOnly
<1>1. IInv => RaisesOnCyclesOnly
  <2> SUFFICES ASSUME IInv, outcome # "none", ~Dangling(graph)
               PROVE  outcome = "cycle" <=> IsCyclic(graph.edges)
    BY DEF RaisesOnCyclesOnly
  <2>1. outcome = "cycle" <=> InLine # graph.nodes
    BY FullLine DEF IInv, TypeOK, OutcomeIsFinal
  <2>2. ASSUME InLine # graph.nodes PROVE IsCyclic(graph.edges)
    <3> DEFINE S == graph.nodes \ InLine
    <3>1. S # {} /\ S \in SUBSET Nodes
      BY <2>2, FullLine, GraphIsTyped DEF IInv, TypeOK
    <3>2. ASSUME NEW m \in S PROVE Parents(graph.edges, m) \cap S # {}
      <4>1. PICK e \in graph.edges : e.target = m /\ e \notin Spent
        BY <3>1 DEF IInv, LineIsReady, Known, Remaining
      <4>2. e.source \notin InLine
        BY <4>1 DEF IInv, OutcomeIsFinal, Spent, Popped, InLine
      <4>3. e.source \in S /\ e.source \in Parents(graph.edges, m)
        BY <4>1, <4>2 DEF Dangling, Parents
      <4>4. QED
        BY <4>3
    <3>3. QED
      BY <3>1, <3>2 DEF IsCyclic
  <2>3. ASSUME IsCyclic(graph.edges) PROVE InLine # graph.nodes
    <3>1. PICK S \in (SUBSET Nodes) \ {{}} : SelfFeeding(S)
      BY <2>3 DEF IsCyclic, SelfFeeding
    <3>2. PICK m \in S : TRUE
      BY <3>1
    <3>3. m \in graph.nodes
      BY <3>1, <3>2 DEF SelfFeeding, Parents, Dangling
    <3>4. m \notin InLine
      BY <3>1, <3>2 DEF IInv, CyclesStayOut
    <3>5. QED
      BY <3>3, <3>4
  <2>4. QED
    BY <2>1, <2>2, <2>3
<1>2. QED
  BY <1>1, LoopInvariant, PTL

\* The order returned is one of those that FlowGraph allows.
THEOREM ReturnsATopologicalOrder == Spec => []ReturnsTopologicalOrder
<1>1. ASSUME IInv, ParentsPoppedFirst, outcome = "sorted", ~Dangling(graph), graph.nodes = Nodes
      PROVE  Position \in TopologicalOrders(graph.edges)
  <2> DEFINE E == graph.edges
             pos == Position
  <2>1. InLine = Nodes /\ popped = Len(line) /\ Rank = 0 .. Len(line) /\ Len(line) \in Nat
    BY <1>1, FullLine DEF IInv, TypeOK, OutcomeIsFinal, Rank
  <2>2. \A n \in Nodes : pos[n] \in 1 .. Len(line) /\ line[pos[n]] = n
    BY <2>1 DEF Position, InLine
  <2>3. \A n \in Nodes, i \in 1 .. Len(line) : line[i] = n => pos[n] = i
    BY <1>1, <2>2 DEF IInv, NoneTwice
  <2>4. \A e \in E : e.source \in Nodes /\ e.target \in Nodes
    BY <1>1, GraphIsTyped DEF IInv, TypeOK
  <2> HIDE DEF pos
  <2>5. pos \in [Nodes -> Rank \ {0}]
    <3>1. pos = [n \in Nodes |-> pos[n]]
      BY DEF pos, Position
    <3>2. \A n \in Nodes : pos[n] \in Rank \ {0}
      BY <2>1, <2>2
    <3>3. QED
      BY <3>1, <3>2
  <2>6. \A n, m \in Nodes : pos[n] = pos[m] => n = m
    BY <2>2
  <2>7. ASSUME NEW e \in E PROVE pos[e.source] < pos[e.target]
    <3>1. PICK i \in 1 .. popped : i < pos[e.target] /\ line[i] = e.source
      BY <1>1, <2>2, <2>4 DEF ParentsPoppedFirst
    <3>2. pos[e.source] = i
      BY <2>1, <2>3, <2>4, <3>1
    <3>3. QED
      BY <3>1, <3>2
  <2>8. ASSUME NEW n \in Nodes
        PROVE  ReadyAt(E, pos, n) \in 0 .. popped /\ ReadyFrom(pos[n], ReadyAt(E, pos, n))
    <3> DEFINE Is(r) == /\ \A p \in Parents(E, n) : pos[p] <= r
                        /\ r = 0 \/ \E p \in Parents(E, n) : pos[p] = r
    <3>1. \A p : p \in Parents(E, n) <=> \E e \in E : e.target = n /\ e.source = p
      BY DEF Parents
    <3>2. ASSUME NEW r \in Rank PROVE Is(r) <=> ReadyFrom(pos[n], r)
      <4>1. \A p \in Nodes : (\E i \in 1 .. r : line[i] = p) <=> pos[p] <= r
        BY <2>1, <2>2, <2>3
      <4>2. r # 0 => \A p \in Nodes : line[r] = p <=> pos[p] = r
        BY <2>1, <2>2, <2>3
      <4>3. line[pos[n]] = n
        BY <2>2
      <4>4. (\A p \in Parents(E, n) : pos[p] <= r)
            <=> (\A e \in E : e.target = line[pos[n]] => \E i \in 1 .. r : line[i] = e.source)
        BY <2>4, <3>1, <4>1, <4>3
      <4>5. (r = 0 \/ \E p \in Parents(E, n) : pos[p] = r)
            <=> (r = 0 \/ \E e \in E : e.target = line[pos[n]] /\ e.source = line[r])
        BY <2>4, <3>1, <4>2, <4>3
      <4>6. QED
        BY <4>4, <4>5 DEF ReadyFrom
    <3>3. PICK r \in Rank : ReadyFrom(pos[n], r)
      BY <1>1, <2>1, <2>2 DEF IInv, ReadyInTime
    <3>4. Is(r)
      BY <3>2, <3>3
    <3>5. ReadyAt(E, pos, n) = CHOOSE q \in Rank : Is(q)
      BY DEF ReadyAt
    <3>6. ReadyAt(E, pos, n) \in Rank /\ Is(ReadyAt(E, pos, n))
      <4> HIDE DEF Is
      <4>1. QED
        BY <3>4, <3>5
    <3>7. QED
      BY <2>1, <3>2, <3>6
  <2>9. ASSUME NEW n \in Nodes, NEW m \in Nodes, pos[n] < pos[m]
        PROVE  ReadyAt(E, pos, n) <= ReadyAt(E, pos, m)
    BY <1>1, <2>2, <2>8, <2>9 DEF IInv, FirstReadyFirst
  <2>10. pos \in TopologicalOrders(E)
    BY <2>5, <2>6, <2>7, <2>9 DEF TopologicalOrders
  <2>11. QED
    BY <2>10 DEF pos
<1>2. IInv /\ ParentsPoppedFirst => ReturnsTopologicalOrder
  BY <1>1 DEF ReturnsTopologicalOrder
<1>3. QED
  BY <1>2, LoopInvariant, ParentsArePoppedFirst, PTL
-----------------------------------------------------------------------------
(* The layers. *)

\* Forgetting the depths, the layering loop is the sorting loop.
LEMMA LayeringSorts == LayeringSpec => Spec
<1>1. LayeringInit => Init
  BY DEF LayeringInit
<1>2. [LayeringNext]_layeringVars => [Next]_vars
  BY DEF LayeringNext, layeringVars, Next, LayeringPop, LayeringRelax, LayeringFinish, LayeringReturned
<1>3. QED
  BY <1>1, <1>2, PTL DEF LayeringSpec, Spec

LEMMA LayeringInitInv == LayeringInit => LayeringInv
<1> SUFFICES ASSUME LayeringInit PROVE LayeringInv
  OBVIOUS
<1>1. popped = 0 /\ Spent = {} /\ depth = [n \in Nodes |-> 0] /\ ~Dangling(graph)
  BY DEF LayeringInit, Init, Spent, Popped
<1>2. QED
  BY <1>1 DEF LayeringInv, SpentLeadsDown, DeepestParent, OrderOutrunsDepth

LEMMA LayeringPopKeepsInv ==
    ASSUME IInv, LayeringInv, LayeringPop
    PROVE  LayeringInv'
<1>1. /\ todo = {} /\ popped < Len(line) /\ popped' = popped + 1 /\ popped \in Nat
      /\ todo' = {e \in graph.edges : e.source = line[popped + 1]}
      /\ graph' = graph /\ line' = line /\ depth' = depth /\ Len(line) \in Nat
      /\ line \in Seq(Nodes)
  BY DEF LayeringPop, Pop, IInv, TypeOK
<1>2. Spent' = Spent
  <2>1. Popped' = Popped \cup {line[popped + 1]}
    BY <1>1 DEF Popped
  <2>2. line[popped + 1] \notin Popped
    BY <1>1 DEF IInv, NoneTwice, Popped
  <2>3. QED
    BY <1>1, <2>1, <2>2 DEF Spent
<1>3. depth' \in [Nodes -> 0 .. popped']
  BY <1>1 DEF LayeringInv
<1>4. SpentLeadsDown' /\ DeepestParent' /\ (~Dangling(graph))'
  BY <1>1, <1>2 DEF LayeringInv, SpentLeadsDown, DeepestParent, Dangling
<1>5. OrderOutrunsDepth'
  <2>1. line[popped + 1] \in Nodes
    BY <1>1
  <2>2. depth[line[popped + 1]] < popped + 1
    BY <1>1, <2>1 DEF LayeringInv
  <2>3. QED
    BY <1>1, <2>2 DEF LayeringInv, OrderOutrunsDepth
<1>6. QED
  BY <1>3, <1>4, <1>5 DEF LayeringInv

LEMMA LayeringRelaxKeepsInv ==
    ASSUME IInv, LayeringInv, NEW e \in todo, LayeringRelax(e)
    PROVE  LayeringInv'
<1> DEFINE t == e.target
           s == e.source
<1>1. /\ todo' = todo \ {e} /\ graph' = graph /\ popped' = popped
      /\ depth' = [depth EXCEPT ![t] = Larger(depth[t], depth[s] + 1)]
      /\ line' = IF in_deg[t] = 1 THEN Append(line, t) ELSE line
  BY DEF LayeringRelax, Relax
<1>2. /\ graph \in Graphs /\ e \in graph.edges /\ t \in Nodes /\ s \in Nodes
      /\ popped \in 1 .. Len(line) /\ Len(line) \in Nat /\ line \in Seq(Nodes)
      /\ s = line[popped]
      /\ \A f \in graph.edges : f.source \in Nodes /\ f.target \in Nodes
  BY GraphIsTyped DEF IInv, TypeOK, TodoIsCurrent
<1>3. \A i \in 1 .. popped : line'[i] = line[i] /\ line[i] \in Nodes
  BY <1>1, <1>2
<1>4. Popped' = Popped
  BY <1>1, <1>3 DEF Popped
<1>5. Spent' = Spent \cup {e}
  BY <1>1, <1>2, <1>4 DEF Spent, Popped
\* The target still waits for e, so it was not popped and no edge of its own is spent.
<1>6. t \notin Popped
  <2>1. e \in Remaining(t)
    BY <1>2 DEF Remaining, Spent
  <2>2. t \notin InLine
    BY <1>2, <2>1 DEF IInv, LineIsReady
  <2>3. Popped \subseteq InLine
    BY <1>2 DEF Popped, InLine
  <2>4. QED
    BY <2>2, <2>3
<1>7. s # t /\ \A f \in Spent : f.source # t
  BY <1>2, <1>6 DEF Popped, Spent
<1>8. depth \in [Nodes -> Nat]
  BY <1>2 DEF LayeringInv
<1>9. /\ depth' \in [Nodes -> Nat]
      /\ \A n \in Nodes : n # t => depth'[n] = depth[n]
      /\ depth'[t] = Larger(depth[t], depth[s] + 1)
  BY <1>1, <1>2, <1>8 DEF Larger
<1>10. depth' \in [Nodes -> 0 .. popped']
  <2>1. depth[s] + 1 <= popped
    BY <1>2, <1>8 DEF LayeringInv, OrderOutrunsDepth
  <2>2. \A n \in Nodes : depth'[n] \in 0 .. popped
    BY <1>2, <1>8, <1>9, <2>1 DEF Larger, LayeringInv
  <2>3. QED
    BY <1>1, <1>9, <2>2
<1>11. SpentLeadsDown'
  <2> SUFFICES ASSUME NEW f \in Spent \cup {e} PROVE depth'[f.source] < depth'[f.target]
    BY <1>5 DEF SpentLeadsDown
  <2>1. f.source \in Nodes /\ f.target \in Nodes /\ f.source # t
    BY <1>2, <1>7 DEF Spent
  <2>2. depth'[f.source] = depth[f.source]
    BY <1>9, <2>1
  <2>3. CASE f = e
    BY <1>8, <1>9, <2>1, <2>2, <2>3 DEF Larger
  <2>4. CASE f \in Spent
    <3>1. depth[f.source] < depth[f.target]
      BY <2>4 DEF LayeringInv, SpentLeadsDown
    <3>2. depth[f.target] <= depth'[f.target]
      BY <1>8, <1>9, <2>1 DEF Larger
    <3>3. QED
      BY <1>8, <1>9, <2>1, <2>2, <3>1, <3>2
  <2>5. QED
    BY <2>3, <2>4
<1>12. DeepestParent'
  <2> SUFFICES ASSUME NEW n \in Nodes, depth'[n] # 0
               PROVE  \E f \in Spent \cup {e} : f.target = n /\ depth'[n] = depth'[f.source] + 1
    BY <1>5 DEF DeepestParent
  <2>1. CASE depth'[n] = depth[n]
    <3>1. PICK f \in Spent : f.target = n /\ depth[n] = depth[f.source] + 1
      BY <2>1 DEF LayeringInv, DeepestParent
    <3>2. depth'[f.source] = depth[f.source]
      BY <1>2, <1>7, <1>9 DEF Spent
    <3>3. QED
      BY <2>1, <3>1, <3>2
  <2>2. CASE depth'[n] # depth[n]
    <3>1. n = t /\ depth'[n] = depth[s] + 1
      BY <1>9, <2>2 DEF Larger
    <3>2. depth'[s] = depth[s]
      BY <1>2, <1>7, <1>9
    <3>3. QED
      BY <3>1, <3>2
  <2>3. QED
    BY <2>1, <2>2
<1>13. OrderOutrunsDepth'
  <2>1. ASSUME NEW i \in 1 .. popped PROVE depth'[line'[i]] < i
    <3>1. line'[i] = line[i] /\ line[i] \in Nodes /\ line[i] # t
      BY <1>3, <1>6 DEF Popped
    <3>2. QED
      BY <1>9, <3>1 DEF LayeringInv, OrderOutrunsDepth
  <2>2. QED
    BY <1>1, <2>1 DEF OrderOutrunsDepth
<1>14. QED
  BY <1>1, <1>10, <1>11, <1>12, <1>13 DEF LayeringInv, Dangling

\* The layering's invariant holds throughout.
THEOREM LayeringInvariant == LayeringSpec => [](IInv /\ LayeringInv)
<1>1. IInv /\ LayeringInv /\ [LayeringNext]_layeringVars => LayeringInv'
  <2> SUFFICES ASSUME IInv, LayeringInv, [LayeringNext]_layeringVars PROVE LayeringInv'
    OBVIOUS
  <2>1. CASE UNCHANGED <<graph, line, popped, todo, depth>>
    <3>1. Spent' = Spent
      BY <2>1 DEF Spent, Popped
    <3>2. QED
      BY <2>1, <3>1 DEF LayeringInv, SpentLeadsDown, DeepestParent, OrderOutrunsDepth, Dangling
  <2>2. CASE LayeringFinish \/ LayeringReturned \/ UNCHANGED layeringVars
    BY <2>1, <2>2 DEF LayeringFinish, Finish, LayeringReturned, Returned, layeringVars, vars
  <2>3. QED
    BY <2>2, LayeringPopKeepsInv, LayeringRelaxKeepsInv DEF LayeringNext
<1>2. QED
  BY <1>1, LayeringInitInv, LayeringSorts, LoopInvariant, PTL DEF LayeringSpec

\* A child of a node, and whatever it leads to, lies in a later layer.
LEMMA LaterLayers ==
    ASSUME IInv, NEW n \in Nodes, \A e \in graph.edges : depth[e.source] < depth[e.target],
           depth \in [Nodes -> Nat]
    PROVE  \A m \in Descendants(graph.edges, n) : depth[n] < depth[m]
<1> DEFINE Later == {m \in Nodes : depth[n] < depth[m]}
<1>1. \A e \in graph.edges : e.source \in Nodes /\ e.target \in Nodes
  BY GraphIsTyped DEF IInv, TypeOK
<1>2. Children(graph.edges, n) \subseteq Later
  BY <1>1 DEF Children
<1>3. Closed(graph.edges, Later)
  BY <1>1 DEF Closed
<1>4. QED
  BY <1>2, <1>3 DEF Descendants, DescendantsFrom

\* When every node was ordered, every edge has been taken off.
LEMMA AllSpent ==
    ASSUME IInv, ~Dangling(graph), outcome = "sorted"
    PROVE  Spent = graph.edges
<1>1. InLine = graph.nodes /\ popped = Len(line) /\ todo = {}
  BY FullLine DEF IInv, OutcomeIsFinal
<1>2. QED
  BY <1>1 DEF Spent, Popped, InLine, Dangling

\* An order has no more members than there are nodes.
LEMMA LineIsShort == ASSUME IInv PROVE Len(line) <= Cardinality(Nodes)
<1> DEFINE n == Len(line)
           f == [i \in 1 .. n |-> line[i]]
<1>1. n \in Nat /\ line \in Seq(Nodes)
  BY DEF IInv, TypeOK
<1>2. f \in Injection(1 .. n, Nodes)
  BY <1>1 DEF Injection, IsInjective, IInv, NoneTwice
<1> HIDE DEF n
<1>3. Cardinality(1 .. n) <= Cardinality(Nodes)
  BY <1>2, FS_Injection
<1>4. Cardinality(1 .. n) = IF 1 > n THEN 0 ELSE n - 1 + 1
  <2>1. n \in Int /\ 1 \in Int
    BY <1>1
  <2>2. QED
    BY <2>1, FS_Interval, Zenon
<1>5. Cardinality(Nodes) \in Nat
  BY FS_CardinalityType
<1>6. n <= Cardinality(Nodes)
  BY <1>1, <1>3, <1>4, <1>5
<1>7. QED
  BY <1>6 DEF n

\* Depths stay within the number of nodes.
THEOREM DepthsAreBounded == LayeringSpec => []DepthOK
<1>1. IInv /\ LayeringInv => DepthOK
  <2> SUFFICES ASSUME IInv, LayeringInv PROVE popped <= Cardinality(Nodes)
    BY DEF DepthOK, LayeringInv
  <2>1. popped <= Len(line) /\ popped \in Nat /\ Len(line) \in Nat
    BY DEF IInv, TypeOK
  <2>2. Cardinality(Nodes) \in Nat
    BY FS_CardinalityType
  <2>3. QED
    BY <2>1, <2>2, LineIsShort
<1>2. QED
  BY <1>1, LayeringInvariant, PTL

\* Nodes that share a layer have no path between them.
THEOREM NoPathWithinALayer == LayeringSpec => []PathsLeadToLaterLayers
<1>1. IInv /\ LayeringInv => PathsLeadToLaterLayers
  <2> SUFFICES ASSUME IInv, LayeringInv, outcome = "sorted", NEW n \in Nodes
               PROVE  \A m \in Descendants(graph.edges, n) : depth[n] < depth[m]
    BY DEF PathsLeadToLaterLayers
  <2>1. \A e \in graph.edges : depth[e.source] < depth[e.target]
    BY AllSpent DEF LayeringInv, SpentLeadsDown
  <2>2. depth \in [Nodes -> Nat]
    BY DEF LayeringInv, IInv, TypeOK
  <2>3. QED
    BY <2>1, <2>2, LaterLayers
<1>2. QED
  BY <1>1, LayeringInvariant, PTL

\* The layers are those that FlowGraph defines.
THEOREM ReturnsDependencyLayers == LayeringSpec => []LayersAreDependencyLayers
<1>1. IInv /\ LayeringInv /\ DepthOK => LayersAreDependencyLayers
  <2> SUFFICES ASSUME IInv, LayeringInv, DepthOK, outcome = "sorted", graph.nodes = Nodes
               PROVE  depth \in DependencyLayers(graph.edges)
    BY DEF LayersAreDependencyLayers
  <2>1. \A e \in graph.edges : depth[e.source] < depth[e.target]
    BY AllSpent DEF LayeringInv, SpentLeadsDown
  <2>2. \A n \in Nodes : depth[n] = 0 \/ \E p \in Parents(graph.edges, n) : depth[n] = depth[p] + 1
    BY AllSpent DEF LayeringInv, DeepestParent, Parents
  <2>3. depth \in [Nodes -> Rank]
    <3>1. Cardinality(Nodes) \in Nat /\ popped \in Nat
      BY FS_CardinalityType DEF IInv, TypeOK
    <3>2. QED
      BY <3>1 DEF DepthOK, Rank
  <2>4. QED
    BY <2>1, <2>2, <2>3 DEF DependencyLayers
<1>2. QED
  BY <1>1, LayeringInvariant, DepthsAreBounded, PTL
=============================================================================
