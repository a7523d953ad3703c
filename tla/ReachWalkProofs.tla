--------------------------- MODULE ReachWalkProofs ---------------------------
(***************************************************************************)
(* Theorem about ReachWalk: the walk computes FlowGraph's DescendantsFrom. *)
(***************************************************************************)
EXTENDS ReachWalk, FiniteSetTheorems, SequenceTheorems, TLAPS

USE ReachWalkAssumption, FlowGraphAssumption

LEMMA WalkIsTyped ==
    ASSUME walk \in Walks
    PROVE  /\ walk.edges \subseteq Edge /\ walk.starts \subseteq Nodes /\ IsFiniteSet(walk.edges)
           /\ \A e \in walk.edges : e.source \in Nodes /\ e.target \in Nodes
BY DEF Edge

\* A listing is a sequence with the members of the set.
LEMMA ListingsList ==
    ASSUME NEW S, IsFiniteSet(S), NEW l \in Listings(S)
    PROVE  /\ l \in Seq(S) /\ Len(l) \in Nat /\ DOMAIN l = 1 .. Len(l)
           /\ S = {l[i] : i \in 1 .. Len(l)}
<1>1. Cardinality(S) \in Nat
  BY FS_CardinalityType
<1>2. QED
  BY <1>1 DEF Listings

\* adj[n] lists the children of n.
LEMMA AdjacentLists ==
    ASSUME walk \in Walks, NEW n \in Nodes, NEW next \in Adjacent(n)
    PROVE  /\ next \in Seq(Nodes)
           /\ {next[i] : i \in 1 .. Len(next)} = Children(walk.edges, n)
<1> DEFINE Out == {e \in walk.edges : e.source = n}
<1>1. PICK l \in Listings(Out) : next = [i \in DOMAIN l |-> l[i].target]
  BY DEF Adjacent
<1>2. IsFiniteSet(Out)
  <2>1. Out \in SUBSET walk.edges
    OBVIOUS
  <2>2. QED
    BY <2>1, WalkIsTyped, FS_Subset
<1>3. /\ l \in Seq(Out) /\ Len(l) \in Nat /\ DOMAIN l = 1 .. Len(l)
      /\ Out = {l[i] : i \in 1 .. Len(l)}
  <2> HIDE DEF Out
  <2>1. QED
    BY <1>1, <1>2, ListingsList
<1>4. next \in [1 .. Len(l) -> Nodes]
  <2>1. \A i \in 1 .. Len(l) : l[i] \in Out
    BY <1>3
  <2>2. \A i \in 1 .. Len(l) : l[i].target \in Nodes
    BY <2>1, WalkIsTyped
  <2>3. next = [i \in 1 .. Len(l) |-> l[i].target]
    BY <1>1, <1>3
  <2>4. QED
    BY <2>2, <2>3
<1>5. next \in Seq(Nodes) /\ Len(next) = Len(l)
  BY <1>3, <1>4
<1>6. QED
  BY <1>1, <1>3, <1>5 DEF Children

LEMMA DescendantsClosed ==
    ASSUME walk \in Walks
    PROVE  /\ walk.starts \subseteq DescendantsFrom(walk.edges, walk.starts)
           /\ DescendantsFrom(walk.edges, walk.starts) \subseteq Nodes
           /\ \A e \in walk.edges : e.source \in DescendantsFrom(walk.edges, walk.starts)
                  => e.target \in DescendantsFrom(walk.edges, walk.starts)
BY WalkIsTyped DEF DescendantsFrom, Closed

\* Popping and pushing, in terms of the set of nodes on the stack.
LEMMA StackAsSet ==
    ASSUME WalkTypeOK, stack # <<>>, NEW next \in Seq(Nodes)
    PROVE  /\ Top \in Nodes /\ Top \in OnStack
           /\ Below \in Seq(Nodes)
           /\ OnStack = {Below[i] : i \in 1 .. Len(Below)} \cup {Top}
           /\ Below \o next \in Seq(Nodes)
           /\ {(Below \o next)[i] : i \in 1 .. Len(Below \o next)}
                  = {Below[i] : i \in 1 .. Len(Below)} \cup {next[i] : i \in 1 .. Len(next)}
<1> DEFINE n == Len(stack)
<1>1. stack \in Seq(Nodes) /\ n \in Nat \ {0}
  BY DEF WalkTypeOK
<1>2. Top \in Nodes /\ Top \in OnStack
  BY <1>1 DEF Top, OnStack
<1>3. Below \in Seq(Nodes) /\ Len(Below) = n - 1 /\ \A i \in 1 .. n - 1 : Below[i] = stack[i]
  <2>1. PICK m \in Nat : m = n - 1
    BY <1>1
  <2>2. 1 \in Int /\ m \in Int /\ \A i \in 1 .. m : stack[i] \in Nodes
    BY <1>1, <2>1
  <2>3. /\ SubSeq(stack, 1, m) \in Seq(Nodes)
        /\ Len(SubSeq(stack, 1, m)) = IF 1 <= m THEN m - 1 + 1 ELSE 0
        /\ \A i \in 1 .. m - 1 + 1 : SubSeq(stack, 1, m)[i] = stack[1 + i - 1]
    BY <2>2, SubSeqProperties
  <2>4. \A i \in 1 .. m : i \in 1 .. m - 1 + 1 /\ 1 + i - 1 = i
    BY <2>1
  <2>5. QED
    BY <2>1, <2>3, <2>4 DEF Below
<1>4. OnStack = {Below[i] : i \in 1 .. Len(Below)} \cup {Top}
  <2>1. {Below[i] : i \in 1 .. Len(Below)} = {stack[i] : i \in 1 .. n - 1}
    BY <1>3
  <2>2. 1 .. n = (1 .. n - 1) \cup {n}
    BY <1>1
  <2>3. {stack[i] : i \in 1 .. n} = {stack[i] : i \in 1 .. n - 1} \cup {stack[n]}
    BY <2>2
  <2>4. QED
    BY <2>1, <2>3 DEF OnStack, Top
<1>5. \A r \in Seq(Nodes) :
          /\ r \o next \in Seq(Nodes)
          /\ {(r \o next)[i] : i \in 1 .. Len(r \o next)}
                 = {r[i] : i \in 1 .. Len(r)} \cup {next[i] : i \in 1 .. Len(next)}
  <2> TAKE r \in Seq(Nodes)
  <2>1. /\ r \o next \in Seq(Nodes) /\ Len(r \o next) = Len(r) + Len(next)
        /\ \A i \in 1 .. Len(r) : (r \o next)[i] = r[i]
        /\ \A i \in 1 .. Len(next) : (r \o next)[Len(r) + i] = next[i]
    OBVIOUS
  <2>2. /\ Len(r) \in Nat /\ Len(next) \in Nat
        /\ \A i \in 1 .. Len(r) + Len(next) : i \in 1 .. Len(r) \/ i - Len(r) \in 1 .. Len(next)
    OBVIOUS
  <2>3. {(r \o next)[i] : i \in 1 .. Len(r \o next)}
            \subseteq {r[i] : i \in 1 .. Len(r)} \cup {next[i] : i \in 1 .. Len(next)}
    <3> SUFFICES ASSUME NEW i \in 1 .. Len(r) + Len(next)
                 PROVE  (r \o next)[i] \in {r[k] : k \in 1 .. Len(r)} \cup {next[k] : k \in 1 .. Len(next)}
      BY <2>1
    <3>1. CASE i \in 1 .. Len(r)
      BY <2>1, <3>1
    <3>2. CASE i - Len(r) \in 1 .. Len(next)
      <4>1. i = Len(r) + (i - Len(r))
        BY <2>2
      <4>2. (r \o next)[i] = next[i - Len(r)]
        BY <2>1, <3>2, <4>1
      <4>3. QED
        BY <3>2, <4>2
    <3>3. QED
      BY <2>2, <3>1, <3>2
  <2>4. {r[i] : i \in 1 .. Len(r)} \cup {next[i] : i \in 1 .. Len(next)}
            \subseteq {(r \o next)[i] : i \in 1 .. Len(r \o next)}
    <3>1. /\ \A i \in 1 .. Len(r) : i \in 1 .. Len(r \o next)
          /\ \A i \in 1 .. Len(next) : Len(r) + i \in 1 .. Len(r \o next)
      BY <2>1, <2>2
    <3>2. QED
      BY <2>1, <3>1
  <2>5. QED
    BY <2>1, <2>3, <2>4
<1>6. QED
  BY <1>2, <1>3, <1>4, <1>5

\* The walk's invariant: nothing reachable is forgotten, nothing else is visited.
THEOREM WalkInvariant == WalkSpec => []WalkInv
<1>1. WalkInit => WalkInv
  <2> SUFFICES ASSUME WalkInit PROVE WalkInv
    OBVIOUS
  <2>1. walk \in Walks /\ seen = {} /\ IsFiniteSet(walk.starts) /\ walk.starts \subseteq Nodes
    BY WalkIsTyped, FS_Subset DEF WalkInit
  <2>2. stack \in Seq(Nodes) /\ OnStack = walk.starts
    BY <2>1, ListingsList DEF WalkInit, OnStack
  <2>3. QED
    BY <2>1, <2>2, DescendantsClosed DEF WalkInv, WalkTypeOK, NothingForgotten, OnlyReachable
<1>2. WalkInv /\ [WalkNext]_walkVars => WalkInv'
  <2> SUFFICES ASSUME WalkInv, [WalkNext]_walkVars PROVE WalkInv'
    OBVIOUS
  <2>1. CASE SkipSeen
    <3>1. stack # <<>> /\ Top \in seen /\ stack' = Below /\ walk' = walk /\ seen' = seen
      BY <2>1 DEF SkipSeen
    <3>2. <<>> \in Seq(Nodes)
      OBVIOUS
    <3>3. Below \in Seq(Nodes) /\ OnStack = {Below[i] : i \in 1 .. Len(Below)} \cup {Top}
      BY <3>1, <3>2, StackAsSet DEF WalkInv
    <3>4. stack' \in Seq(Nodes) /\ OnStack = OnStack' \cup {Top}
      BY <3>1, <3>3 DEF OnStack
    <3>5. QED
      BY <3>1, <3>4 DEF WalkInv, WalkTypeOK, NothingForgotten, OnlyReachable
  <2>2. CASE Visit
    <3>1. /\ stack # <<>> /\ seen' = seen \cup {Top} /\ walk' = walk
          /\ \E next \in Adjacent(Top) : stack' = Below \o next
      BY <2>2 DEF Visit
    <3>2. PICK next \in Adjacent(Top) : stack' = Below \o next
      BY <3>1
    <3>3. Top \in Nodes /\ Top \in OnStack
      <4>1. <<>> \in Seq(Nodes)
        OBVIOUS
      <4>2. QED
        BY <3>1, <4>1, StackAsSet DEF WalkInv
    <3>4. next \in Seq(Nodes) /\ {next[i] : i \in 1 .. Len(next)} = Children(walk.edges, Top)
      BY <3>2, <3>3, AdjacentLists DEF WalkInv, WalkTypeOK
    <3>5. /\ stack' \in Seq(Nodes)
          /\ OnStack' \cup {Top} = OnStack \cup Children(walk.edges, Top)
          /\ OnStack \subseteq OnStack' \cup {Top}
          /\ Children(walk.edges, Top) \subseteq OnStack'
      <4>1. /\ Below \o next \in Seq(Nodes)
            /\ OnStack = {Below[i] : i \in 1 .. Len(Below)} \cup {Top}
            /\ {(Below \o next)[i] : i \in 1 .. Len(Below \o next)}
                   = {Below[i] : i \in 1 .. Len(Below)} \cup Children(walk.edges, Top)
        BY <3>1, <3>4, StackAsSet DEF WalkInv
      <4>2. OnStack' = {Below[i] : i \in 1 .. Len(Below)} \cup Children(walk.edges, Top)
        BY <3>2, <4>1 DEF OnStack
      <4>3. QED
        BY <3>2, <4>1, <4>2
    <3>6. WalkTypeOK'
      BY <3>1, <3>3, <3>5 DEF WalkInv, WalkTypeOK
    <3>7. NothingForgotten'
      BY <3>1, <3>5 DEF WalkInv, NothingForgotten, Children
    <3>8. OnlyReachable'
      <4>1. Children(walk.edges, Top) \subseteq DescendantsFrom(walk.edges, walk.starts)
        BY <3>3, DescendantsClosed DEF WalkInv, WalkTypeOK, OnlyReachable, Children
      <4>2. QED
        BY <3>1, <3>3, <3>5, <4>1 DEF WalkInv, OnlyReachable
    <3>9. QED
      BY <3>6, <3>7, <3>8 DEF WalkInv
  <2>3. CASE UNCHANGED walkVars
    BY <2>3 DEF walkVars, WalkInv, WalkTypeOK, NothingForgotten, OnlyReachable, OnStack
  <2>4. QED
    BY <2>1, <2>2, <2>3 DEF WalkNext, WalkReturned
<1>3. QED
  BY <1>1, <1>2, PTL DEF WalkSpec

\* When the stack is empty the nodes seen are those reachable from the starts.
THEOREM WalkSeesDescendants == WalkSpec => []SeesDescendants
<1>1. WalkInv => SeesDescendants
  <2> SUFFICES ASSUME WalkInv, stack = <<>>
               PROVE  seen = DescendantsFrom(walk.edges, walk.starts)
    BY DEF SeesDescendants
  <2>1. OnStack = {}
    BY DEF OnStack
  <2>2. seen \subseteq Nodes /\ walk.starts \subseteq seen /\ Closed(walk.edges, seen)
    BY <2>1 DEF WalkInv, WalkTypeOK, NothingForgotten, Closed
  <2>3. DescendantsFrom(walk.edges, walk.starts) \subseteq seen
    BY <2>2 DEF DescendantsFrom
  <2>4. QED
    BY <2>3 DEF WalkInv, OnlyReachable
<1>2. QED
  BY <1>1, WalkInvariant, PTL
=============================================================================
