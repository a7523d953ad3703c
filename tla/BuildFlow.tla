------------------------------ MODULE BuildFlow ------------------------------
(* AI notes are built into processors (api/agent.py, build_flow): the notes are sorted, and
   each is generated in turn with what is known of the columns of the notes above it.

   What the language model writes is a choice: code or none, with or without the line that
   lists its columns.  Two edges between the same nodes count as one. *)
EXTENDS Naturals, Sequences, FiniteSets, SequencesExt

CONSTANTS
    Nodes,      \* the ids of the flow's nodes, listed in any order
    AiNodes,    \* those that are AI notes
    Declares,   \* those whose output columns the user declared
    None,
    MaxEdges    \* bound

\* assumed of every instance, by the module that makes it
BuildFlowAssumption ==
    /\ Declares \subseteq AiNodes /\ AiNodes \subseteq Nodes /\ MaxEdges \in Nat
    /\ IsFiniteSet(Nodes) /\ None \notin Nodes \cup {"declared", "parsed"}

VARIABLES
    E,              \* the edges, <<source, target>>
    indeg, q, order,
    passed,         \* how many of order the loop over it has taken
    pc, note,       \* where build_flow stands, and the note it is at
    told,           \* per note: the columns its request names, and whose they are
    known_cols,     \* per note: "declared", "parsed", or None
    built, errors
vars == <<E, indeg, q, order, passed, pc, note, told, known_cols, built, errors>>

parents(n) == {m \in Nodes : <<m, n>> \in E}
children(n) == {m \in Nodes : <<n, m>> \in E}

Init ==
    /\ E \in {F \in SUBSET (Nodes \X Nodes) : Cardinality(F) <= MaxEdges}
    /\ indeg = [n \in Nodes |-> Cardinality(parents(n))]
    /\ q \in SetToSeqs({n \in Nodes : indeg[n] = 0})
    /\ order = <<>> /\ passed = 0
    /\ pc = IF AiNodes = {} THEN "done" ELSE "sort"
    /\ note = None
    /\ told = [n \in AiNodes |-> {}]
    /\ known_cols = [n \in AiNodes |-> None]
    /\ built = {} /\ errors = {}

\* Mutated form: a child is queued when the first of its parents is popped.
ReadyEarly(n) == {c \in children(n) : indeg[c] = Cardinality(parents(c))}

(* The children of n whose last edge goes with n. *)
Ready(n) == {c \in children(n) : indeg[c] = 1}

Pop ==
    /\ pc = "sort" /\ q # <<>>
    /\ LET n == Head(q) IN
          /\ indeg' = [m \in Nodes |-> IF m \in children(n) THEN indeg[m] - 1 ELSE indeg[m]]
          /\ order' = Append(order, n)
          /\ \E s \in SetToSeqs(Ready(n)) : q' = Tail(q) \o s
    /\ UNCHANGED <<E, passed, pc, note, told, known_cols, built, errors>>

Walk ==
    /\ pc = "sort" /\ q = <<>>
    /\ pc' = "walk"
    /\ UNCHANGED <<E, indeg, q, order, passed, note, told, known_cols, built, errors>>

(* for nid in order *)
Takes(n) ==
    /\ pc = "walk" /\ passed < Len(order)
    /\ n = order[passed + 1] /\ passed' = passed + 1
    /\ UNCHANGED <<E, indeg, q, order, known_cols, built, errors>>

(* A node that is no AI note is passed over. *)
Skip == \E n \in Nodes \ AiNodes : Takes(n) /\ UNCHANGED <<pc, note, told>>

(* up_cols: the parents whose columns are known. *)
up_cols(n) == {m \in parents(n) \cap AiNodes : known_cols[m] # None}

Ask ==
    \E n \in AiNodes :
        /\ Takes(n)
        /\ note' = n /\ pc' = "generate"
        /\ told' = [told EXCEPT ![n] = {<<m, known_cols[m]>> : m \in up_cols(n)}]

(* The declared columns beat those that the code lists, if it does. *)
Columns(n) == IF n \in Declares THEN {"declared"} ELSE {"parsed", None}

(* generate_code: the active provider fails or writes nothing; or there is none, or it cannot
   be looked up, and then the key in the environment is missing, or fails too. *)
Fail ==
    /\ pc = "generate"
    /\ errors' = errors \cup {note} /\ note' = None /\ pc' = "walk"
    /\ UNCHANGED <<E, indeg, q, order, passed, told, known_cols, built>>

(* generate_code returns what the provider, or the key in the environment, wrote. *)
Build ==
    /\ pc = "generate"
    /\ \E cols \in Columns(note) : known_cols' = [known_cols EXCEPT ![note] = cols]
    /\ built' = built \cup {note} /\ note' = None /\ pc' = "walk"
    /\ UNCHANGED <<E, indeg, q, order, passed, told, errors>>

Return ==
    /\ pc = "walk" /\ passed = Len(order)
    /\ pc' = "done"
    /\ UNCHANGED <<E, indeg, q, order, passed, note, told, known_cols, built, errors>>

Done == pc = "done" /\ UNCHANGED vars

Step == Pop \/ Walk \/ Skip \/ Ask \/ Fail \/ Build \/ Return
Next == Step \/ Done

Spec == Init /\ [][Next]_vars
FairSpec == Spec /\ WF_vars(Step)

-----------------------------------------------------------------------------
Answered == built \cup errors

\* Shapes; a note is answered once, and only what was built has columns.
TypeOK ==
    /\ E \subseteq Nodes \X Nodes
    /\ indeg \in [Nodes -> 0..Cardinality(Nodes)]
    /\ q \in Seq(Nodes) /\ order \in Seq(Nodes) /\ passed \in 0..Len(order)
    /\ pc \in {"sort", "walk", "generate", "done"}
    /\ note \in AiNodes \cup {None}
    /\ told \in [AiNodes -> SUBSET (AiNodes \X {"declared", "parsed"})]
    /\ known_cols \in [AiNodes -> {"declared", "parsed", None}]
    /\ built \subseteq AiNodes /\ errors \subseteq AiNodes /\ built \cap errors = {}

\* The request of a note names the columns of every note right above it that was ever given
\* columns in this build, and no others: none of them is built after it.
ToldAllThatIsKnown ==
    \A n \in Answered :
        told[n] = {<<m, known_cols[m]>> : m \in {p \in parents(n) \cap AiNodes : known_cols[p] # None}}

\* Where one can go up from parent to parent for ever: on a cycle, or below one.
BelowCycle(n) == \E S \in SUBSET Nodes : n \in S /\ \A m \in S : parents(m) \cap S # {}

\* A note is passed over in silence only on a cycle or below one; a note that fails stops no other.
AnsweredUnlessCyclic ==
    pc = "done" => AiNodes \ Answered = {n \in AiNodes : BelowCycle(n)}

\* NodeToolbar.tsx:70 says 'No AI notes found to build.' when nothing was built and nothing failed.
NoAnswerNoNotes == pc = "done" /\ Answered = {} => AiNodes = {}

\* The build comes back: every call of a provider has a time limit.
BuildEnds == <>(pc = "done")
=============================================================================
