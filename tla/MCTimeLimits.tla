----------------------------- MODULE MCTimeLimits -----------------------------
(* Instances for TLC of what waits with a time limit for others: for the runner of a plugin, for a
   database that Explore queries, for the provider that writes the code of AI notes.  They share
   no state in the code, so a behaviour is one of them, and the others stay as they began. *)
EXTENDS IsolatedRun, SequencesExt

CONSTANTS
    Requests, Tasks, Connections, Dialects, MaxAsked,
    Nodes, AiNodes, Declares, MaxEdges

VARIABLES
    part,
    dialect, readonly, responsive, limit, task, waits, asked, outcome,
    E, indeg, q, order, passed, build, note, told, known_cols, built, errors

poolVars  == <<dialect, readonly, responsive, limit, task, waits, asked, outcome>>
buildVars == <<E, indeg, q, order, passed, build, note, told, known_cols, built, errors>>
limitsVars == <<part, vars, poolVars, buildVars>>

Pool  == INSTANCE LivePool
Build == INSTANCE BuildFlow WITH pc <- build

ASSUME TimeLimitsAssumption == Pool!LivePoolAssumption /\ Build!BuildFlowAssumption

LimitsInit ==
    /\ part \in {"runner", "pool", "build"}
    /\ Init /\ (part # "runner" => writable /\ ~windows)
    /\ Pool!Init /\ (part # "pool" => dialect = "local" /\ responsive)
    /\ (part # "build" => E = {} /\ q = SetToSeq(Nodes)) /\ Build!Init

Runs(A) == part = "runner" /\ A /\ UNCHANGED <<part, poolVars, buildVars>>
Pooled(A) == part = "pool" /\ A /\ UNCHANGED <<part, vars, buildVars>>
Builds(A) == part = "build" /\ A /\ UNCHANGED <<part, vars, poolVars>>

LimitsNext == Runs(Next) \/ Pooled(Pool!Next) \/ Builds(Build!Next)

(* The fairness of each: threads and time go on.  Nothing is assumed of the runner and the
   provider, and of the database only what "responsive" says. *)
TimeLimits ==
    /\ LimitsInit /\ [][LimitsNext]_limitsVars
    /\ WF_limitsVars(Runs(Works))
    /\ \A t \in Tasks : WF_limitsVars(Pooled(Pool!Works(t))) /\ WF_limitsVars(Pooled(Pool!LimitRunsOut(t)))
    /\ \A r \in Requests : WF_limitsVars(Pooled(Pool!GivesUp(r)))
    /\ WF_limitsVars(Builds(Build!Step))

\* live.py: _execute.  A statement timeout is in force for the chart query it was set for and,
\* where the pool or the server clears it, for nothing else.
OnlyOwnLimit == Pool!OnlyOwnLimit

\* agent.py: build_flow.  A note is told the columns of all notes right above it that have some,
\* and is passed over only on a cycle or below one.
NotesToldAllThatIsKnown == Build!ToldAllThatIsKnown /\ Build!AnsweredUnlessCyclic

\* runtime.py: run_isolated; live.py: _execute; agent.py: build_flow.  A run ends whatever the
\* runner does, but for a pipe that is held open on Windows; a chart, whatever the database does
\* where the program itself gives up, and otherwise if the database comes back from round trips; a
\* build, whatever the provider says.
LimitedOnesEnd == (part = "runner" => RunEnds) /\ Pool!ChartsEnd /\ (part = "build" => Build!BuildEnds)
=============================================================================
