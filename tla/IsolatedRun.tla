----------------------------- MODULE IsolatedRun ------------------------------
(* engine/runtime.py: one run of a plugin's work in another interpreter.  The runner is the
   plugin author's code: it prints, writes, forks, crashes or hangs as it likes.

   A line is the response ("ok", "not ok"), another JSON object ("object"), anything else
   ("text"), or not text at all ("binary").  A process that the runner forked may keep its stdout
   open after it has ended. *)
EXTENDS Naturals, Sequences

CONSTANTS None, MaxLines  \* bound

VARIABLES
    windows,    \* BOOLEAN: is the backend run on Windows?
    pc,         \* where run_isolated is
    job,        \* does the job directory exist?
    writable,   \* can the input frame be written as Arrow?
    child,      \* the runner: None, running, or how it ended
    forked,     \* does another process hold its stdout?
    printed, output,    \* the runner's lines, and its output file
    result      \* what run_isolated returned or raised
vars == <<windows, pc, job, writable, child, forked, printed, output, result>>

Objects == {"ok", "not ok", "object"}
Lines == Objects \cup {"text", "binary"}
Exited == {"exit 0", "exit 1"}
Raised == {"no interpreter", "ArrowInvalid", "timed out", "UnicodeDecodeError", "exit code", "no response",
           "reported", "no output"}

ASSUME IsolatedAssumption ==
    /\ MaxLines \in Nat
    /\ None \notin Lines \cup Exited \cup {"running", "killed"} \cup Raised \cup {"table"}

NoResult == [end |-> None, log |-> <<>>]

Init ==
    /\ pc = "start" /\ job = FALSE
    /\ writable \in BOOLEAN /\ windows \in BOOLEAN
    /\ child = None /\ forked = FALSE
    /\ printed = <<>> /\ output = "none"
    /\ result = NoResult

-----------------------------------------------------------------------------
Runner == UNCHANGED <<child, forked, printed, output>>

fixed == <<writable, windows>>

(* The interpreter or the script is missing: nothing has been made yet. *)
NotFound ==
    /\ pc = "start"
    /\ pc' = "end" /\ result' = [end |-> "no interpreter", log |-> <<>>]
    /\ UNCHANGED <<job, fixed>> /\ Runner

MakeJob == pc = "start" /\ pc' = "write" /\ job' = TRUE /\ UNCHANGED <<fixed, result>> /\ Runner

\* try ... finally: every way out goes by the removal of the directory.
Out(end, log) == pc' = "out" /\ result' = [end |-> end, log |-> log]

WriteInputs ==
    /\ pc = "write"
    /\ \/ writable /\ pc' = "spawn" /\ UNCHANGED result
       \/ ~writable /\ Out("ArrowInvalid", <<>>)
    /\ UNCHANGED <<job, fixed>> /\ Runner

Spawn == pc = "spawn" /\ pc' = "run" /\ child' = "running" /\ UNCHANGED <<job, fixed, forked, printed, output, result>>

(* What the runner does, main() with the node's code in it. *)
Prints == /\ child = "running" /\ Len(printed) < MaxLines
          /\ \E l \in Lines : printed' = Append(printed, l)
          /\ UNCHANGED <<pc, job, fixed, child, forked, output, result>>
Writes == /\ child = "running" /\ output # "whole"
          /\ output' = IF output = "none" THEN "part" ELSE "whole"
          /\ UNCHANGED <<pc, job, fixed, child, forked, printed, result>>
Forks == child = "running" /\ forked' = TRUE /\ UNCHANGED <<pc, job, fixed, child, printed, output, result>>
Exits == child = "running" /\ child' \in Exited /\ UNCHANGED <<pc, job, fixed, forked, printed, output, result>>
Releases == forked /\ forked' = FALSE /\ UNCHANGED <<pc, job, fixed, child, printed, output, result>>

\* Mutated form: the runner is waited for without a limit.
NoTimeout == FALSE /\ UNCHANGED vars

(* subprocess.run: the runner is killed; on Windows what it printed is then read to its end. *)
Timeout ==
    /\ pc = "run"
    /\ child' = IF child = "running" THEN "killed" ELSE child
    /\ IF windows THEN pc' = "drain" /\ UNCHANGED result ELSE Out("timed out", <<>>)
    /\ UNCHANGED <<job, fixed, forked, printed, output>>

Drained == pc = "drain" /\ ~forked /\ Out("timed out", <<>>) /\ UNCHANGED <<job, fixed>> /\ Runner

(* The runner has ended and its output is closed. *)
Ended == pc = "run" /\ child \in Exited /\ ~forked /\ pc' = "parse" /\ UNCHANGED <<job, fixed, result>> /\ Runner

\* The last line that is a JSON object.
IsLastObject(i) == printed[i] \in Objects /\ \A j \in DOMAIN printed : j > i => printed[j] \notin Objects
Response ==
    IF \E i \in DOMAIN printed : IsLastObject(i)
    THEN printed[CHOOSE i \in DOMAIN printed : IsLastObject(i)]
    ELSE None
Logs == SelectSeq(printed, LAMBDA l : l \notin Objects)

Undecodable == \E i \in DOMAIN printed : printed[i] = "binary"

\* Mutated form: only the response is looked at, not the file.
VerdictUnread ==
    IF Undecodable THEN "UnicodeDecodeError"
    ELSE IF child # "exit 0" /\ Response = None THEN "exit code"
    ELSE IF Response = None THEN "no response"
    ELSE IF Response # "ok" THEN "reported"
    ELSE "table"

Verdict ==
    IF Undecodable THEN "UnicodeDecodeError"
    ELSE IF child # "exit 0" /\ Response = None THEN "exit code"
    ELSE IF Response = None THEN "no response"
    ELSE IF Response # "ok" THEN "reported"
    ELSE IF output = "none" THEN "no output"
    ELSE IF output = "part" THEN "ArrowInvalid" ELSE "table"

(* The logs go with the frame; two of the errors quote the output. *)
Parse ==
    /\ pc = "parse"
    /\ Out(Verdict, IF Verdict \in {"table", "exit code", "no response"} THEN Logs ELSE <<>>)
    /\ UNCHANGED <<job, fixed>> /\ Runner

(* rmtree ignores errors: a process that is left may hold a file of the directory, or add one. *)
RemoveJob ==
    /\ pc = "out" /\ pc' = "end"
    /\ job' \in {FALSE, forked}
    /\ UNCHANGED <<fixed, result>> /\ Runner

Rest == pc = "end" /\ UNCHANGED vars

Works == MakeJob \/ WriteInputs \/ Spawn \/ Timeout \/ Drained \/ Ended \/ Parse \/ RemoveJob

Next == NotFound \/ Works \/ Prints \/ Writes \/ Forks \/ Exits \/ Releases \/ Rest

Spec == Init /\ [][Next]_vars

(* The time limit comes; nothing is assumed of the runner. *)
FairSpec == Spec /\ WF_vars(Works)

-----------------------------------------------------------------------------
TypeOK ==
    /\ pc \in {"start", "write", "spawn", "run", "drain", "parse", "out", "end"}
    /\ child \in {None, "running", "killed"} \cup Exited
    /\ printed \in Seq(Lines)
    /\ output \in {"none", "part", "whole"}
    /\ result.end \in {None, "table"} \cup Raised
    /\ pc \in {"out", "end"} <=> result.end # None
    /\ child = "running" => pc = "run"

(* A frame is returned only if the runner ended with success as its last word and its output file
   is complete, whatever it printed, whom it forked and how it ended.  runtime.py: the response,
   the output. *)
FramesAreReal ==
    result.end = "table" => /\ output = "whole"
                            /\ \E i \in DOMAIN printed : /\ printed[i] = "ok"
                                                         /\ \A j \in (i + 1)..Len(printed) : printed[j] = "text"

(* A run ends whatever the runner does, and a process it left behind; except that on Windows such
   a process can keep it for ever, by the pipe that it holds.  runtime.py: timeout. *)
RunEnds == <>(pc = "end") \/ (windows /\ <>[]forked)

(* PLUGINS.md:245: "Failures — a crash, a timeout, ... — all surface as a clear message on the
   node". *)
RunAlwaysEnds == <>(pc = "end")

(* PLUGINS.md:245: "Job directories are removed afterwards". *)
JobRemoved == pc = "end" => ~job

(* runtime.py:134: "Raises IsolatedRuntimeError with a useful message on any failure". *)
RuntimeErrors == result.end \notin {"ArrowInvalid", "UnicodeDecodeError"}

(* PLUGINS.md:245: "a crash, a timeout, a missing output frame, no JSON response — all surface as
   a clear message on the node". *)
CrashSurfaces == result.end = "table" => child = "exit 0"

(* runtime.py:32: "Anything else the runner prints is captured and surfaced as node logs, so
   print() inside a plugin still reaches the user". *)
PrintsSurface ==
    \A i \in DOMAIN printed : printed[i] = "text" /\ pc = "end" /\ child \in Exited => result.log # <<>>
=============================================================================
