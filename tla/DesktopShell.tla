----------------------------- MODULE DesktopShell -----------------------------
(* The desktop edition: the shell (src-tauri: main.rs, update.rs), the backend it starts
   (app/desktop.py), and the key file they leave for the next session.

   Sessions are numbered; the backend of a session may outlive its shell.  The reader thread,
   the timer, the update task and the main thread of the shell interleave. *)
EXTENDS Naturals

CONSTANTS
    None, Empty,
    MaxSessions, MaxFaults  \* bounds

\* assumed of every instance, by the module that makes it
DesktopAssumption == MaxSessions \in Nat \ {0} /\ MaxFaults \in Nat /\ None # Empty

VARIABLES
    file,       \* secret.key: None, Empty or the session that generated it
    n,          \* the current session
    backend,    \* session -> where its backend is
    eof,        \* session -> has its stdin been closed?
    key,        \* session -> SECRET_KEY of its backend
    work,       \* session -> is node code running in it?
    how,        \* history: how the backend of a session ended
    shell,      \* the threads of the current shell
    faults      \* crashes, killed shells and lines that cannot be decoded, so far
vars == <<file, n, backend, eof, key, work, how, shell, faults>>
backends == <<file, backend, eof, key, work, how>>

Sessions == 1..MaxSessions
Gone(s) == backend[s] \in {"none", "dead"}

\* A shell that has just started its backend.
NewShell == [pc |-> "up", child |-> TRUE, stopping |-> FALSE, stops |-> "nobody", line |-> FALSE, ready |-> FALSE,
             garbled |-> FALSE, held |-> FALSE, reader |-> "reading", timer |-> "on", page |-> "loading",
             dialog |-> FALSE, update |-> "check"]
NoShell == [NewShell EXCEPT !.pc = "off", !.child = FALSE]

Init ==
    /\ file = None /\ n = 0
    /\ backend = [s \in Sessions |-> "none"]
    /\ eof = [s \in Sessions |-> FALSE]
    /\ key = [s \in Sessions |-> None]
    /\ work = [s \in Sessions |-> FALSE]
    /\ how = [s \in Sessions |-> "none"]
    /\ shell = NoShell
    /\ faults = 0

-----------------------------------------------------------------------------
(* The backend. *)
Moves(s, pc) == backend' = [backend EXCEPT ![s] = pc]

Ends(s, why) ==
    /\ Moves(s, "dead")
    /\ how' = [how EXCEPT ![s] = why]
    /\ work' = [work EXCEPT ![s] = FALSE]
    /\ UNCHANGED <<file, n, eof, key>>

(* ensure_secret_key: what the file holds is the key, whatever that is. *)
EnsureKey(s) ==
    /\ backend[s] = "start"
    /\ IF file = None THEN Moves(s, "generate") /\ UNCHANGED key
                      ELSE key' = [key EXCEPT ![s] = file] /\ Moves(s, "boot")
    /\ UNCHANGED <<file, n, eof, work, how, shell, faults>>

\* Mutated form: the file is created anew if another process did so first.
CreateAnew(s) ==
    /\ backend[s] = "generate"
    /\ file' = Empty /\ Moves(s, "created")
    /\ UNCHANGED <<n, eof, key, work, how, shell, faults>>

\* O_EXCL
CreateKey(s) ==
    /\ backend[s] = "generate"
    /\ \/ file = None /\ file' = Empty /\ Moves(s, "created") /\ UNCHANGED <<n, eof, key, work, how>>
       \/ file # None /\ Ends(s, "crash")
    /\ UNCHANGED <<shell, faults>>

WriteKey(s) ==
    /\ backend[s] = "created"
    /\ file' = s
    /\ key' = [key EXCEPT ![s] = s]
    /\ Moves(s, "boot")
    /\ UNCHANGED <<n, eof, work, how, shell, faults>>

(* announce: the shell does not come to the line after one that it could not decode. *)
Serve(s) ==
    /\ backend[s] = "boot"
    /\ Moves(s, "serving")
    /\ shell' = IF s = n /\ ~shell.garbled THEN [shell EXCEPT !.line = TRUE] ELSE shell
    /\ UNCHANGED <<file, n, eof, key, work, how, faults>>

(* A plugin or a node prints a line that is not UTF-8. *)
Garbles(s) ==
    /\ backend[s] \in {"boot", "serving", "leaving"} /\ s = n /\ shell.pc # "off"
    /\ shell.reader = "reading" /\ ~shell.garbled /\ faults < MaxFaults
    /\ faults' = faults + 1 /\ shell' = [shell EXCEPT !.garbled = TRUE]
    /\ UNCHANGED <<backends, n>>

\* Mutated form: the end of stdin is looked at while the server starts only.
NoticeEOFAtStart(s) ==
    /\ backend[s] = "boot" /\ eof[s]
    /\ Moves(s, "leaving")
    /\ UNCHANGED <<file, n, eof, key, work, how, shell, faults>>

(* _exit_when_stdin_closes; the server then waits for what is running. *)
NoticeEOF(s) ==
    /\ backend[s] \in {"boot", "serving"} /\ eof[s]
    /\ Moves(s, "leaving")
    /\ UNCHANGED <<file, n, eof, key, work, how, shell, faults>>

Leave(s) == backend[s] = "leaving" /\ ~work[s] /\ Ends(s, "left") /\ UNCHANGED <<shell, faults>>

(* A process that a node started may still hold the backend's stdout. *)
Crash(s) ==
    /\ ~Gone(s) /\ faults < MaxFaults
    /\ faults' = faults + 1
    /\ Ends(s, "crash")
    /\ \/ UNCHANGED shell
       \/ s = n /\ shell.page = "app" /\ shell.reader = "reading" /\ shell' = [shell EXCEPT !.held = TRUE]

Work(s) ==
    /\ backend[s] = "serving" /\ s = n /\ shell.pc = "up" /\ shell.page = "app" /\ ~work[s]
    /\ work' = [work EXCEPT ![s] = TRUE]
    /\ UNCHANGED <<file, n, backend, eof, key, how, shell, faults>>

WorkDone(s) ==
    /\ \/ work[s] /\ work' = [work EXCEPT ![s] = FALSE] /\ UNCHANGED shell
       \/ s = n /\ shell.held /\ shell' = [shell EXCEPT !.held = FALSE] /\ UNCHANGED work
    /\ UNCHANGED <<file, n, backend, eof, key, how, faults>>

-----------------------------------------------------------------------------
(* The shell. *)
Sets(r) == shell' = r
Quiet == UNCHANGED <<backends, n, faults>>

(* start_backend. *)
Launch ==
    /\ shell.pc = "off" /\ n < MaxSessions
    /\ n' = n + 1
    /\ backend' = [backend EXCEPT ![n + 1] = "start"]
    /\ Sets(NewShell)
    /\ UNCHANGED <<file, eof, key, work, how, faults>>

(* The thread that reads the backend's stdout. *)
ReadReady ==
    /\ shell.reader = "reading" /\ shell.line
    /\ Sets([shell EXCEPT !.line = FALSE, !.ready = TRUE, !.reader = "navigate"])
    /\ Quiet

Navigate == shell.reader = "navigate" /\ Sets([shell EXCEPT !.page = "app", !.reader = "reading"]) /\ Quiet

\* show_error is a function of the loading page only.
Shown(page) == IF shell.page = "app" THEN "app" ELSE page

\* lines().map_while(Result::ok)
NoMoreLines ==
    /\ shell.reader = "reading" /\ ~shell.line
    /\ shell.garbled \/ (backend[n] = "dead" /\ ~shell.held)

\* Mutated form: the end of a backend that was ready is only logged.
EndOfOutputLogged ==
    /\ NoMoreLines
    /\ Sets([shell EXCEPT !.page = IF shell.ready THEN @ ELSE Shown("error and log"), !.reader = "done"])
    /\ Quiet

EndOfOutput ==
    /\ NoMoreLines
    /\ \/ /\ ~shell.ready
          /\ Sets([shell EXCEPT !.page = Shown("error and log"), !.reader = "done"])
       \/ shell.ready /\ shell.stopping /\ Sets([shell EXCEPT !.reader = "done"])
       \/ shell.ready /\ ~shell.stopping /\ Sets([shell EXCEPT !.reader = "died"])
    /\ Quiet

(* backend_died: Child::wait closes the backend's stdin and waits with the mutex locked. *)
BackendDied ==
    \/ /\ shell.reader = "died" /\ shell.child /\ backend[n] # "dead"
       /\ Sets([shell EXCEPT !.reader = "waits"]) /\ eof' = [eof EXCEPT ![n] = TRUE]
       /\ UNCHANGED <<file, n, backend, key, work, how, faults>>
    \/ /\ \/ shell.reader = "died" /\ (~shell.child \/ backend[n] = "dead")
          \/ shell.reader = "waits" /\ backend[n] = "dead"
       /\ Sets([shell EXCEPT !.dialog = TRUE, !.reader = "done"]) /\ Quiet

(* The thread that gives up waiting: its last look at the flag, and what it shows then. *)
TimerLooks == shell.timer = "on" /\ ~shell.ready /\ Sets([shell EXCEPT !.timer = "show"]) /\ Quiet

TimesOut == shell.timer = "show" /\ Sets([shell EXCEPT !.page = Shown("not in time"), !.timer = "off"]) /\ Quiet

(* The window is closed, or the dialog answered with Restart or Close: RunEvent::Exit. *)
Closing == shell.pc = "up" /\ Sets([shell EXCEPT !.pc = "closing"]) /\ Quiet
Exits == shell' = NoShell

(* stop_backend: the first to come takes the child and closes its stdin; the mutex is free then. *)
Take(who) ==
    /\ shell.child /\ shell.reader # "waits"
    /\ Sets([shell EXCEPT !.stopping = TRUE, !.child = FALSE, !.stops = who])
    /\ eof' = [eof EXCEPT ![n] = TRUE]
    /\ UNCHANGED <<file, n, backend, key, work, how, faults>>

Returned(who) == IF who = "main" THEN NoShell
                 ELSE [shell EXCEPT !.update = "install", !.stops = "nobody"]

Waited(who) == shell.stops = who /\ backend[n] = "dead" /\ Sets(Returned(who)) /\ Quiet

Kill(who) ==
    /\ shell.stops = who /\ backend[n] # "dead"
    /\ Ends(n, "killed") /\ Sets(Returned(who))
    /\ UNCHANGED faults

MainStops ==
    /\ shell.pc = "closing"
    /\ \/ shell.stops # "main" /\ Take("main")
       \/ Waited("main")
       \/ Kill("main")
       \/ shell.stops # "main" /\ ~shell.child /\ Exits /\ Quiet

(* The shell is killed: the pipe to the backend's stdin closes. *)
ShellKilled ==
    /\ shell.pc # "off" /\ faults < MaxFaults
    /\ faults' = faults + 1
    /\ Exits
    /\ eof' = [eof EXCEPT ![n] = TRUE]
    /\ UNCHANGED <<file, n, backend, key, work, how>>

(* update.rs: check. *)
Updates(from, to) == shell.update = from /\ Sets([shell EXCEPT !.update = to]) /\ Quiet

Update ==
    \/ Updates("check", "stop")             \* unless it, the question or the download ends in nothing
    \/ shell.update = "stop" /\ shell.stops = "nobody" /\ Take("update")
    \/ Waited("update")
    \/ Kill("update")
    \/ shell.update = "stop" /\ shell.stops # "update" /\ ~shell.child
          /\ Sets([shell EXCEPT !.update = "install"]) /\ Quiet
    \/ /\ shell.pc = "up"                    \* what install(bytes) comes to is nothing while the app exits
       /\ \/ Updates("install", "failed")
          \/ shell.update = "install" /\ Sets([shell EXCEPT !.update = "restart", !.pc = "closing"]) /\ Quiet

Threads == ReadReady \/ Navigate \/ EndOfOutput \/ BackendDied \/ TimerLooks \/ TimesOut

Backend(s) == EnsureKey(s) \/ CreateKey(s) \/ WriteKey(s) \/ Serve(s) \/ NoticeEOF(s) \/ Leave(s)

Ended == shell.pc = "off" /\ n = MaxSessions /\ UNCHANGED vars

Next ==
    \/ \E s \in Sessions : Backend(s) \/ Crash(s) \/ Garbles(s) \/ Work(s) \/ WorkDone(s)
    \/ Launch \/ MainStops \/ ShellKilled
    \/ shell.pc # "off" /\ (Threads \/ Closing \/ Update)
    \/ Ended

Spec == Init /\ [][Next]_vars

(* The threads of both processes go on; nothing obliges the user, an update, or the code of a
   node to come to an end. *)
FairSpec ==
    /\ Spec
    /\ WF_vars(MainStops) /\ WF_vars(shell.pc # "off" /\ Threads)
    /\ \A s \in Sessions : WF_vars(Backend(s))

(* The same where the code of nodes ends, and every process it started. *)
FairWorkSpec == FairSpec /\ \A s \in Sessions : WF_vars(WorkDone(s))

-----------------------------------------------------------------------------
TypeOK ==
    /\ file \in {None, Empty} \cup Sessions
    /\ n \in 0..MaxSessions
    /\ backend \in [Sessions -> {"none", "start", "generate", "created", "boot", "serving", "leaving", "dead"}]
    /\ key \in [Sessions -> {None, Empty} \cup Sessions]
    /\ how \in [Sessions -> {"none", "left", "crash", "killed"}]
    /\ \A s \in Sessions : /\ (how[s] # "none") = (backend[s] = "dead")
                           /\ (backend[s] # "none") = (s <= n)
                           /\ work[s] => backend[s] \in {"serving", "leaving"}
    /\ shell.stops \in {"nobody", "main", "update"}
    /\ shell.stops # "nobody" => ~shell.child
    /\ shell.dialog => shell.ready
    /\ shell.held => backend[n] = "dead"

(* No two backends, of whatever sessions and wherever these were cut off, work with different keys
   that were generated, and such a key is the one in the file: what one encrypts, every later one
   that has a key can read.  desktop.py: ensure_secret_key. *)
SameKey == \A s \in Sessions : key[s] \notin {None, Empty} => key[s] = file

(* The crash dialog is never about a backend that an exit or an update stopped: it comes up for a
   crash, or after output that the shell could not decode.  main.rs: STOPPING. *)
StopsUnreported ==
    shell.reader \in {"died", "waits"} \/ shell.dialog => how[n] = "crash" \/ shell.garbled

(* A backend that serves while its output can be read and its window is open comes to be shown
   there, before or after the time that the shell waits for it, unless one of the two ends first.
   main.rs: the reader and the timer. *)
ServingShown ==
    (n > 0 /\ backend[n] = "serving" /\ shell.pc = "up" /\ ~shell.garbled)
      ~> (shell.page = "app" \/ shell.pc # "up" \/ backend[n] # "serving")

(* A backend that crashes under an open window is made known, by the page or the dialog, once no
   process of a node holds its output.  main.rs: the end of the backend's output. *)
CrashTold ==
    (n > 0 /\ how[n] = "crash" /\ shell.pc = "up" /\ ~shell.stopping)
      ~> (shell.dialog \/ shell.page \in {"error and log", "not in time"}
            \/ shell.stopping \/ shell.pc # "up")

(* Where the code of nodes ends, so does the backend of a shell that is gone. *)
NeverOutlives == \A s \in Sessions : (n >= s /\ (n > s \/ shell.pc = "off")) ~> Gone(s)

(* When the app exits by itself its backend is dead, busy or not, unless an update is stopping it
   at that moment.  main.rs: stop_backend on RunEvent::Exit. *)
DeadOnExit ==
    [][shell.pc = "closing" /\ shell'.pc = "off" /\ faults' = faults /\ shell.stops # "update" => Gone(n)']_vars

(* desktop/README.md:27: the backend exits when its stdin closes, "so it never outlives the shell,
   even if the shell is killed". *)
NeverOutlivesAtAll == NeverOutlives

(* main.rs:7: when the app exits, the backend's stdin is closed and, "failing that, it is killed". *)
StoppedOnExit == \A s \in Sessions : (n = s /\ shell.pc = "off" /\ faults = 0) ~> Gone(s)

(* update.rs:10: "Failures are logged, never shown: a missing network must not get in the way of
   opening the app"; desktop/README.md:88: they "never block the app". *)
FailureNeverBlocks == shell.update = "failed" /\ shell.pc = "up" => how[n] \in {"none", "crash"}

(* main.rs:73: "The backend ended while the app was in use: say so", and not of one that the shell
   itself ends. *)
OnlyCrashesReported == shell.dialog => how[n] = "crash"

(* desktop.py:34-35: "The Fernet key that encrypts saved connection passwords";
   test_desktop.py:44: "a valid key". *)
KeyIsValid == \A s \in Sessions : key[s] # Empty

(* desktop/README.md:30: "If the backend fails, the page shows the error and the end of the log." *)
ErrorWithLog == n > 0 /\ shell.reader = "done" /\ ~shell.ready => shell.page = "error and log"
=============================================================================
