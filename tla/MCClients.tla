------------------------------ MODULE MCClients ------------------------------
(* Instances for TLC of the two programs around the backend: a tab of the frontend that follows
   runs, and the desktop shell that starts and stops the backend.  They share no state in the
   code, so a behaviour is one of them, and the other stays as it began. *)
EXTENDS FrontendRun

CONSTANTS EmptyKey, MaxSessions, MaxFaults

VARIABLES
    part,
    file, n, backend, eof, key, work, how, shell, faults

shellVars == <<file, n, backend, eof, key, work, how, shell, faults>>
clientVars == <<part, vars, shellVars>>

Desktop == INSTANCE DesktopShell WITH Empty <- EmptyKey

ASSUME ClientsAssumption == Desktop!DesktopAssumption

ClientsInit ==
    /\ part \in {"tab", "desktop"}
    /\ Init /\ Desktop!Init

Tab(A) == part = "tab" /\ A /\ UNCHANGED <<part, shellVars>>
Shell(A) == part = "desktop" /\ A /\ UNCHANGED <<part, vars>>

ClientsNext == Tab(Next) \/ Shell(Desktop!Next)

(* The fairness of each, with node code that ends. *)
Clients ==
    /\ ClientsInit /\ [][ClientsNext]_clientVars
    /\ WF_clientVars(Tab(Effect)) /\ \A s \in Sockets : WF_clientVars(Tab(Opens(s) \/ Handles(s) \/ Reconnects(s)))
    /\ \A r \in Runs : WF_clientVars(Tab(Fails(r) \/ Starts(r) \/ Step(r)))
    /\ WF_clientVars(Shell(Desktop!MainStops)) /\ WF_clientVars(Shell(shell.pc # "off" /\ Desktop!Threads))
    /\ \A s \in 1..MaxSessions : WF_clientVars(Shell(Desktop!Backend(s))) /\ WF_clientVars(Shell(Desktop!WorkDone(s)))

\* main.rs: the crash dialog is not about a backend that the app stopped; a backend that crashes
\* under an open window is made known, and one that serves comes to be shown.
CrashesAreTold == []Desktop!StopsUnreported /\ Desktop!CrashTold /\ Desktop!ServingShown

\* desktop.py: the end of stdin.  Where node code ends, no backend outlives its shell, and one that
\* exits by itself has seen the end of its backend.
NeverOutlives == Desktop!NeverOutlives /\ Desktop!DeadOnExit

\* desktop.py: ensure_secret_key.  One generated key for all sessions.
SameKey == Desktop!SameKey
=============================================================================
