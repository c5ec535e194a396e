------------------------------ MODULE SandboxRun ------------------------------
(***************************************************************************)
(* Generated code runs in a directory and a process group of its own       *)
(* (LocalProvider.run, execute_local), is killed when its time is up, and  *)
(* leaves a row in the audit log (run_sandbox_task).  The code may start   *)
(* processes, which may give up the pipes they inherit and go on alone.    *)
(***************************************************************************)
EXTENDS Naturals, FiniteSets

CONSTANTS
  Children,     \* processes the code may start
  Retain        \* retain_workdir_on_failure

VARIABLES
  phase,        \* gates, prepared, running, killed, or how the run ended:
                \* returned, rejected, raised
  workdir,      \* the directory exists
  started,      \* processes the run has started
  alive,        \* those that run
  grouped,      \* processes in the group of the run
  piped,        \* processes that hold its stdout or stderr
  exit,         \* how the leader ended, None while it runs
  result,       \* the fields of SandboxResult properties look at
  auditRows     \* rows in the audit log

vars == <<phase, workdir, started, alive, grouped, piped, exit, result, auditRows>>

None == "none"
Leader == "main"
NoResult == [timedOut |-> FALSE, code |-> None, exhausted |-> None]
Exits == {"ok", "error", "cpu", "memory"}
tree == <<started, alive, grouped, piped>>
Ended == phase \in {"returned", "rejected", "raised"}

Init ==
  /\ phase = "gates" /\ workdir = FALSE
  /\ started = {} /\ alive = {} /\ grouped = {} /\ piped = {}
  /\ exit = None /\ result = NoResult /\ auditRows = 0

Reject ==
  /\ phase' = "rejected" /\ workdir' = FALSE
  /\ auditRows' = auditRows + 1
  /\ UNCHANGED <<tree, exit, result>>

\* The language and the dangerous patterns are looked at before anything is made.
RejectCode == phase = "gates" /\ Reject

MakeWorkdir ==
  /\ phase = "gates"
  /\ phase' = "prepared" /\ workdir' = TRUE
  /\ UNCHANGED <<tree, exit, result, auditRows>>

\* A path outside the directory, or a variable that is not on the list.
RejectInWorkdir == phase = "prepared" /\ Reject

\* A timeout that is not positive, code that is no UTF-8, a fork that fails:
\* not an error of the sandbox, so that nobody removes the directory and nobody
\* writes a row.
Break ==
  /\ phase = "prepared"
  /\ phase' = "raised"
  /\ UNCHANGED <<workdir, tree, exit, result, auditRows>>

Start ==
  /\ phase = "prepared"
  /\ phase' = "running"
  /\ started' = {Leader} /\ alive' = {Leader}
  /\ grouped' = {Leader} /\ piped' = {Leader}
  /\ UNCHANGED <<workdir, exit, result, auditRows>>

---------------------------------------------------------------------------
\* What the code under test does, at any time

OutOfSight == UNCHANGED <<phase, workdir, exit, result, auditRows>>

\* A child inherits the group and, unless it is told otherwise, the pipes.
Spawn(parent, child, inherits) ==
  /\ parent \in alive /\ child \notin started
  /\ started' = started \cup {child} /\ alive' = alive \cup {child}
  /\ grouped' = IF parent \in grouped THEN grouped \cup {child} ELSE grouped
  /\ piped' = IF inherits /\ parent \in piped THEN piped \cup {child} ELSE piped
  /\ OutOfSight

\* setsid: nothing keeps a child in the group.
LeaveGroup(child) ==
  /\ child \in alive \cap grouped
  /\ grouped' = grouped \ {child} /\ UNCHANGED <<started, alive, piped>>
  /\ OutOfSight

Exit(child) ==
  /\ child \in alive
  /\ alive' = alive \ {child} /\ piped' = piped \ {child}
  /\ UNCHANGED <<started, grouped>>
  /\ OutOfSight

LeaderExit(how) ==
  /\ Leader \in alive
  /\ alive' = alive \ {Leader} /\ piped' = piped \ {Leader}
  /\ exit' = how
  /\ UNCHANGED <<phase, workdir, started, grouped, result, auditRows>>

---------------------------------------------------------------------------
\* The runner and the provider

\* Mutant: only the process that was started is killed.
LeaderOnly == {Leader}

\* SIGKILL goes to the group.
Killed == grouped

\* communicate() gives up.
Timeout ==
  /\ phase = "running"
  /\ phase' = "killed"
  /\ alive' = alive \ Killed /\ piped' = piped \ Killed
  /\ exit' = IF Leader \in alive THEN "killed" ELSE exit
  /\ UNCHANGED <<workdir, started, grouped, result, auditRows>>

\* A directory stays when there is something to look at and that is wanted.
Stays(timedOut) == (exit # "ok" \/ timedOut) /\ Retain

\* communicate() returns: nobody holds the pipes, and the leader has ended.
\* While a process lives on in the directory removing it may fail, in silence.
Collect(removed) ==
  /\ phase \in {"running", "killed"}
  /\ piped = {} /\ Leader \notin alive
  /\ LET timedOut == phase = "killed"
     IN  /\ result' = [timedOut |-> timedOut,
                       code |-> IF timedOut THEN None ELSE exit,
                       exhausted |-> IF ~timedOut /\ exit \in {"cpu", "memory"}
                                     THEN exit ELSE None]
         /\ workdir' = (Stays(timedOut) \/ ~removed)
         /\ removed \/ (alive # {} /\ ~Stays(timedOut))
  /\ phase' = "returned"
  /\ auditRows' = auditRows + 1
  /\ UNCHANGED <<tree, exit>>

Next ==
  \/ RejectCode \/ MakeWorkdir \/ RejectInWorkdir \/ Break \/ Start
  \/ \E parent \in alive, child \in Children, inherits \in BOOLEAN :
       Spawn(parent, child, inherits)
  \/ \E child \in Children : LeaveGroup(child) \/ Exit(child)
  \/ \E how \in Exits : LeaderExit(how)
  \/ Timeout
  \/ \E removed \in BOOLEAN : Collect(removed)

Spec == Init /\ [][Next]_vars

\* Whatever the code starts, a run that timed out leaves no process of its
\* group and is not taken for a success; its directory is there when somebody
\* wants to look at a failure and otherwise, when the code started no other
\* process, gone; and a run that came back or was refused has its one row.
RunLeavesNothing ==
  /\ phase = "killed" \/ result.timedOut => alive \cap grouped = {}
  /\ result.timedOut => result.code = None
  /\ phase = "returned" =>
       LET failed == result.timedOut \/ result.code # "ok"
       IN  IF failed /\ Retain THEN workdir
           ELSE started = {Leader} => ~workdir
  /\ Ended => auditRows = IF phase = "raised" THEN 0 ELSE 1

TypeOK ==
  /\ started \subseteq Children \cup {Leader} /\ alive \subseteq started /\ piped \subseteq alive
  /\ exit \in Exits \cup {None, "killed"} /\ auditRows \in 0..1
===============================================================================
