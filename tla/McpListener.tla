---------------------------- MODULE McpListener ----------------------------
(***************************************************************************)
(* The managed MCP listener: `lw mcp start | stop | restart` and the       *)
(* foreground process that a background start leaves behind.  Every `lw`   *)
(* invocation and every listener is a process; all they share is the       *)
(* pidfile and the port.  A process has no handler for SIGTERM, so a       *)
(* listener that is stopped dies without removing its pidfile.             *)
(***************************************************************************)
EXTENDS Naturals, FiniteSets

CONSTANTS
    Pids,       \* processes that can exist; a pid is not used twice
    None,       \* no process: an absent pidfile, no target
    MaxFaults   \* failed writes and spawns, crashes, deadlines that pass

\* Assumed of the constants; the module that composes this one states it.
PidsAssumption == None \notin Pids /\ MaxFaults \in Nat

VARIABLES
    proc,       \* per pid: what it runs, where it is, whom it acts on, how it ended
    pidfile,    \* the pid in mcp-server.pid
    faults,
    alone       \* history: no command was given while another was at work

vars == <<proc, pidfile, faults, alone>>

Kinds == {"start", "foreground", "stop", "restart"}
Points == {"unborn", "confirm", "check", "write", "bind", "serving", "spawn", "record",
           "health", "find", "signal", "wait", "exited"}
Outcomes == {"none", "already", "failed", "healthy", "unhealthy", "stopped"}

TypeOK ==
    /\ proc \in [Pids -> [kind : Kinds, pc : Points, target : Pids \cup {None},
                          outcome : Outcomes, term : BOOLEAN]]
    /\ alone \in BOOLEAN
    /\ pidfile \in Pids \cup {None}
    /\ faults \in 0 .. MaxFaults

Unborn == [kind |-> "start", pc |-> "unborn", target |-> None, outcome |-> "none",
           term |-> FALSE]

Init ==
    /\ proc = [p \in Pids |-> Unborn]
    /\ pidfile = None
    /\ faults = 0
    /\ alone = TRUE

-----------------------------------------------------------------------------
pidAlive(p) == p # None /\ proc[p].pc \notin {"unborn", "exited"}
Serving == {p \in Pids : proc[p].pc = "serving"}
\* Runtime.Status: the pidfile names a live process, whoever that is.
Running == pidAlive(pidfile)
Commands == {p \in Pids : pidAlive(p) /\ proc[p].pc # "serving"}

At(p, pc) == proc[p].pc = pc
Go(p, pc) == proc' = [proc EXCEPT ![p].pc = pc]
Exit(p, how) == proc' = [proc EXCEPT ![p].pc = "exited", ![p].outcome = how]
Fail == faults < MaxFaults /\ faults' = faults + 1 /\ UNCHANGED alone
Fine == UNCHANGED <<faults, alone>>

\* The operator gives a command, or a terminal runs the listener itself.
Invoke(p, kind) ==
    /\ At(p, "unborn")
    /\ alone' = (alone /\ Commands = {})
    /\ proc' = [proc EXCEPT ![p].kind = kind,
                    ![p].pc = IF kind \in {"stop", "restart"} THEN "confirm" ELSE "check"]
    /\ UNCHANGED <<pidfile, faults>>

\* confirmMCPDestruct returns nil for yes and for no alike: both go on.
Confirm(p) ==
    /\ At(p, "confirm")
    /\ Go(p, "find") /\ UNCHANGED pidfile /\ Fine

\* Mutant: Check without looking: every start writes over what runs.
CheckBlind(p) ==
    /\ At(p, "check")
    /\ Go(p, IF proc[p].kind = "foreground" THEN "write" ELSE "spawn")
    /\ UNCHANGED pidfile /\ Fine

\* Start asks Status first, in the foreground child as well.
Check(p) ==
    /\ At(p, "check")
    /\ IF Running THEN Exit(p, "already")
       ELSE Go(p, IF proc[p].kind = "foreground" THEN "write" ELSE "spawn")
    /\ UNCHANGED pidfile /\ Fine

\* The foreground listener records itself, then binds; when the port is
\* taken it removes the pidfile on its way out, whoever wrote it last.
Write(p) ==
    /\ At(p, "write")
    /\ \/ pidfile' = p /\ Go(p, "bind") /\ Fine
       \/ Exit(p, "failed") /\ Fail /\ UNCHANGED pidfile

Bind(p) ==
    /\ At(p, "bind") /\ Fine
    /\ IF Serving = {} THEN Go(p, "serving") /\ UNCHANGED pidfile
       ELSE Exit(p, "failed") /\ pidfile' = None

\* The background start: spawn a detached `mcp start --foreground`, record
\* its pid, poll /health at the address until something answers.
Spawn(p) ==
    /\ At(p, "spawn") /\ UNCHANGED pidfile
    /\ \/ \E c \in Pids \ {p} :
              /\ At(c, "unborn") /\ Fine
              /\ proc' = [proc EXCEPT ![p].pc = "record", ![p].target = c,
                              ![c].pc = "check", ![c].kind = "foreground"]
       \/ Exit(p, "failed") /\ Fail

Record(p) ==
    /\ At(p, "record")
    /\ \/ pidfile' = proc[p].target /\ Go(p, "health") /\ Fine
       \/ /\ proc' = [proc EXCEPT ![p].pc = "exited", ![p].outcome = "failed",
                          ![proc[p].target].pc = "exited"]
          /\ Fail /\ UNCHANGED pidfile

\* Mutant: A background start that finds no answer in time gives up its pidfile.
HealthForgetful(p) ==
    /\ At(p, "health")
    /\ \/ Serving # {} /\ Exit(p, "healthy") /\ Fine /\ UNCHANGED pidfile
       \/ Serving = {} /\ Exit(p, "unhealthy") /\ pidfile' = None /\ Fail

\* Answered or timed out; a child that is gone is waited for all the same.
Health(p) ==
    /\ At(p, "health") /\ UNCHANGED pidfile
    /\ \/ Serving # {} /\ Exit(p, "healthy") /\ Fine
       \/ Serving = {} /\ ~pidAlive(proc[p].target) /\ Exit(p, "unhealthy") /\ Fine
       \/ Serving = {} /\ pidAlive(proc[p].target) /\ Exit(p, "unhealthy") /\ Fail

-----------------------------------------------------------------------------
\* After a stop: restart goes on to start.
Stopped(p) == IF proc[p].kind = "restart" THEN Go(p, "check") ELSE Exit(p, "stopped")

Find(p) ==
    /\ At(p, "find") /\ Fine
    /\ IF Running
       THEN /\ proc' = [proc EXCEPT ![p].pc = "signal", ![p].target = pidfile]
            /\ UNCHANGED pidfile
       ELSE pidfile' = None /\ Stopped(p)

Signal(p) ==
    /\ At(p, "signal")
    /\ proc' = [proc EXCEPT ![p].pc = "wait", ![proc[p].target].term = TRUE]
    /\ UNCHANGED pidfile /\ Fine

\* The pidfile goes when the process is gone or the deadline has passed.
Wait(p) ==
    /\ At(p, "wait")
    /\ IF pidAlive(proc[p].target) THEN Fail ELSE Fine
    /\ pidfile' = None /\ Stopped(p)

\* A signalled process ends when the kernel gets to it.
Terminate(p) ==
    /\ proc[p].term /\ pidAlive(p)
    /\ Exit(p, "none") /\ UNCHANGED pidfile /\ Fine

\* A process is killed from elsewhere, or crashes.
Crash(p) ==
    /\ pidAlive(p) /\ Exit(p, "none") /\ Fail /\ UNCHANGED pidfile

Step(p) ==
    \/ Confirm(p) \/ Check(p) \/ Write(p) \/ Bind(p) \/ Spawn(p) \/ Record(p)
    \/ Health(p) \/ Find(p) \/ Signal(p) \/ Wait(p) \/ Terminate(p) \/ Crash(p)

Next == \E p \in Pids : Step(p) \/ \E k \in Kinds : Invoke(p, k)
Spec == Init /\ [][Next]_vars

-----------------------------------------------------------------------------
(* Properties                                                              *)

\* As long as no command was given while another was at work, a listener that serves and that nobody has
\* signalled is the process the pidfile names, whatever failed or crashed on
\* the way, so that the next `lw mcp stop` finds it.  The pidfile has two
\* writers, the starting parent and its child, and three removers (Record,
\* Bind and Stop in internal/mcp/lifecycle.go).
ServingIsRecorded ==
    alone => \A p \in Serving : proc[p].term \/ pidfile = p

\* `lw mcp start` daemonizes (schemas/interfaces/cli/commands.yaml): a start
\* that meets no failure and no other command ends with a healthy listener.
StartServes ==
    alone /\ faults = 0 =>
        \A p \in Pids : ~(proc[p].kind = "start" /\ proc[p].outcome = "unhealthy")

\* The strengthening, as long as commands did not overlap: whoever is at work
\* is one command, or a background start and the listener it spawned; a listener
\* that nobody signalled is the one the command at work knows of.
Busy(p) == proc[p].pc \notin {"unborn", "exited", "serving"}
Unsignalled(p) == proc[p].pc = "serving" /\ ~proc[p].term
SpawnedBy(p, q) ==
    /\ proc[p].pc \in {"record", "health"} /\ proc[p].target = q
    /\ proc[q].kind = "foreground" /\ proc[q].pc \in {"check", "write", "bind"}
HasTarget == \A p \in Pids : proc[p].pc \in {"record", "health", "signal", "wait"} => proc[p].target \in Pids
OneAtWork == \A p, q \in Pids : Busy(p) /\ Busy(q) => p = q \/ SpawnedBy(p, q) \/ SpawnedBy(q, p)
KnowsWhoServes == \A p, s \in Pids :
    Unsignalled(s) =>
        /\ pidfile = s
        /\ proc[p].pc \notin {"spawn", "write", "bind", "wait"}
        /\ proc[p].pc = "record" => proc[p].target = s
NamesItself == \A p \in Pids :
    /\ proc[p].pc = "bind" => pidfile = p
    /\ proc[p].pc = "signal" => pidfile = proc[p].target
IInv == TypeOK /\ HasTarget /\ (alone => OneAtWork /\ KnowsWhoServes /\ NamesItself)
=============================================================================
