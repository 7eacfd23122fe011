---------------------------- MODULE VcoreDaemon ----------------------------
(***************************************************************************)
(* `lw v_core start | stop | status`: one daemon at a time, found again by *)
(* the record in ~/.lightwave/v_core/state.json.  Commands are processes   *)
(* that may overlap; each reads the record, acts on a process and writes   *)
(* or removes the record, and any of these steps may be its last.          *)
(***************************************************************************)
EXTENDS Naturals, FiniteSets

CONSTANTS
    Daemons,     \* processes a start can spawn
    Commands,    \* invocations of `lw v_core`
    None,
    MaxFaults    \* failed spawns and saves, commands killed, daemons that crash

\* Assumed of the constants; the module that composes this one states it.
DaemonsAssumption == None \notin Daemons /\ MaxFaults \in Nat

VARIABLES
    daemon,      \* per pid: not spawned, alive, signalled but alive, or gone
    record,      \* the pid in state.json
    command,     \* per invocation: what it does, where it is, the pid it read
    faults,
    alone,       \* history: no two commands were at work at once
    unsaved      \* history: daemons whose start could not save its record

vars == <<daemon, record, command, faults, alone, unsaved>>
history == <<alone, unsaved>>

TypeOK ==
    /\ daemon \in [Daemons -> {"unborn", "alive", "dying", "gone"}]
    /\ record \in Daemons \cup {None}
    /\ command \in [Commands -> [kind : {"start", "stop", "status"}, found : Daemons \cup {None},
                       pc : {"ready", "load", "spawn", "save", "clear", "reload", "wait", "done"}]]
    /\ faults \in 0 .. MaxFaults /\ alone \in BOOLEAN /\ unsaved \subseteq Daemons

Init ==
    /\ daemon = [d \in Daemons |-> "unborn"]
    /\ record = None
    /\ command = [c \in Commands |-> [kind |-> "start", found |-> None, pc |-> "ready"]]
    /\ faults = 0 /\ alone = TRUE /\ unsaved = {}

-----------------------------------------------------------------------------
pidAlive(d) == d # None /\ daemon[d] \in {"alive", "dying"}
At(c, pc) == command[c].pc = pc
Go(c, pc) == command' = [command EXCEPT ![c].pc = pc]
AtWork == {c \in Commands : command[c].pc \notin {"ready", "done"}}
Fail == faults < MaxFaults /\ faults' = faults + 1
Fine == UNCHANGED faults

Invoke(c, kind) ==
    /\ At(c, "ready")
    /\ command' = [command EXCEPT ![c].kind = kind, ![c].pc = "load"]
    /\ alone' = (alone /\ AtWork = {})
    /\ UNCHANGED <<daemon, record, faults, unsaved>>

\* Mutant: Start falls through whenever the status call clears first.
LoadUnchecked(c) ==
    /\ At(c, "load")
    /\ command' = [command EXCEPT ![c].found = record,
           ![c].pc = CASE command[c].kind = "start" -> "spawn"
                       [] record = None -> "done"
                       [] command[c].kind = "stop" -> "reload"
                       [] OTHER -> "clear"]
    /\ UNCHANGED <<daemon, record, history>> /\ Fine

\* Start refuses when the recorded pid lives and falls through otherwise;
\* Status, which stop asks first, clears a record whose pid is gone.
Load(c) ==
    /\ At(c, "load")
    /\ command' = [command EXCEPT ![c].found = record,
           ![c].pc = CASE command[c].kind = "start" -> IF pidAlive(record) THEN "done" ELSE "spawn"
                       [] record = None -> "done"
                       [] ~pidAlive(record) -> "clear"
                       [] command[c].kind = "stop" -> "reload"
                       [] OTHER -> "done"]
    /\ UNCHANGED <<daemon, record, history>> /\ Fine

\* ClearState removes the file, whatever it holds by now.
Clear(c) ==
    /\ At(c, "clear") /\ record' = None /\ Go(c, "done")
    /\ UNCHANGED <<daemon, history>> /\ Fine

\* Start: resolve the binary, open the log, spawn in a session of its own.
Spawn(c) ==
    /\ At(c, "spawn") /\ UNCHANGED <<record, history>>
    /\ \/ \E d \in Daemons :
              /\ daemon[d] = "unborn" /\ daemon' = [daemon EXCEPT ![d] = "alive"]
              /\ command' = [command EXCEPT ![c].pc = "save", ![c].found = d] /\ Fine
       \/ Go(c, "done") /\ Fail /\ UNCHANGED daemon

\* A save that fails is reported and the daemon left running.
SaveState(c) ==
    /\ At(c, "save") /\ Go(c, "done") /\ UNCHANGED <<daemon, alone>>
    /\ \/ record' = command[c].found /\ Fine /\ UNCHANGED unsaved
       \/ unsaved' = unsaved \cup {command[c].found} /\ Fail /\ UNCHANGED record

\* vcore.Stop loads the record again and signals whom it names now; with
\* --force it does not wait.
Stop(c) ==
    /\ At(c, "reload")
    /\ command' = [command EXCEPT ![c].found = record, ![c].pc = IF record = None THEN "done" ELSE "wait"]
    /\ daemon' = IF pidAlive(record) THEN [daemon EXCEPT ![record] = "dying"] ELSE daemon
    /\ UNCHANGED <<record, history>> /\ Fine

\* The process is gone, or the five seconds are over, or nobody waits.
Stopped(c) ==
    /\ At(c, "wait") /\ record' = None /\ Go(c, "done")
    /\ UNCHANGED <<daemon, history>> /\ Fine

\* The command is killed; between spawn and save it leaves a daemon behind.
Kill(c) ==
    /\ c \in AtWork /\ Go(c, "done") /\ Fail
    /\ unsaved' = IF At(c, "save") THEN unsaved \cup {command[c].found} ELSE unsaved
    /\ UNCHANGED <<daemon, record, alone>>

\* The daemon ends: on the signal, or by itself.
Exit(d) ==
    /\ pidAlive(d) /\ daemon' = [daemon EXCEPT ![d] = "gone"]
    /\ IF daemon[d] = "alive" THEN Fail ELSE Fine
    /\ UNCHANGED <<record, command, history>>

Step(c) ==
    \/ \E k \in {"start", "stop", "status"} : Invoke(c, k)
    \/ Load(c) \/ Clear(c) \/ Spawn(c) \/ SaveState(c) \/ Stop(c) \/ Stopped(c) \/ Kill(c)

Next == (\E c \in Commands : Step(c)) \/ (\E d \in Daemons : Exit(d))
Spec == Init /\ [][Next]_vars

-----------------------------------------------------------------------------
(* Properties                                                              *)

\* As long as commands did not overlap, a daemon that lives and was not
\* signalled is the one the record names, or its start could not save the
\* record, was killed before it did, or is about to: nothing else in
\* internal/vcore/vcore.go makes the supervisor lose a daemon.
DaemonIsRecorded ==
    alone => \A d \in Daemons : daemon[d] = "alive" =>
        \/ record = d
        \/ d \in unsaved
        \/ \E c \in Commands : At(c, "save") /\ command[c].found = d

\* The strengthening: a record and a save are of a daemon that was spawned, at
\* most one command is at work while none overlapped, and a command that is
\* about to replace or remove the record does not find a living daemon in it.
SpawnedFirst ==
    /\ record # None => daemon[record] # "unborn"
    /\ \A c \in Commands : At(c, "save") => command[c].found # None /\ daemon[command[c].found] # "unborn"
OneAtWork == alone => \A b, c \in AtWork : b = c
StaleWhenReplaced == alone => \A c \in Commands :
    command[c].pc \in {"spawn", "save", "clear", "wait"} => record = None \/ daemon[record] # "alive"
IInv == TypeOK /\ SpawnedFirst /\ OneAtWork /\ StaleWhenReplaced /\ DaemonIsRecorded
=============================================================================
