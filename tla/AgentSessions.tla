--------------------------- MODULE AgentSessions ---------------------------
(***************************************************************************)
(* `lw agent spawn | list | status | stop`: sub-sessions in worktrees of   *)
(* their own, each with one JSON record.  The `lw` that spawned a session  *)
(* reaps it if it lives long enough; pollers notice a dead pid; a stop     *)
(* works on the copy of the record it loaded, across a prompt and a wait.  *)
(***************************************************************************)
EXTENDS Naturals

CONSTANTS
    Agents,      \* sessions, by their ids
    Commands,    \* invocations of list, status and stop
    None,
    MaxFaults    \* git calls, writes and spawns that fail, processes killed

\* Assumed of the constants; the module that composes this one states it.
AgentsAssumption == None \notin Agents /\ MaxFaults \in Nat

VARIABLES
    spawner,     \* per agent, where Spawn and then its reaper stand
    child,       \* per agent, its process
    tree,        \* agents whose worktree and branch exist
    record,      \* the saved records
    command,     \* per invocation, where it is and the copy it works on
    faults

vars == <<spawner, child, tree, record, command, faults>>

Unsaved == [status |-> "none", code |-> FALSE]
Records == [status : {"none", "running", "exited", "error"}, code : BOOLEAN]
Spawning == {"new", "context", "start", "save", "rollback", "reap", "write", "gone"}

TypeOK ==
    /\ spawner \in [Agents -> Spawning]
    /\ child \in [Agents -> {"none", "alive", "dying", "dead"}]
    /\ tree \subseteq Agents
    /\ record \in [Agents -> Records]
    /\ command \in [Commands -> [pc : {"ready", "refresh", "prompt", "signal", "wait", "save", "remove", "done"},
                                 on : Agents \cup {None}, copy : Records, stop : BOOLEAN]]
    /\ faults \in 0 .. MaxFaults

Init ==
    /\ spawner = [a \in Agents |-> "new"]
    /\ child = [a \in Agents |-> "none"]
    /\ tree = {}
    /\ record = [a \in Agents |-> Unsaved]
    /\ command = [c \in Commands |-> [pc |-> "ready", on |-> None, copy |-> Unsaved, stop |-> FALSE]]
    /\ faults = 0

-----------------------------------------------------------------------------
pidAlive(a) == child[a] \in {"alive", "dying"}
Spawner(a, pc) == spawner' = [spawner EXCEPT ![a] = pc]
Fail == faults < MaxFaults /\ faults' = faults + 1
Fine == UNCHANGED faults
files == <<tree, record>>

\* Spawn: worktree, context and log file, process, record; a failure before
\* the process runs removes the worktree again, as far as git lets it.
CreateWorktree(a) ==
    /\ spawner[a] = "new" /\ UNCHANGED <<child, record, command>>
    /\ \/ tree' = tree \cup {a} /\ Spawner(a, "context") /\ Fine
       \/ Spawner(a, "gone") /\ Fail /\ UNCHANGED tree

WriteContext(a) ==
    /\ spawner[a] = "context" /\ UNCHANGED <<child, files, command>>
    /\ \/ Spawner(a, "start") /\ Fine
       \/ Spawner(a, "rollback") /\ Fail

\* A start that fails is recorded as an error after the rollback.
StartChild(a) ==
    /\ spawner[a] = "start"
    /\ \/ /\ child' = [child EXCEPT ![a] = "alive"] /\ Spawner(a, "save")
          /\ Fine /\ UNCHANGED <<files, command>>
       \/ /\ tree' = tree \ {a} /\ record' = [record EXCEPT ![a].status = "error"]
          /\ Spawner(a, "gone") /\ Fail /\ UNCHANGED <<child, command>>

Rollback(a) ==
    /\ spawner[a] = "rollback" /\ Spawner(a, "gone") /\ UNCHANGED <<child, record, command>>
    /\ \/ tree' = tree \ {a} /\ Fine
       \/ UNCHANGED tree /\ Fail

SaveRunning(a) ==
    /\ spawner[a] = "save" /\ UNCHANGED <<child, tree, command>>
    /\ \/ record' = [record EXCEPT ![a].status = "running"] /\ Spawner(a, "reap") /\ Fine
       \/ Spawner(a, "gone") /\ Fail /\ UNCHANGED record

\* The reaper: Wait returns, load the record, and only if it still says
\* running save it as exited with the code.
ReapLoad(a) ==
    /\ spawner[a] = "reap" /\ ~pidAlive(a)
    /\ Spawner(a, IF record[a].status = "running" THEN "write" ELSE "gone")
    /\ UNCHANGED <<child, files, command>> /\ Fine

ReapSave(a) ==
    /\ spawner[a] = "write" /\ Spawner(a, "gone") /\ UNCHANGED <<child, tree, command>>
    /\ \/ record' = [record EXCEPT ![a] = [status |-> "exited", code |-> TRUE]] /\ Fine
       \/ UNCHANGED record /\ Fail

\* `lw agent spawn` returns and its reaper dies with it, or it is killed.
SpawnerEnds(a) ==
    /\ spawner[a] \notin {"new", "gone"} /\ Spawner(a, "gone")
    /\ IF spawner[a] \in {"reap", "write"} THEN Fine ELSE Fail
    /\ UNCHANGED <<child, files, command>>

ChildExits(a) ==
    /\ pidAlive(a) /\ child' = [child EXCEPT ![a] = "dead"]
    /\ UNCHANGED <<spawner, files, command>> /\ Fine

-----------------------------------------------------------------------------
Go(c, pc) == command' = [command EXCEPT ![c].pc = pc]
Copy(c) == command[c].copy
Agent(c) == command[c].on
At(c, pc) == command[c].pc = pc

\* agent.Load by id; a list loads every record and refreshes each.
Load(c, a, stop) ==
    /\ At(c, "ready") /\ record[a].status # "none"
    /\ command' = [command EXCEPT ![c] = [pc |-> "refresh", on |-> a, copy |-> record[a], stop |-> stop]]
    /\ UNCHANGED <<spawner, child, files>> /\ Fine

\* Mutant: The refresh trusts the copy it loaded and skips the liveness probe.
RefreshTrusting(c) ==
    /\ At(c, "refresh") /\ UNCHANGED <<spawner, child, tree>> /\ Fine
    /\ LET exited == [Copy(c) EXCEPT !.status = "exited"]
       IN /\ command' = [command EXCEPT ![c].pc = IF command[c].stop THEN "prompt" ELSE "done", ![c].copy = exited]
          /\ record' = [record EXCEPT ![Agent(c)] = exited]

\* RefreshStatus: a running copy whose pid is gone becomes exited, without a
\* code, and is saved.
RefreshStatus(c) ==
    /\ At(c, "refresh") /\ UNCHANGED <<spawner, child, tree>>
    /\ LET next == IF command[c].stop THEN "prompt" ELSE "done"
           exited == [Copy(c) EXCEPT !.status = "exited"]
       IN IF Copy(c).status = "running" /\ ~pidAlive(Agent(c))
          THEN /\ command' = [command EXCEPT ![c].pc = next, ![c].copy = exited]
               /\ \/ record' = [record EXCEPT ![Agent(c)] = exited] /\ Fine
                  \/ UNCHANGED record /\ Fail
          ELSE Go(c, next) /\ UNCHANGED record /\ Fine

\* Only a copy that says running is asked about and signalled.
Prompt(c) ==
    /\ At(c, "prompt") /\ UNCHANGED <<spawner, child, files>> /\ Fine
    /\ IF Copy(c).status = "running" THEN Go(c, "signal") \/ Go(c, "done") ELSE Go(c, "save")

\* SIGTERM and a wait of three seconds, or SIGKILL and none.
Signal(c) ==
    /\ At(c, "signal") /\ Go(c, "save")
    /\ child' = IF pidAlive(Agent(c)) THEN [child EXCEPT ![Agent(c)] = "dying"] ELSE child
    /\ UNCHANGED <<spawner, files>> /\ Fine

\* Mutant: Stop removes the worktree before it saves the record.
SaveExitedLate(c) ==
    /\ At(c, "save") /\ UNCHANGED <<spawner, child>>
    /\ \/ tree' = tree \ {Agent(c)} /\ Go(c, "done") /\ Fail /\ UNCHANGED record
       \/ /\ record' = [record EXCEPT ![Agent(c)] = [Copy(c) EXCEPT !.status = "exited"]]
          /\ Go(c, "remove") /\ Fine /\ UNCHANGED tree

\* The copy is saved as exited first, the worktree and branch go after it.
SaveExited(c) ==
    /\ At(c, "save") /\ UNCHANGED <<spawner, child, tree>>
    /\ \/ record' = [record EXCEPT ![Agent(c)] = [Copy(c) EXCEPT !.status = "exited"]] /\ Go(c, "remove") /\ Fine
       \/ Go(c, "done") /\ Fail /\ UNCHANGED record

RemoveWorktree(c) ==
    /\ At(c, "remove") /\ Go(c, "done") /\ UNCHANGED <<spawner, child, record>>
    /\ \/ tree' = tree \ {Agent(c)} /\ Fine
       \/ UNCHANGED tree /\ Fail

Kill(c) ==
    /\ ~At(c, "ready") /\ ~At(c, "done") /\ Go(c, "done")
    /\ UNCHANGED <<spawner, child, files>> /\ Fail

AgentStep(a) ==
    \/ CreateWorktree(a) \/ WriteContext(a) \/ StartChild(a) \/ Rollback(a) \/ SaveRunning(a)
    \/ ReapLoad(a) \/ ReapSave(a) \/ SpawnerEnds(a) \/ ChildExits(a)
CommandStep(c) ==
    \/ \E a \in Agents, stop \in BOOLEAN : Load(c, a, stop)
    \/ RefreshStatus(c) \/ Prompt(c) \/ Signal(c) \/ SaveExited(c) \/ RemoveWorktree(c) \/ Kill(c)

Next == (\E a \in Agents : AgentStep(a)) \/ (\E c \in Commands : CommandStep(c))
Spec == Init /\ [][Next]_vars

-----------------------------------------------------------------------------
(* Properties                                                              *)

\* Whatever pollers, reaper and stops do to one record at the same time, and
\* wherever they die: a record that says running has its worktree, and one
\* that says exited is of a process that is dead, was told to end or never ran.
RecordsTellTheTruth ==
    \A a \in Agents :
        /\ record[a].status = "running" => a \in tree
        /\ record[a].status = "exited" => child[a] # "alive"

\* The strengthening: until its process runs and is saved a session has no
\* record, and from its worktree on it has that; whoever works on a record
\* loaded one that was saved, and does not take a living process for dead.
UnsavedUntilRunning == \A a \in Agents :
    /\ spawner[a] \in {"new", "context", "start", "save", "rollback"} => record[a].status = "none"
    /\ spawner[a] \in {"context", "start", "save", "rollback"} => a \in tree
    /\ spawner[a] \in {"new", "context", "start", "rollback"} => child[a] = "none"
    /\ spawner[a] = "write" => child[a] # "alive" /\ record[a].status # "none"
    /\ record[a].status = "error" => child[a] # "alive"
CopiesAreOfRecords == \A c \in Commands :
    command[c].pc \notin {"ready", "done"} =>
        LET a == command[c].on
        IN /\ a \in Agents /\ record[a].status # "none" /\ command[c].copy.status # "none"
           /\ command[c].copy.status # "running" => child[a] # "alive"
           /\ command[c].pc \in {"save", "remove"} => child[a] # "alive"
           /\ command[c].pc = "remove" => record[a].status # "running"
IInv == TypeOK /\ UnsavedUntilRunning /\ CopiesAreOfRecords /\ RecordsTellTheTruth
=============================================================================
