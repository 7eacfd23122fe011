---------------------------- MODULE Workstation ----------------------------
(***************************************************************************)
(* The machine an operator works at: the processes `lw` keeps there (the   *)
(* managed MCP listener and the tools it serves, the v_core daemon, agent  *)
(* sessions, the compose stack) and the files its commands keep there (the *)
(* artefacts of a finished task, agent memory, numbered records, logs and  *)
(* directories of ~/.lightwave, the secret ledger, the prints of runbooks).*)
(* These components share no state: a behaviour is one of one component,   *)
(* and v1, v2, ... hold the variables of that one.                         *)
(***************************************************************************)
EXTENDS Naturals, FiniteSets

CONSTANTS
    None, MaxFaults,
    Pids, VcorePids, Agents, Callers,                    \* processes and the commands beside them
    Conns, Services, critical, frontend,
    Files, Months, Keys, Values, Inodes,                 \* a task's files, agent memory
    Writers, Slugs, Fields, MaxNumber,                   \* numbered records
    Hands, Dirs, Parent, TopLevel, Wipeable, Managed,    \* ~/.lightwave
    Budget, MaxLines, MaxSeconds,
    Runs, Consumers, SecretMaps, Probed,                 \* secrets
    Steps, Declared, Operators, MaxChanges, MaxRuns      \* runbooks

VARIABLES
    part,     \* the component this is a behaviour of
    v1, v2, v3, v4, v5, v6, v7, v8, v9, \* its variables
    faults    \* the failures so far

Listener == INSTANCE McpListener WITH proc <- v1, pidfile <- v2, alone <- v3
Vcore == INSTANCE VcoreDaemon WITH daemon <- v1, record <- v2, command <- v3, alone <- v4,
          unsaved <- v5, Daemons <- VcorePids, Commands <- Callers
Sessions == INSTANCE AgentSessions WITH spawner <- v1, child <- v2, tree <- v3,
          record <- v4, command <- v5, Commands <- Callers
Server == INSTANCE McpServer WITH persona <- v1, conn <- v2, effects <- v3
Stack == INSTANCE LocalStack WITH container <- v1, volume <- v2, stranger <- v3,
          command <- v4, Commands <- Callers
Done == INSTANCE TaskDone WITH artefacts <- v1, archive <- v2, worktree <- v3, issue <- v4,
          noted <- v5, month <- v6, run <- v7, written <- v8, calm <- v9
Memory == INSTANCE MemoryStore WITH path <- v1, tmp <- v2, content <- v3, agent <- v4,
          shown <- v5, last <- v6, overlapped <- v7
Numbers == INSTANCE Artefacts WITH kind <- v1, adr <- v2, lock <- v3, tasks <- v4,
          index <- v5, writer <- v6, done <- v7, raced <- v8
Home == INSTANCE Maintenance WITH log <- v1, written <- v2, archive <- v3, hand <- v4,
          clock <- v5, dirs <- v6, filled <- v7, window <- v8, put <- v9
Rotation == INSTANCE SecretRotation WITH refresh <- v1, version <- v2, loaded <- v3,
          run <- v4, ledger <- v5
Engine == INSTANCE RunbookEngine WITH print <- v1, tree <- v2, core <- v3, changes <- v4,
          cmd <- v5, seen <- v6, Commands <- Operators, Step <- Declared

ASSUME ConstantsAssumption ==
    /\ Listener!PidsAssumption /\ Vcore!DaemonsAssumption /\ Sessions!AgentsAssumption
    /\ Server!FaultsAssumption /\ Stack!ServicesAssumption /\ Done!BoundsAssumption
    /\ Memory!BoundsAssumption /\ Numbers!BoundsAssumption /\ Home!HomeAssumption
    /\ Rotation!RotationAssumption /\ Engine!RunbookAssumption

\* The variables a component leaves over.
rest9 == <<v9>>
rest8 == <<v8, rest9>>
rest7 == <<v7, rest8>>
rest6 == <<v6, rest7>>
rest5 == <<v5, rest6>>
rest4 == <<v4, rest5>>
Spare9 == v9 = None
Spare8 == v8 = None /\ Spare9
Spare7 == v7 = None /\ Spare8
Spare6 == v6 = None /\ Spare7
Spare5 == v5 = None /\ Spare6
Spare4 == v4 = None /\ Spare5

Init ==
    /\ faults = 0
    /\ \/ part = "listener" /\ Listener!Init /\ Spare4
       \/ part = "vcore" /\ Vcore!Init /\ Spare6
       \/ part = "sessions" /\ Sessions!Init /\ Spare6
       \/ part = "server" /\ Server!Init /\ Spare4
       \/ part = "stack" /\ Stack!Init /\ Spare5
       \/ part = "done" /\ Done!Init
       \/ part = "memory" /\ Memory!Init /\ Spare8
       \/ part = "numbers" /\ Numbers!Init /\ Spare9
       \/ part = "home" /\ Home!Init
       \/ part = "rotation" /\ Rotation!Init /\ Spare6
       \/ part = "runbook" /\ Engine!Init /\ Spare7

Next ==
    /\ UNCHANGED part
    /\ \/ part = "listener" /\ Listener!Next /\ UNCHANGED rest4
       \/ part = "vcore" /\ Vcore!Next /\ UNCHANGED rest6
       \/ part = "sessions" /\ Sessions!Next /\ UNCHANGED rest6
       \/ part = "server" /\ Server!Next /\ UNCHANGED rest4
       \/ part = "stack" /\ Stack!Next /\ UNCHANGED rest5
       \/ part = "done" /\ Done!Next
       \/ part = "memory" /\ Memory!Next /\ UNCHANGED rest8
       \/ part = "numbers" /\ Numbers!Next /\ UNCHANGED rest9
       \/ part = "home" /\ Home!Next
       \/ part = "rotation" /\ Rotation!Next /\ UNCHANGED rest6
       \/ part = "runbook" /\ Engine!Next /\ UNCHANGED rest7

vars == <<part, faults, v1, v2, v3, v4, v5, v6, v7, v8, v9>>
Spec == Init /\ [][Next]_vars

-----------------------------------------------------------------------------
(* Properties                                                              *)

\* Every variable keeps the type its component gives it.
TypeOK ==
    CASE part = "listener" -> Listener!TypeOK
      [] part = "vcore" -> Vcore!TypeOK
      [] part = "sessions" -> Sessions!TypeOK
      [] part = "server" -> Server!TypeOK
      [] part = "stack" -> Stack!TypeOK
      [] part = "done" -> Done!TypeOK
      [] part = "memory" -> Memory!TypeOK
      [] part = "numbers" -> Numbers!TypeOK
      [] part = "home" -> Home!TypeOK
      [] part = "rotation" -> Rotation!TypeOK
      [] part = "runbook" -> Engine!TypeOK

\* As long as no two commands were at work at once, a process the machine keeps
\* is the one its record names: the listener that serves, and the daemon that
\* lives, unless its start failed to save it; and whatever overlaps, a session
\* on record as running has its worktree and one as exited is dead.
ProcessesAreRecorded ==
    CASE part = "listener" -> Listener!ServingIsRecorded
      [] part = "vcore" -> Vcore!DaemonIsRecorded
      [] part = "sessions" -> Sessions!RecordsTellTheTruth
      [] OTHER -> TRUE

\* A revoked persona writes and dispatches nothing more than the request at work.
RevocationHolds == part = "server" => Server!RevocationHolds

\* The step in which an up reports success has every critical service healthy.
UpMeansHealthy == [][part = "stack" => Stack!UpMeansHealthy]_vars

\* A file of a finished task is in its directory or in an archive, a value that
\* a put reported is what is read, and no record takes the number of another or
\* loses an edit that succeeded, wherever a command was cut off.
NothingWrittenIsLost ==
    CASE part = "done" -> Done!FilesAreSomewhere
      [] part = "memory" -> Memory!ValuesSurvive
      [] part = "numbers" -> Numbers!NumbersAndEditsKept
      [] OTHER -> TRUE

\* Hygiene costs no line, no file and no protected directory.
NothingOfValueGoes == part = "home" => Home!NothingOfValueGoes

\* A rotation that ends names every consumer left behind, its verified row is
\* true of all of them, and a success has left both of its rows.
RotationTellsTheTruth ==
    part = "rotation" =>
        Rotation!ExitTellsStale /\ Rotation!VerifiedRowIsTrue /\ Rotation!DoneIsRecorded

\* A runbook step that needs a sign-off never runs without its own, a receipt
\* means that every step ran, audited, at the commit it names, and that no
\* drift was seen; a step runs again only for a fault, and sees the outputs of
\* those before; and what is over stays over.
RunbookKeepsItsWord ==
    [][part = "runbook" =>
           /\ (/\ Engine!UnsignedNeverRuns /\ Engine!ReceiptMeansRan /\ Engine!ReceiptBindsCommit
               /\ Engine!ObservedDriftVoids /\ Engine!RunsOnlyOnce /\ Engine!CompletedIsAudited
               /\ Engine!OutputsSurviveThePause)'
           /\ Engine!StaysFinished]_vars
=============================================================================
