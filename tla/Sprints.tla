------------------------------ MODULE Sprints ------------------------------
(***************************************************************************)
(* The life of a sprint: `lw sprint create|update|auto-plan|plan|start|    *)
(* complete|check`, the lineage gate over the epic's documents with `lw    *)
(* lineage check|fix`, and the spec files of .claude/queue. Two terminals  *)
(* may be at work; a command may fail or be killed between two calls.      *)
(***************************************************************************)
EXTENDS Naturals, FiniteSets

CONSTANTS
    SprintIds, Tasks,
    Commands,      \* terminals
    None,
    Limit,         \* tasks one query returns (100 in the code)
    MaxFaults      \* calls that fail, and commands that are killed

\* Assumed of the constants; the module that composes this one states it.
BoundsAssumption == Limit \in Nat \ {0} /\ MaxFaults \in Nat /\ IsFiniteSet(Tasks)

VARIABLES
    sprint,        \* status of each row, "none" before it exists
    task,          \* per task of the epic: its sprint and whether it is done
    spec,          \* spec files: sprint and queue directory
    prd,           \* whether the epic has its required document, the sprint blocker
    cmd,           \* the command of each terminal
    faults,
    overlap        \* history: two starts were at work at once, or a status was set by hand

vars == <<sprint, task, spec, prd, cmd, faults, overlap>>

Dirs == {"draft", "active"}      \* a spec that is filed under done is never found again
Idle == [op |-> "none", pc |-> "idle", s |-> None, seen |-> {}, force |-> FALSE, quiet |-> TRUE]
Ops == {"none", "start", "complete", "autoplan"}
Pcs == {"idle", "sprint", "assign", "guard", "gate", "activate", "move", "update", "file"}

TypeOK ==
    /\ sprint \in [SprintIds -> {"none", "planned", "active", "completed"}]
    /\ task \in [Tasks -> [in : SprintIds \cup {None}, done : BOOLEAN]]
    /\ spec \in [SprintIds -> SUBSET Dirs]
    /\ prd \in BOOLEAN
    /\ cmd \in [Commands -> [op : Ops, pc : Pcs, s : SprintIds \cup {None}, seen : SUBSET Tasks,
                             force : BOOLEAN, quiet : BOOLEAN]]
    /\ faults \in 0 .. MaxFaults /\ overlap \in BOOLEAN

Init ==
    /\ sprint = [s \in SprintIds |-> "none"]
    /\ task = [t \in Tasks |-> [in |-> None, done |-> FALSE]]
    /\ spec = [s \in SprintIds |-> {}] /\ prd \in BOOLEAN
    /\ cmd = [c \in Commands |-> Idle]
    /\ faults = 0 /\ overlap = FALSE

-----------------------------------------------------------------------------
db == <<sprint, task>>
Fine == UNCHANGED faults
Fail == faults < MaxFaults /\ faults' = faults + 1
At(c, pc) == cmd[c].pc = pc
Go(c, pc) == cmd' = [cmd EXCEPT ![c].pc = pc]
End(c) == cmd' = [cmd EXCEPT ![c] = Idle]
\* Whatever changes the tasks, the sprints or the documents is news to the
\* commands at work elsewhere.
Noticed(c) == [d \in Commands |-> IF d = c THEN cmd[d] ELSE [cmd[d] EXCEPT !.quiet = FALSE]]

\* What a query for a sprint's tasks returns: at most Limit of them, the most
\* recently touched, which may be any.
TasksOf(s) == {t \in Tasks : task[t].in = s}
Listed(s) == {ts \in SUBSET TasksOf(s) :
                 Cardinality(ts) = IF Cardinality(TasksOf(s)) <= Limit THEN Cardinality(TasksOf(s)) ELSE Limit}
Active == {s \in SprintIds : sprint[s] = "active"}

-----------------------------------------------------------------------------
(* Single statements: create, update, plan, documents, task updates        *)

Statement == UNCHANGED faults /\ cmd' = [d \in Commands |-> [cmd[d] EXCEPT !.quiet = (cmd[d].op = "none")]]
CreateSprint(s, status) ==
    /\ Statement /\ sprint[s] = "none" /\ sprint' = [sprint EXCEPT ![s] = status]
    /\ overlap' = (overlap \/ status = "active")
    /\ UNCHANGED <<task, spec, prd>>
UpdateSprint(s, status) ==
    /\ Statement /\ sprint[s] \notin {"none", status} /\ sprint' = [sprint EXCEPT ![s] = status]
    /\ overlap' = (overlap \/ status = "active") /\ UNCHANGED <<task, spec, prd>>
\* plan: a draft spec whatever the sprint's status; a spec elsewhere stays.
PlanSprint(s) ==
    /\ sprint[s] # "none" /\ spec' = [spec EXCEPT ![s] = @ \cup {"draft"}]
    /\ UNCHANGED <<db, prd, cmd, faults, overlap>>
\* lineage fix makes it, as a draft; documents are deleted softly.
EditDocument == Statement /\ prd' = ~prd /\ UNCHANGED <<db, spec, overlap>>
UpdateTask(t) ==
    /\ Statement /\ \E s \in {None} \cup {r \in SprintIds : sprint[r] # "none"}, done \in BOOLEAN :
                       task' = [task EXCEPT ![t] = [in |-> s, done |-> done]]
    /\ task' # task /\ UNCHANGED <<sprint, spec, prd, overlap>>

-----------------------------------------------------------------------------
(* auto-plan: the approved, unsprinted tasks of the epic                   *)

AutoPlan(c) ==
    /\ cmd[c].op = "none" /\ \E approved \in SUBSET {t \in Tasks : ~task[t].done} :
           LET ready == approved \cap TasksOf(None)
           IN /\ ready # {} /\ Cardinality(approved) <= Limit
              /\ cmd' = [cmd EXCEPT ![c] = [Idle EXCEPT !.op = "autoplan", !.pc = "sprint", !.seen = ready]]
    /\ UNCHANGED <<db, spec, prd, faults, overlap>>
AutoPlanSprint(c) ==
    /\ At(c, "sprint") /\ UNCHANGED <<task, spec, prd, overlap>>
    /\ \/ \E s \in SprintIds :
            /\ sprint[s] = "none" /\ sprint' = [sprint EXCEPT ![s] = "planned"]
            /\ cmd' = [Noticed(c) EXCEPT ![c].pc = "assign", ![c].s = s] /\ Fine
       \/ UNCHANGED sprint /\ End(c) /\ Fail
\* The tasks of the list, whatever became of them; a failure is passed over.
AutoPlanAssign(c) ==
    /\ At(c, "assign") /\ UNCHANGED <<sprint, spec, prd, overlap>>
    /\ IF cmd[c].seen = {} THEN End(c) /\ UNCHANGED task /\ Fine
       ELSE \E t \in cmd[c].seen :
           /\ cmd' = [Noticed(c) EXCEPT ![c].seen = @ \ {t}]
           /\ \/ task' = [task EXCEPT ![t].in = cmd[c].s] /\ Fine
              \/ UNCHANGED task /\ Fail

-----------------------------------------------------------------------------
(* start                                                                   *)

\* The named sprint, or the first planned one; any status is accepted.
Start(c, s, skipGate) ==
    /\ cmd[c].op = "none" /\ sprint[s] # "none"
    /\ cmd' = [cmd EXCEPT ![c] = [Idle EXCEPT !.op = "start", !.pc = "guard", !.s = s, !.force = skipGate]]
    /\ overlap' = (overlap \/ \E d \in Commands : cmd[d].op = "start")
    /\ UNCHANGED <<db, spec, prd, faults>>

\* Mutant: a start does not ask for the active sprint.
GuardSelf(c) ==
    /\ cmd[c].op = "start" /\ At(c, "guard") /\ UNCHANGED <<db, spec, prd, overlap>>
    /\ Go(c, "gate") /\ Fine

Guard(c) ==
    /\ cmd[c].op = "start" /\ At(c, "guard") /\ UNCHANGED <<db, spec, prd, overlap>>
    /\ \/ /\ Fine
          /\ IF Active = {} THEN Go(c, "gate")
             ELSE \E first \in Active : IF first = cmd[c].s THEN Go(c, "gate") ELSE End(c)
       \/ End(c) /\ Fail

\* FindSprintSpec and MoveSpec: the one spec there is; two are ambiguous.
Moved(s, dirs) == [spec EXCEPT ![s] = IF Cardinality(@) = 1 THEN dirs ELSE @]

\* Mutant: the documents are not asked for.
GateOpen(c) ==
    /\ cmd[c].op = "start" /\ At(c, "gate") /\ UNCHANGED <<db, spec, prd, overlap>>
    /\ Go(c, "activate") /\ Fine

\* The lineage gate: sprint_blockers that are missing; a draft does not block.
Gate(c) ==
    /\ cmd[c].op = "start" /\ At(c, "gate") /\ UNCHANGED <<db, spec, prd, overlap>>
    /\ IF cmd[c].force
       THEN cmd' = [cmd EXCEPT ![c].pc = "activate", ![c].force = FALSE, ![c].quiet = FALSE] /\ Fine
       ELSE \/ (IF prd THEN Go(c, "activate") ELSE End(c)) /\ Fine
            \/ End(c) /\ Fail

Activate(c) ==
    /\ cmd[c].op = "start" /\ At(c, "activate") /\ UNCHANGED <<task, spec, prd, overlap>>
    /\ \/ sprint' = [sprint EXCEPT ![cmd[c].s] = "active"]
          /\ cmd' = [Noticed(c) EXCEPT ![c].pc = "move"] /\ Fine
       \/ UNCHANGED sprint /\ End(c) /\ Fail

\* The spec found before the gate is renamed: a warning when it is gone. The
\* issues of the sprint and the session that is spawned are modelled elsewhere.
MoveToActive(c) ==
    /\ cmd[c].op = "start" /\ At(c, "move") /\ End(c) /\ UNCHANGED <<db, prd, overlap>>
    /\ \/ spec' = Moved(cmd[c].s, {"active"}) /\ Fine
       \/ UNCHANGED spec /\ Fail

-----------------------------------------------------------------------------
(* complete                                                                *)

\* Mutant: the gate does not look at the tasks still open.
CompleteOpen(c, s, force) ==
    /\ cmd[c].op = "none" /\ sprint[s] # "none" /\ UNCHANGED <<db, spec, prd, faults, overlap>>
    /\ \E ts \in Listed(s) :
        /\ force \/ ts # {}
        /\ cmd' = [cmd EXCEPT ![c] = [Idle EXCEPT !.op = "complete", !.pc = "update", !.s = s, !.quiet = ~force]]

\* The list, the zero-task guard and the open-task gate.
Complete(c, s, force) ==
    /\ cmd[c].op = "none" /\ sprint[s] # "none" /\ UNCHANGED <<db, spec, prd, faults, overlap>>
    /\ \E ts \in Listed(s) :
        /\ force \/ (ts # {} /\ \A t \in ts : task[t].done)
        /\ cmd' = [cmd EXCEPT ![c] = [Idle EXCEPT !.op = "complete", !.pc = "update", !.s = s, !.quiet = ~force]]

CompleteUpdate(c) ==
    /\ cmd[c].op = "complete" /\ At(c, "update") /\ UNCHANGED <<task, spec, prd, overlap>>
    /\ \/ sprint' = [sprint EXCEPT ![cmd[c].s] = "completed"]
          /\ cmd' = [Noticed(c) EXCEPT ![c].pc = "file"] /\ Fine
       \/ UNCHANGED sprint /\ End(c) /\ Fail

\* The issues of the tasks done at the list are closed, and the spec is filed.
CompleteFile(c) ==
    /\ cmd[c].op = "complete" /\ At(c, "file") /\ End(c) /\ UNCHANGED <<db, prd, overlap>>
    /\ \/ spec' = Moved(cmd[c].s, {}) /\ Fine
       \/ UNCHANGED spec /\ Fail

Killed(c) == cmd[c].op # "none" /\ End(c) /\ Fail /\ UNCHANGED <<db, spec, prd, overlap>>

Next ==
    \/ \E s \in SprintIds, status \in {"planned", "active"} : CreateSprint(s, status)
    \/ \E s \in SprintIds, status \in {"planned", "active", "completed"} : UpdateSprint(s, status)
    \/ \E s \in SprintIds : PlanSprint(s)
    \/ EditDocument \/ \E t \in Tasks : UpdateTask(t)
    \/ \E c \in Commands :
        \/ AutoPlan(c) \/ AutoPlanSprint(c) \/ AutoPlanAssign(c)
        \/ \E s \in SprintIds, skip \in BOOLEAN : Start(c, s, skip)
        \/ Guard(c) \/ Gate(c) \/ Activate(c) \/ MoveToActive(c)
        \/ \E s \in SprintIds, force \in BOOLEAN : Complete(c, s, force)
        \/ CompleteUpdate(c) \/ CompleteFile(c) \/ Killed(c)
Spec == Init /\ [][Next]_vars

-----------------------------------------------------------------------------
(* Property                                                                *)

\* At most one sprint is active, and it became so with its required document
\* there; a completed one has no open task - except where two starts
\* overlapped or a status was set by hand, where --skip-gate or --force was
\* given, where something changed under the command, and where the sprint
\* holds more tasks than one query returns.
SprintsKeepTheirGates ==
    /\ overlap \/ Cardinality(Active) <= 1
    /\ \A c \in Commands :
           /\ (cmd[c].op = "start" /\ At(c, "move") /\ cmd[c].quiet) => prd
           /\ /\ cmd[c].op = "complete" /\ At(c, "file") /\ cmd[c].quiet
              /\ Cardinality(TasksOf(cmd[c].s)) <= Limit
              => TasksOf(cmd[c].s) # {} /\ \A t \in TasksOf(cmd[c].s) : task[t].done

\* Why: without an overlap one start is at work at most, and past its guard it
\* knows of no other active sprint; what its gate, or the list of a complete,
\* has told stays so until a change makes the command unquiet.
OthersPlan == \A c \in Commands : cmd[c].pc \in {"sprint", "assign"} => cmd[c].op = "autoplan"
OneStarts == ~overlap => \A c, d \in Commands : cmd[c].op = "start" /\ cmd[d].op = "start" => c = d
OneActive == ~overlap => \A s, r \in Active : s = r
ActiveIsItsOwn ==
    ~overlap => \A c \in Commands : cmd[c].op = "start" /\ cmd[c].pc \in {"gate", "activate"} => Active \subseteq {cmd[c].s}
GateTold ==
    \A c \in Commands : cmd[c].op = "start" /\ cmd[c].pc \in {"activate", "move"} /\ cmd[c].quiet => prd
ListTold ==
    \A c \in Commands :
        cmd[c].op = "complete" /\ cmd[c].quiet /\ Cardinality(TasksOf(cmd[c].s)) <= Limit
            => TasksOf(cmd[c].s) # {} /\ \A t \in TasksOf(cmd[c].s) : task[t].done
IInv == TypeOK /\ OthersPlan /\ OneStarts /\ OneActive /\ ActiveIsItsOwn /\ GateTold /\ ListTold
=============================================================================
