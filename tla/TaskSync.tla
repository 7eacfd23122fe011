------------------------------ MODULE TaskSync ------------------------------
(***************************************************************************)
(* Tasks of the createOS database and the GitHub issues and pull requests  *)
(* that stand for them: `lw task create|start|pr|status`, `lw github       *)
(* sync|sweep-merged|monitor-pr|close-done|ready` and the issues that `lw  *)
(* sprint start` files. One command works at a time; people close issues,  *)
(* review and merge between any two of its calls, any call may fail, and   *)
(* the command may be interrupted.                                         *)
(***************************************************************************)
EXTENDS Naturals, FiniteSets

CONSTANTS
    Tasks,         \* rows that may come to exist
    Issues,        \* issue numbers that may come to exist
    None,
    MaxFaults      \* calls that fail, interruptions, and changes made by hand

\* Assumed of the constants; the module that composes this one states it.
BoundsAssumption == MaxFaults \in Nat /\ None \notin Tasks \cup Issues

VARIABLES
    task,          \* the rows; notion_id as the issue it refers to
    issue,         \* the issues of the platform repo
    pr,            \* per task: the pull request of its branch
    cmd,           \* the command at work
    faults,
    quiet,         \* history: since the command began no call failed and nobody else acted
    calm           \* history: no call ever failed, and nobody closed an issue or took a finished task up again

vars == <<task, issue, pr, cmd, faults, quiet, calm>>

Statuses == {"approved", "in_progress", "in_review", "blocked", "done", "cancelled"}
Finished == {"done", "cancelled"}

\* A description is the text given to `task create`, an issue's text under
\* the sync header, or only that header.
Texts == {"none", "given", "synced", "header"}

Row == [status : Statuses, ref : Issues \cup {None}, text : Texts, from : Issues \cup {None},
        branch : BOOLEAN, url : BOOLEAN]
Issue == [state : {"open", "closed"}, stamp : Tasks \cup {None}, titled : BOOLEAN,
          body : BOOLEAN]

\* A command: what it is, where it is, the task and issue it works on, what is
\* left to do, and the issues as it listed them.
Ops == {"none", "create", "sync", "sweep", "monitor", "sprint"}
Pcs == {"idle", "issue", "ref", "list", "find", "write", "stamp", "next", "close", "done", "poll", "file"}
Listings == UNION {[D -> Issue] : D \in SUBSET Issues}
Command == [op : Ops, pc : Pcs, t : Tasks \cup {None}, i : Issues \cup {None},
            todo : SUBSET (Issues \cup Tasks), snap : Listings, all : BOOLEAN]
Idle == [op |-> "none", pc |-> "idle", t |-> None, i |-> None, todo |-> {}, snap |-> <<>>, all |-> FALSE]

TypeOK ==
    /\ \A t \in DOMAIN task : t \in Tasks /\ task[t] \in Row
    /\ \A i \in DOMAIN issue : i \in Issues /\ issue[i] \in Issue
    /\ pr \in [Tasks -> {"none", "open", "changes", "merged"}]
    /\ cmd \in Command
    /\ faults \in 0 .. MaxFaults /\ quiet \in BOOLEAN /\ calm \in BOOLEAN

Init ==
    /\ task = <<>> /\ issue = <<>> /\ pr = [t \in Tasks |-> "none"]
    /\ cmd = Idle /\ faults = 0 /\ quiet = TRUE /\ calm = TRUE

-----------------------------------------------------------------------------
Put(f, k, v) == [x \in DOMAIN f \cup {k} |-> IF x = k THEN v ELSE f[x]]
Fine == UNCHANGED <<faults, quiet, calm>>
Fail == faults < MaxFaults /\ faults' = faults + 1 /\ quiet' = FALSE /\ calm' = FALSE
Go(pc) == cmd' = [cmd EXCEPT !.pc = pc]
End == cmd' = Idle
Begin(c) == cmd.op = "none" /\ cmd' = c /\ quiet' = TRUE /\ UNCHANGED <<task, issue, pr, faults, calm>>

\* GetTask; a row that is gone or a query that fails is the same error.
Exists(t) == t \in DOMAIN task

\* UpdateTask: the named fields, or an error.
Update(t, row) ==
    \/ /\ task' = [task EXCEPT ![t] = row] /\ UNCHANGED <<faults, quiet>>
       /\ calm' = (calm /\ (task[t].status \in Finished => row.status \in Finished))
    \/ UNCHANGED task /\ Fail

\* taskIssueNumber: notion_id, then the issue the description names.
IssueNumber(t) == IF task[t].ref # None THEN task[t].ref ELSE task[t].from

-----------------------------------------------------------------------------
(* lw task create                                                          *)

\* runTaskCreate to the INSERT: without it nothing else happens.
CreateTask(t) ==
    /\ cmd.op = "none" /\ ~Exists(t) /\ quiet' = TRUE /\ UNCHANGED <<issue, pr, faults, calm>>
    /\ task' = Put(task, t, [status |-> "approved", ref |-> None, text |-> "given", from |-> None,
                             branch |-> FALSE, url |-> FALSE])
    /\ cmd' \in {Idle, [Idle EXCEPT !.op = "create", !.pc = "issue", !.t = t]}   \* --skip-github

\* createGitHubIssueForTask: the row CreateTask returns carries no description,
\* so neither does the issue. A create that fails is tried again without the
\* assignee; both may have been made.
NewIssue(t, titled, body) == [state |-> "open", stamp |-> t, titled |-> titled, body |-> body]
CreateIssue ==
    /\ cmd.op = "create" /\ cmd.pc = "issue" /\ UNCHANGED <<task, pr>>
    /\ \E i \in Issues \ DOMAIN issue :
        \/ issue' = Put(issue, i, NewIssue(cmd.t, FALSE, FALSE)) /\ Fine
           /\ cmd' = [cmd EXCEPT !.pc = "ref", !.i = i]
        \/ issue' = Put(issue, i, NewIssue(cmd.t, FALSE, FALSE)) /\ Fail /\ cmd' \in {Idle, cmd}
        \/ UNCHANGED issue /\ Fail /\ cmd' \in {Idle, cmd}

\* UpdateTaskNotionID; a failure is a warning.
CrossRef ==
    /\ cmd.op = "create" /\ cmd.pc = "ref" /\ End /\ UNCHANGED <<issue, pr>>
    /\ Update(cmd.t, [task[cmd.t] EXCEPT !.ref = cmd.i])

-----------------------------------------------------------------------------
(* lw github sync [--all]                                                  *)

StartSync(all) ==
    /\ DOMAIN issue # {}
    /\ Begin([Idle EXCEPT !.op = "sync", !.pc = "list", !.all = all])

\* fetchIssues: open issues, with --all every one.
ListIssues ==
    /\ cmd.op = "sync" /\ cmd.pc = "list" /\ UNCHANGED <<task, issue, pr>>
    /\ \/ LET listed == {i \in DOMAIN issue : cmd.all \/ issue[i].state = "open"}
          IN cmd' = [cmd EXCEPT !.pc = "find", !.todo = listed, !.snap = [i \in listed |-> issue[i]]] /\ Fine
       \/ End /\ Fail

\* The lookups of syncOneIssue: by the Task ID in the body, then by notion_id;
\* an error reads as no task.
ByStamp(i) == {t \in DOMAIN task : t = cmd.snap[i].stamp}
ByRef(i) == {t \in DOMAIN task : task[t].ref = i}

\* Mutant: the task is looked for by the Task ID in the body only.
FindByStamp ==
    /\ cmd.op = "sync" /\ cmd.pc = "find" /\ UNCHANGED <<task, issue, pr>>
    /\ IF cmd.todo = {} THEN End /\ Fine
       ELSE \E i \in cmd.todo :
           LET Found(ts) == \E t \in (IF ts = {} THEN {None} ELSE ts) :
                   cmd' = [cmd EXCEPT !.pc = "write", !.t = t, !.i = i, !.todo = @ \ {i}]
           IN Found(ByStamp(i)) /\ Fine

Find ==
    /\ cmd.op = "sync" /\ cmd.pc = "find" /\ UNCHANGED <<task, issue, pr>>
    /\ IF cmd.todo = {} THEN End /\ Fine
       ELSE \E i \in cmd.todo :
           LET Found(ts) == \E t \in (IF ts = {} THEN {None} ELSE ts) :
                   cmd' = [cmd EXCEPT !.pc = "write", !.t = t, !.i = i, !.todo = @ \ {i}]
           IN \/ Found(IF ByStamp(i) # {} THEN ByStamp(i) ELSE ByRef(i)) /\ Fine
              \/ Found(ByRef(i)) /\ Fail
              \/ Found({}) /\ Fail

\* formatDescription: the issue's text without the metadata lines.
Described(row, i, snap) == [row EXCEPT !.text = IF snap.body THEN "synced" ELSE "header", !.from = i]

SyncClosed ==
    /\ cmd.op = "sync" /\ cmd.pc = "write" /\ cmd.snap[cmd.i].state = "closed"
    /\ Go("find") /\ UNCHANGED <<issue, pr>>
    /\ IF cmd.t # None /\ Exists(cmd.t) /\ task[cmd.t].status \notin Finished
       THEN Update(cmd.t, [task[cmd.t] EXCEPT !.status = "done"])
       ELSE UNCHANGED task /\ Fine

\* (syncPriorityLabel and `lw github ready` only add labels; they are left out.)
SyncOpen ==
    /\ cmd.op = "sync" /\ cmd.pc = "write" /\ cmd.snap[cmd.i].state = "open" /\ cmd.t # None
    /\ UNCHANGED <<issue, pr>>
    /\ \/ task' = [task EXCEPT ![cmd.t] = Described(@, cmd.i, cmd.snap[cmd.i])] /\ Fine /\ Go("find")
       \/ UNCHANGED task /\ Fail /\ Go("find")

SyncCreate ==
    /\ cmd.op = "sync" /\ cmd.pc = "write" /\ cmd.snap[cmd.i].state = "open" /\ cmd.t = None
    /\ UNCHANGED <<issue, pr>>
    /\ \/ \E t \in Tasks \ DOMAIN task :
            /\ task' = Put(task, t, Described([status |-> "approved", ref |-> cmd.i, text |-> "none", from |-> None,
                                               branch |-> FALSE, url |-> FALSE], cmd.i, cmd.snap[cmd.i]))
            /\ cmd' = [cmd EXCEPT !.pc = IF cmd.snap[cmd.i].stamp = None THEN "stamp" ELSE "find", !.t = t]
            /\ Fine
       \/ UNCHANGED task /\ Fail /\ Go("find")
       \/ UNCHANGED task /\ Fine /\ Tasks = DOMAIN task /\ Go("find")    \* no row left in this instance

\* stampTaskID: reads the body again and leaves a stamp that is there.
StampTaskID ==
    /\ cmd.op = "sync" /\ cmd.pc = "stamp" /\ Go("find") /\ UNCHANGED <<task, pr>>
    /\ \/ issue' = [issue EXCEPT ![cmd.i].stamp = IF @ = None THEN cmd.t ELSE @] /\ Fine
       \/ UNCHANGED issue /\ Fail

-----------------------------------------------------------------------------
(* Pull requests: lw task pr, lw github monitor-pr|sweep-merged|close-done *)

TaskStart(t) ==
    /\ cmd.op = "none" /\ Exists(t) /\ UNCHANGED <<issue, pr, cmd>>
    /\ Update(t, [task[t] EXCEPT !.status = "in_progress", !.branch = TRUE])

\* gh pr create, then the record of it: a pull request may stay unrecorded.
TaskPR(t) ==
    /\ cmd.op = "none" /\ Exists(t) /\ pr[t] = "none" /\ task[t].branch
    /\ UNCHANGED <<issue, cmd>>
    /\ pr' = [pr EXCEPT ![t] = "open"]
    /\ Update(t, [task[t] EXCEPT !.url = TRUE, !.status = "in_review"])

StartMonitor(t) ==
    /\ Exists(t) /\ (task[t].url \/ task[t].branch)
    /\ Begin([Idle EXCEPT !.op = "monitor", !.pc = IF task[t].url THEN "poll" ELSE "find", !.t = t])

\* monitorNewPR: found by branch; a failed update is printed and passed over.
FindPR ==
    /\ cmd.op = "monitor" /\ cmd.pc = "find" /\ UNCHANGED <<issue, pr>>
    /\ IF pr[cmd.t] = "none" THEN End /\ UNCHANGED task /\ Fine            \* --timeout
       ELSE Go("poll") /\ Update(cmd.t, [task[cmd.t] EXCEPT !.url = TRUE, !.status = "in_review"])

\* monitorExistingPR: merged is done, CHANGES_REQUESTED is blocked, and the
\* deadline ends the watch.
Poll ==
    /\ cmd.op = "monitor" /\ cmd.pc = "poll" /\ UNCHANGED <<issue, pr>>
    /\ CASE pr[cmd.t] = "merged" ->
              /\ Update(cmd.t, [task[cmd.t] EXCEPT !.status = "done"])
              /\ cmd' = [cmd EXCEPT !.pc = "close", !.i = IssueNumber(cmd.t)]
         [] pr[cmd.t] = "changes" -> End /\ Update(cmd.t, [task[cmd.t] EXCEPT !.status = "blocked"])
         [] OTHER -> End /\ UNCHANGED task /\ Fine

CloseLinked ==
    \/ issue' = (IF cmd.i = None THEN issue ELSE [issue EXCEPT ![cmd.i].state = "closed"]) /\ Fine
    \/ UNCHANGED issue /\ cmd.i # None /\ Fail

MonitorClose ==
    /\ cmd.op = "monitor" /\ cmd.pc = "close" /\ End /\ UNCHANGED <<task, pr>> /\ CloseLinked

\* runSweepMerged: the recently merged pull requests.
StartSweep ==
    /\ \E t \in Tasks : pr[t] = "merged"
    /\ Begin([Idle EXCEPT !.op = "sweep", !.pc = "next", !.all = TRUE, !.todo = {t \in Tasks : pr[t] = "merged"}])

\* findTaskForPR by url or branch, taskIssueNumber, isIssueOpen; what is not
\* found, not open or not answered is passed over.
Sweep ==
    /\ cmd.op = "sweep" /\ cmd.pc = "next" /\ UNCHANGED <<task, issue, pr>>
    /\ IF cmd.todo = {} THEN End /\ Fine
       ELSE \E t \in cmd.todo :
           IF Exists(t) /\ (task[t].url \/ task[t].branch) /\ IssueNumber(t) # None /\ issue[IssueNumber(t)].state = "open"
           THEN \/ cmd' = [cmd EXCEPT !.pc = "close", !.t = t, !.i = IssueNumber(t), !.todo = @ \ {t}] /\ Fine
                \/ cmd' = [cmd EXCEPT !.todo = @ \ {t}] /\ Fail
           ELSE cmd' = [cmd EXCEPT !.todo = @ \ {t}] /\ Fine

\* close-done is the same two steps for one task, whatever its issue's state.
CloseDone(t) ==
    /\ Exists(t) /\ IssueNumber(t) # None
    /\ Begin([Idle EXCEPT !.op = "sweep", !.pc = "close", !.t = t, !.i = IssueNumber(t)])

SweepClose ==
    /\ cmd.op = "sweep" /\ cmd.pc = "close" /\ Go("done") /\ UNCHANGED <<task, pr>> /\ CloseLinked

\* Mutant: the task is left to the next sync.
SweepCloseOnly ==
    /\ cmd.op = "sweep" /\ cmd.pc = "done" /\ Go("next") /\ UNCHANGED <<task, issue, pr>> /\ Fine

SweepDone ==
    /\ cmd.op = "sweep" /\ cmd.pc = "done" /\ Go("next") /\ UNCHANGED <<issue, pr>>
    /\ IF task[cmd.t].status \in Finished THEN UNCHANGED task /\ Fine
       ELSE Update(cmd.t, [task[cmd.t] EXCEPT !.status = "done"])

-----------------------------------------------------------------------------
(* lw sprint start: SyncSprintTasks over the sprint's tasks                *)

StartSprintSync ==
    /\ DOMAIN task # {}
    /\ Begin([Idle EXCEPT !.op = "sprint", !.pc = "list", !.todo = DOMAIN task])

\* fetchExistingIssues: open ones with [short id] in the title; a failure
\* reads as none.
ListTitled ==
    /\ cmd.op = "sprint" /\ cmd.pc = "list" /\ UNCHANGED <<task, issue, pr>>
    /\ \/ LET titled == {i \in DOMAIN issue : issue[i].state = "open" /\ issue[i].titled}
          IN cmd' = [cmd EXCEPT !.pc = "file", !.snap = [i \in titled |-> issue[i]]] /\ Fine
       \/ Go("file") /\ Fail

\* One task: its titled issue, or a new one with its description, then the
\* link to it.
File ==
    /\ cmd.op = "sprint" /\ cmd.pc = "file" /\ UNCHANGED pr
    /\ IF cmd.todo = {} THEN End /\ UNCHANGED <<task, issue>> /\ Fine
       ELSE \E t \in cmd.todo :
           LET there == {i \in DOMAIN cmd.snap : cmd.snap[i].stamp = t}
               free == Issues \ DOMAIN issue
               Link(i) == Update(t, [task[t] EXCEPT !.ref = i])
           IN /\ cmd' = [cmd EXCEPT !.todo = @ \ {t}]
              /\ IF there # {} THEN UNCHANGED issue /\ \E i \in there : Link(i)
                 ELSE IF free # {}
                      THEN \E i \in free :
                          \/ issue' = Put(issue, i, NewIssue(t, TRUE, task[t].text \notin {"none", "header"})) /\ Link(i)
                          \/ UNCHANGED <<task, issue>> /\ Fail
                      ELSE UNCHANGED <<task, issue>> /\ Fine

-----------------------------------------------------------------------------
(* Everyone else, and the operator                                         *)

Elsewhere == quiet' = (cmd.op = "none") /\ UNCHANGED <<cmd, faults>>
ByHand == faults < MaxFaults /\ faults' = faults + 1 /\ calm' = FALSE /\ quiet' = (cmd.op = "none") /\ UNCHANGED cmd
FileIssue ==
    \E i \in Issues \ DOMAIN issue :
        /\ issue' = Put(issue, i, [state |-> "open", stamp |-> None, titled |-> FALSE, body |-> TRUE])
        /\ UNCHANGED <<task, pr, calm>> /\ Elsewhere
Toggle(i) ==
    /\ issue' = [issue EXCEPT ![i].state = IF @ = "open" THEN "closed" ELSE "open"]
    /\ UNCHANGED <<task, pr>> /\ ByHand
Review(t) ==
    /\ pr[t] \in {"open", "changes"} /\ \E s \in {"changes", "merged"} \ {pr[t]} : pr' = [pr EXCEPT ![t] = s]
    /\ UNCHANGED <<task, issue, calm>> /\ Elsewhere
SetStatus(t, s) ==
    /\ task[t].status # s /\ task' = [task EXCEPT ![t].status = s] /\ UNCHANGED <<issue, pr>> /\ ByHand
Interrupted == cmd.op # "none" /\ End /\ Fail /\ UNCHANGED <<task, issue, pr>>

Next ==
    \/ \E t \in Tasks : CreateTask(t)
    \/ CreateIssue \/ CrossRef
    \/ \E all \in BOOLEAN : StartSync(all)
    \/ ListIssues \/ Find \/ SyncClosed \/ SyncOpen \/ SyncCreate \/ StampTaskID
    \/ \E t \in Tasks : TaskStart(t) \/ TaskPR(t) \/ StartMonitor(t) \/ CloseDone(t) \/ Review(t)
    \/ FindPR \/ Poll \/ MonitorClose
    \/ StartSweep \/ Sweep \/ SweepClose \/ SweepDone
    \/ StartSprintSync \/ ListTitled \/ File
    \/ FileIssue
    \/ \E i \in DOMAIN issue : Toggle(i)
    \/ \E t \in DOMAIN task, s \in {"approved", "cancelled"} : SetStatus(t, s)
    \/ Interrupted
Spec == Init /\ [][Next]_vars

-----------------------------------------------------------------------------
(* Properties                                                              *)

Ends(op) == cmd.op = op /\ cmd'.op = "none" /\ quiet /\ quiet'

\* The tasks an issue stands for: the one it names, and those that name it.
TasksOf(i) == {t \in DOMAIN task : t = issue[i].stamp \/ task[t].ref = i}

\* When nothing failed and nobody else acted since it began, a sync makes a
\* task only for an issue that no task stood for, whatever was left half done
\* before it; when it ends every open issue has a task, and after --all a task
\* of each closed one that has any is finished. A sweep leaves no merged work
\* with an open issue. (As long as the instance has a row left to make.)
IssuesAndTasksAgree ==
    /\ (cmd.op = "sync" /\ DOMAIN task' # DOMAIN task /\ quiet) => TasksOf(cmd.i) = {}
    /\ Ends("sync") /\ cmd.pc = "find" /\ DOMAIN task # Tasks =>
           \A i \in DOMAIN issue :
               IF issue[i].state = "open" THEN TasksOf(i) # {}
               ELSE cmd.all /\ TasksOf(i) # {} => \E t \in TasksOf(i) : task[t].status \in Finished
    /\ Ends("sweep") =>
           \A t \in DOMAIN task :
               pr[t] = "merged" /\ (task[t].branch \/ task[t].url) /\ IssueNumber(t) # None /\ cmd.all
                   => issue[IssueNumber(t)].state = "closed"

\* Where no call ever failed and nobody closed an issue by hand or took a
\* finished task up again, work whose pull request is merged and whose issue is closed is
\* finished in the database too, however the commands followed each other.
MergedWorkIsFinished ==
    calm /\ cmd.op = "none" =>
        \A t \in DOMAIN task :
            pr[t] = "merged" /\ IssueNumber(t) # None /\ issue[IssueNumber(t)].state = "closed"
                => task[t].status \in Finished

\* `task.go`: "The createOS task always lands, so the captured description is
\* never lost".
DescriptionKept == [][\A t \in DOMAIN task : task[t].text = "given" => task'[t].text \in {"given", "synced"}]_vars

-----------------------------------------------------------------------------
(* The strengthening: what rows, issues and the command at work know of    *)
(* each other.                                                             *)

\* A stamp names a row, and a row names issues that exist.
ReferencesExist ==
    /\ \A i \in DOMAIN issue : issue[i].stamp \in DOMAIN task \cup {None}
    /\ \A t \in DOMAIN task : {task[t].ref, task[t].from} \subseteq DOMAIN issue \cup {None}

\* What a command holds on to exists.
HoldsWhatExists ==
    /\ cmd.op = "none" => cmd = Idle
    /\ cmd.op = "create" => /\ cmd.pc \in {"issue", "ref"} /\ cmd.t \in DOMAIN task
                            /\ cmd.pc = "ref" => cmd.i \in DOMAIN issue /\ issue[cmd.i].stamp = cmd.t
    /\ cmd.op = "monitor" => /\ cmd.pc \in {"find", "poll", "close"} /\ cmd.t \in DOMAIN task
                             /\ cmd.pc = "close" => cmd.i = IssueNumber(cmd.t)
    /\ cmd.op = "sweep" => /\ cmd.pc \in {"next", "close", "done"} /\ cmd.todo \subseteq Tasks
                           /\ cmd.pc \in {"close", "done"} => cmd.t \in DOMAIN task
                           /\ cmd.pc = "close" => cmd.i = IssueNumber(cmd.t) /\ cmd.i \in DOMAIN issue
    /\ cmd.op \in {"sync", "sprint"} =>
           /\ DOMAIN cmd.snap \subseteq DOMAIN issue
           /\ \A i \in DOMAIN cmd.snap : cmd.snap[i].stamp \in {None, issue[i].stamp}
    /\ cmd.op = "sprint" => cmd.pc \in {"list", "file"} /\ cmd.todo \subseteq DOMAIN task
    /\ cmd.op = "sync" =>
           /\ cmd.pc \in {"list", "find", "write", "stamp"} /\ cmd.todo \subseteq DOMAIN cmd.snap
           /\ cmd.pc \in {"write", "stamp"} => cmd.i \in DOMAIN cmd.snap \ cmd.todo
           /\ cmd.pc = "write" => cmd.t \in DOMAIN task \cup {None}
           /\ cmd.pc = "stamp" => cmd.t \in DOMAIN task

\* While no call of a sync failed, what it has yet to do is as it was listed,
\* and the task it found is the one there is.
ListingHolds ==
    cmd.op = "sync" /\ (quiet \/ calm) =>
        /\ \A i \in cmd.todo : cmd.snap[i] = issue[i]
        /\ cmd.pc = "write" => /\ cmd.snap[cmd.i] = issue[cmd.i]
                               /\ IF cmd.t = None THEN TasksOf(cmd.i) = {} ELSE cmd.t \in TasksOf(cmd.i)
        /\ cmd.pc = "stamp" => /\ issue[cmd.i].stamp = None /\ issue[cmd.i].state = "open"
                               /\ task[cmd.t].ref = cmd.i

\* What an undisturbed sync has been through is settled.
Settled(i) ==
    IF issue[i].state = "open" THEN TasksOf(i) # {} \/ DOMAIN task = Tasks
    ELSE TasksOf(i) # {} => \E t \in TasksOf(i) : task[t].status \in Finished
SyncSettles ==
    cmd.op = "sync" /\ cmd.pc # "list" /\ quiet =>
        /\ \A i \in DOMAIN issue \ DOMAIN cmd.snap : ~cmd.all /\ issue[i].state = "closed"
        /\ \A i \in DOMAIN cmd.snap \ cmd.todo : (cmd.pc = "write" /\ i = cmd.i) \/ Settled(i)

\* Merged work is before an undisturbed sweep, or its issue is closed.
SweepSettles ==
    cmd.op = "sweep" /\ cmd.all /\ quiet =>
        \A t \in DOMAIN task :
            pr[t] = "merged" /\ (task[t].branch \/ task[t].url) /\ IssueNumber(t) # None =>
                \/ t \in cmd.todo \/ (cmd.pc = "close" /\ cmd.t = t)
                \/ issue[IssueNumber(t)].state = "closed"

\* Where nothing ever failed, the issue of a task names it, and a closed issue
\* names a finished task - up to the step the command at work is about to do.
LinksAreStamped ==
    \A t \in DOMAIN task : \A i \in {task[t].ref, task[t].from} \ {None} :
        issue[i].stamp = t \/ (cmd.op = "sync" /\ cmd.pc = "stamp" /\ cmd.t = t /\ cmd.i = i)
ClosedIsFinished ==
    \A i \in DOMAIN issue : issue[i].state = "closed" /\ issue[i].stamp # None =>
        \/ task[issue[i].stamp].status \in Finished
        \/ cmd.op = "sweep" /\ cmd.pc = "done" /\ cmd.t = issue[i].stamp
MonitorFinishes == cmd.op = "monitor" /\ cmd.pc = "close" => task[cmd.t].status \in Finished

IInv ==
    /\ TypeOK /\ ReferencesExist /\ HoldsWhatExists
    /\ ListingHolds /\ SyncSettles /\ SweepSettles
    /\ calm => LinksAreStamped /\ ClosedIsFinished /\ MonitorFinishes
=============================================================================
