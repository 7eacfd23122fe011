--------------------------- MODULE IssuePromote ---------------------------
(***************************************************************************)
(* `lw issue promote` (internal/cli/issue_loop_handlers.go): one polling   *)
(* process that turns labelled GitHub issues into queue tasks, step by     *)
(* step between its calls, beside the webhook receiver, the operator who   *)
(* labels and edits issues, and the workers that end tasks.                *)
(***************************************************************************)
EXTENDS Nulltickets, FiniteSets

CONSTANTS
    Limit,       \* --limit: how many issues one listing returns
    MaxEdits,    \* bound on edits of one issue's text
    Webhooks     \* whether the webhook receiver runs beside the poll

ASSUME PromoteAssumption == Limit \in Nat /\ MaxEdits \in Nat /\ Webhooks \in BOOLEAN

VARIABLES
    issue,   \* GitHub: open, labels and text of each issue
    prom     \* the promote process: where it is and what it has read

promoteVars == <<task, faults, issue, prom>>

IssueRecord == [open : BOOLEAN, labels : SUBSET Labels, text : 0 .. MaxEdits]

\* todo is the listing being worked through: the issues as they were read.
Idle == [pc |-> "idle", todo |-> {}, gen |-> 1]

Body(i) == [by |-> "poll", text |-> issue[i].text, labels |-> issue[i].labels]
WebhookBody(i) == [by |-> "webhook", text |-> issue[i].text, labels |-> {}]

\* ListOpenIssues: at most Limit of the open issues that carry the label;
\* which ones, when there are more, is up to gh.
ListOpenIssues(label) ==
    LET carrying == {i \in Issues : issue[i].open /\ label \in issue[i].labels}
    IN  {is \in SUBSET carrying :
            Cardinality(is) = Limit \/ (is = carrying /\ Cardinality(is) < Limit)}

Snapshot(is) == {[issue |-> i, body |-> Body(i)] : i \in is}

\* The loop takes the listing in order: the entry with the lowest number.
Current == CHOOSE e \in prom.todo : \A f \in prom.todo : e.issue <= f.issue
Key == TaskOf(Current.issue, prom.gen)

NextEntry == [prom EXCEPT !.todo = prom.todo \ {Current}, !.gen = 1, !.pc = "retry"]

\* Mutant: the generation cap is not looked at.
NextGenerationUncapped == [prom EXCEPT !.gen = prom.gen + 1, !.pc = "retry"]

\* The generation at hand is spent: try the next one, or give the issue up.
NextGeneration ==
    IF prom.gen < MaxGenerations
    THEN [prom EXCEPT !.gen = prom.gen + 1, !.pc = "retry"]
    ELSE NextEntry

-----------------------------------------------------------------------------
(* issuePromoteHandler                                                     *)

PromoteStart ==
    /\ prom.pc = "idle"
    /\ \E listing \in ListOpenIssues("status:ready") :
          prom' = [Idle EXCEPT !.pc = "ready", !.todo = Snapshot(listing)]
    /\ UNCHANGED <<task, faults, issue>>

\* One CreateTask; promoted, already_promoted (409) and error all go on.
PromoteIssue ==
    /\ prom.pc = "ready" /\ prom.todo # {}
    /\ prom' = [prom EXCEPT !.todo = @ \ {Current}]
    /\ \/ CreateTask(TaskOf(Current.issue, 1), Current.body) /\ UNCHANGED faults
       \/ Fault /\ UNCHANGED task
       \/ Fault /\ CreateTask(TaskOf(Current.issue, 1), Current.body)
    /\ UNCHANGED issue

PromoteListRetries ==
    /\ prom.pc = "ready" /\ prom.todo = {}
    /\ \E listing \in ListOpenIssues("status:retry") :
          prom' = [Idle EXCEPT !.pc = "retry", !.todo = Snapshot(listing)]
    /\ UNCHANGED <<task, faults, issue>>

\* The handler's return, and what ends a process before it: a failed listing,
\* a kill.
PromoteEnd ==
    /\ prom.pc = "retry" /\ prom.todo = {}
    /\ prom' = Idle
    /\ UNCHANGED <<task, faults, issue>>

PromoteAbort ==
    /\ prom.pc # "idle"
    /\ Fault
    /\ prom' = Idle
    /\ UNCHANGED <<task, issue>>

-----------------------------------------------------------------------------
(* retryIssue: create or find the generation, read it, consume the label.  *)

\* Mutant: a 409 is read as a replay.
RetryCreateReadingConflictAsReplay ==
    /\ prom.pc = "retry" /\ prom.todo # {}
    /\ CreateTask(Key, Current.body)
    /\ prom' = [prom EXCEPT !.pc = "created"]
    /\ UNCHANGED <<faults, issue>>

RetryCreate ==
    /\ prom.pc = "retry" /\ prom.todo # {}
    /\ \/ /\ Conflicts(Key, Current.body)
          /\ prom' = NextGeneration
          /\ UNCHANGED <<task, faults>>
       \/ /\ ~Conflicts(Key, Current.body)
          /\ CreateTask(Key, Current.body)
          /\ prom' = [prom EXCEPT !.pc = "created"]
          /\ UNCHANGED faults
    /\ UNCHANGED issue

\* Mutant: an error is treated like a spent generation.
RetryCreateFailsMovingOn ==
    /\ prom.pc = "retry" /\ prom.todo # {}
    /\ Fault
    /\ UNCHANGED task \/ CreateTask(Key, Current.body)
    /\ prom' = NextGeneration
    /\ UNCHANGED issue

\* The call fails, before or after the server acted on it: the issue is
\* reported as an error and left for the next tick.
RetryCreateFails ==
    /\ prom.pc = "retry" /\ prom.todo # {}
    /\ Fault
    /\ UNCHANGED task \/ CreateTask(Key, Current.body)
    /\ prom' = NextEntry
    /\ UNCHANGED issue

\* Mutant: a task that cannot be read is taken for dead.
RetryGetFailureMeansDead ==
    /\ prom.pc = "created"
    /\ \/ prom' = (IF Live(task[Key]) THEN [prom EXCEPT !.pc = "unlabel"] ELSE NextGeneration)
          /\ UNCHANGED faults
       \/ prom' = NextGeneration /\ Fault
    /\ UNCHANGED <<task, issue>>

RetryGet ==
    /\ prom.pc = "created"
    /\ \/ prom' = (IF Live(task[Key]) THEN [prom EXCEPT !.pc = "unlabel"] ELSE NextGeneration)
          /\ UNCHANGED faults
       \/ prom' = NextEntry /\ Fault
    /\ UNCHANGED <<task, issue>>

\* Mutant: the retry label is never removed.
RetryUnlabelForgotten ==
    /\ prom.pc = "unlabel"
    /\ prom' = NextEntry
    /\ UNCHANGED <<task, faults, issue>>

RetryUnlabel ==
    /\ prom.pc = "unlabel"
    /\ \/ /\ issue' = [issue EXCEPT ![Current.issue].labels = @ \ {"status:retry"}]
          /\ UNCHANGED faults
       \/ Fault /\ UNCHANGED issue
    /\ prom' = NextEntry
    /\ UNCHANGED task

-----------------------------------------------------------------------------
(* Everyone else who touches issues and tasks.                             *)

\* The receiver's promote_issue: the same key, a body of its own.
WebhookPromote(i) ==
    /\ Webhooks /\ issue[i].open
    /\ CreateTask(TaskOf(i, 1), WebhookBody(i))
    /\ UNCHANGED <<faults, issue, prom>>

OperatorLabels(i) ==
    /\ issue[i].open
    /\ \E label \in Labels :
          issue' = [issue EXCEPT ![i].labels =
                        IF label = "needs-operator" THEN @ \ {label} ELSE @ \cup {label}]
    /\ UNCHANGED <<task, faults, prom>>

OperatorEdits(i) ==
    /\ issue[i].open /\ issue[i].text < MaxEdits
    /\ issue' = [issue EXCEPT ![i].text = @ + 1]
    /\ UNCHANGED <<task, faults, prom>>

IssueCloses(i) ==
    /\ issue[i].open
    /\ issue' = [issue EXCEPT ![i].open = FALSE]
    /\ UNCHANGED <<task, faults, prom>>

\* A task ends: the worker dropped or exhausted it, or it went through review.
TaskEnds(t) ==
    /\ \/ WorkerExhaust(t)
       \/ WorkerDrop(t)
       \/ /\ task[t].stage = "in_development" /\ ~task[t].parked
          /\ MoveTo(t, "closed", task[t].version)
          /\ UNCHANGED faults
    /\ UNCHANGED <<issue, prom>>

Init ==
    /\ QueueInit
    /\ issue \in [Issues -> {[open |-> TRUE, labels |-> l, text |-> 0] : l \in SUBSET Labels}]
    /\ prom = Idle

Promote ==
    \/ PromoteStart
    \/ PromoteIssue
    \/ PromoteListRetries
    \/ PromoteEnd
    \/ RetryCreate
    \/ RetryCreateFails
    \/ RetryGet
    \/ RetryUnlabel

Environment ==
    \/ PromoteAbort
    \/ \E i \in Issues : \/ WebhookPromote(i)
                         \/ OperatorLabels(i)
                         \/ OperatorEdits(i)
                         \/ IssueCloses(i)
    \/ \E t \in Tasks : TaskEnds(t)

Next == Promote \/ Environment

Spec == Init /\ [][Next]_promoteVars

\* launchd starts the handler again and again, and a started handler runs on.
FairSpec == Spec /\ WF_promoteVars(Promote)

-----------------------------------------------------------------------------
Entry == [issue : Issues, body : Bodies]

TypeOK ==
    /\ QueueTypeOK
    /\ issue \in [Issues -> IssueRecord]
    /\ prom \in [pc : {"idle", "ready", "retry", "created", "unlabel"},
                 todo : SUBSET Entry, gen : Generations]
    /\ prom.pc \in {"created", "unlabel"} => prom.todo # {}

\* The generations of an issue are used in order: retryIssue never skips over
\* a key, so the n-th attempt is always the n-th task and the cap
\* promoteMaxGenerations counts attempts.
NoGenerationGap ==
    \A i \in Issues : \A g \in Generations :
        Exists(TaskOf(i, g)) => \A h \in 1 .. g : Exists(TaskOf(i, h))

\* A fresh attempt is queued only when the one before it is dead, or the issue
\* no longer reads as it did when that one was queued (the 409 of retryIssue):
\* whatever fails, is killed or ends in between, a tick never adds a second
\* task for an unchanged issue whose task is still being worked.
FreshAttemptNeedsACause ==
    [][\A i \in Issues : \A g \in Generations \ {1} :
          (~Exists(TaskOf(i, g)) /\ Exists(TaskOf(i, g))') =>
              \/ ~Live(task[TaskOf(i, g - 1)])
              \/ task[TaskOf(i, g - 1)].body # task'[TaskOf(i, g)].body]_promoteVars

\* The operator's status:retry is consumed by the loop only when it stands for
\* an attempt that was live when it was read: a task of this issue, stored
\* with the body the issue had in this tick's listing.
RetryLabelConsumedByAnAttempt ==
    prom.pc = "unlabel" => /\ Exists(Key)
                           /\ task[Key].body = Current.body

\* retryIssue's comment, for issues whose text nobody edits: a retry lands on
\* "the first generation whose task is still live", so it never leaves two
\* live tasks for one issue.
OneLiveAttempt ==
    \A i \in Issues : \A g, h \in Generations :
        (/\ Exists(TaskOf(i, g)) /\ Live(task[TaskOf(i, g)])
         /\ Exists(TaskOf(i, h)) /\ Live(task[TaskOf(i, h)])) => g = h

\* A retry request does not sit unseen: the label is consumed, or the issue is
\* closed, or every generation is spent (the report then says that a person
\* needs to look).
AllGenerationsUsed(i) == \A g \in Generations : Exists(TaskOf(i, g))
RetryIsServed ==
    \A i \in Issues :
        (issue[i].open /\ "status:retry" \in issue[i].labels) ~>
            \/ ~issue[i].open
            \/ "status:retry" \notin issue[i].labels
            \/ AllGenerationsUsed(i)
=============================================================================
