---------------------------- MODULE Nulltickets ----------------------------
(***************************************************************************)
(* The nulltickets queue as the CLI sees it through                        *)
(* internal/nulltickets/client.go: tasks found by an idempotency key, a    *)
(* lease before a transition, a withdrawal that needs no lease.  The       *)
(* server itself is not in this repository; its answers are taken from     *)
(* what the client and its callers rely on.                                *)
(*                                                                         *)
(* A task is identified with the key it was created under: the issue it    *)
(* stands for and its generation (generationKey).  The stages before       *)
(* in_development are folded into in_development; "closed" also stands for *)
(* the older stage name "done".                                            *)
(***************************************************************************)
EXTENDS Naturals

CONSTANTS
    Issues,          \* issue numbers of the repository
    MaxGenerations,  \* promoteMaxGenerations
    Reconcilers,     \* processes running `lw issue reconcile`
    NoLease,         \* no process holds the task
    MaxVersion,      \* bound on task_version
    MaxFaults        \* bound on failed calls and killed processes

ASSUME QueueAssumption ==
    /\ Issues \subseteq Nat
    /\ MaxGenerations \in Nat \ {0}
    /\ MaxVersion \in Nat \ {0}
    /\ MaxFaults \in Nat
    /\ NoLease \notin Reconcilers

VARIABLES
    task,    \* the queue: what is stored under each key
    faults   \* calls that failed and processes that were killed so far

queueVars == <<task, faults>>

Generations == 1 .. MaxGenerations
Tasks == Issues \X Generations
TaskOf(i, g) == <<i, g>>
IssueOf(t) == t[1]

Stages == {"absent", "in_development", "in_review", "closed", "not_doing"}
Terminal == {"closed", "not_doing"}

\* How long ago updated_at_ms was, as the loop tells ages apart: within
\* missingPullRequestGrace, within orphanWindow, older.
Ages == {"fresh", "graced", "old"}
PastGrace(age) == age \in {"graced", "old"}
InOrphanWindow(age) == age \in {"fresh", "graced"}

\* What the issue looks like to promotionRequest: the label set is part of the
\* metadata, hence of the body the idempotency key is compared with.
\* "by" tells the poll's request from the webhook receiver's.
Labels == {"status:ready", "status:retry", "needs-operator"}
Bodies == [by : {"poll", "webhook"}, text : Nat, labels : SUBSET Labels]

TaskRecord == [stage : Stages, version : Nat, parked : BOOLEAN, age : Ages,
               lease : Reconcilers \cup {NoLease}, body : Bodies]

NoBody == [by |-> "poll", text |-> 0, labels |-> {}]
NoTask == [stage |-> "absent", version |-> 0, parked |-> FALSE, age |-> "fresh",
           lease |-> NoLease, body |-> NoBody]

\* taskIsLive, on the stored task; parked is taskIsExhausted.
Live(rec) == rec.stage \notin Terminal /\ ~rec.parked
Exists(t) == task[t].stage # "absent"

-----------------------------------------------------------------------------
(* The operations of the client, as updates of the stored task.            *)

Conflicts(t, body) == Exists(t) /\ task[t].body # body

\* A new key makes a task, a repeat of the same body replays it, and a
\* different body is answered 409 and changes nothing.
CreateTask(t, body) ==
    task' = IF Exists(t) THEN task
            ELSE [task EXCEPT ![t] = [NoTask EXCEPT !.stage = "in_development",
                                                    !.version = 1,
                                                    !.body = body]]

MoveTo(t, stage, version) ==
    task' = [task EXCEPT ![t].stage = stage, ![t].version = version,
                         ![t].age = "fresh", ![t].lease = NoLease]

\* Mutant: a withdrawal that goes through a lease, as a transition does.
WithdrawableByLease(t) == task[t].stage = "in_review" /\ task[t].lease = NoLease
Withdrawable(t) == task[t].stage \in {"in_development", "in_review"}
Withdraw(t) == MoveTo(t, "not_doing", task[t].version)

Claimable(t) == task[t].stage = "in_review" /\ task[t].lease = NoLease
ClaimTask(t, r) == task' = [task EXCEPT ![t].lease = r]

\* The stage a trigger fired in in_review leads to, and the version it leaves:
\* a reject bumps task_version, as a submit does.
StageAfter(verdict) ==
    CASE verdict = "approved" -> "closed"
      [] verdict = "dropped"  -> "not_doing"
      [] verdict = "rejected" -> "in_development"

VersionAfter(t, verdict) ==
    IF verdict = "rejected" THEN task[t].version + 1 ELSE task[t].version

\* The lease token is still good and the task is in the expected stage.
TransitionAllowed(t, r) == task[t].lease = r /\ task[t].stage = "in_review"
Transition(t, verdict) == MoveTo(t, StageAfter(verdict), VersionAfter(t, verdict))

\* One more call has failed, or one more process was killed.
Fault == faults < MaxFaults /\ faults' = faults + 1

-----------------------------------------------------------------------------
(* The queue's other users: the worker that develops a task, the server's  *)
(* clock, and the operator.                                                *)

WorkerSubmit(t) ==
    /\ task[t].stage = "in_development" /\ ~task[t].parked
    /\ task[t].version < MaxVersion
    /\ MoveTo(t, "in_review", task[t].version + 1)
    /\ UNCHANGED faults

\* The last attempt failed: the task is parked at the end of time, in place.
WorkerExhaust(t) ==
    /\ task[t].stage = "in_development" /\ ~task[t].parked
    /\ task' = [task EXCEPT ![t].parked = TRUE]
    /\ UNCHANGED faults

WorkerDrop(t) ==
    /\ task[t].stage = "in_development" /\ ~task[t].parked
    /\ MoveTo(t, "not_doing", task[t].version)
    /\ UNCHANGED faults

OperatorWithdraw(t) ==
    /\ Withdrawable(t)
    /\ Withdraw(t)
    /\ UNCHANGED faults

Elapse(t) ==
    /\ Exists(t)
    /\ \/ /\ task[t].age = "fresh"
          /\ task' = [task EXCEPT ![t].age = "graced"]
       \/ /\ task[t].age = "graced"
          /\ task' = [task EXCEPT ![t].age = "old"]
    /\ UNCHANGED faults

LeaseLapses(t) ==
    /\ task[t].lease # NoLease
    /\ task' = [task EXCEPT ![t].lease = NoLease]

QueueInit ==
    /\ task = [t \in Tasks |-> NoTask]
    /\ faults = 0

QueueTypeOK ==
    /\ task \in [Tasks -> TaskRecord]
    /\ faults \in 0 .. MaxFaults
=============================================================================
